---------------------------- MODULE SumTheorems -----------------------------
(***************************************************************************)
(* What SumFunctionOnSet(f, S) of the community module Functions computes, *)
(* the sum of f[x] for x in a finite set S.  It is defined by a recursion  *)
(* that takes S apart in an order nothing is known about.                  *)
(*                                                                         *)
(* Induction is done with sets in place of predicates: strict inclusion is *)
(* well founded on the subsets of a finite set, so a set of sets at which  *)
(* a lemma fails would have a smallest member (SmallestSet).               *)
(***************************************************************************)
EXTENDS Functions, FiniteSets, FiniteSetTheorems, TLAPS

\* A family of subsets of a finite set has a member that contains no other.
LEMMA SmallestSet ==
    ASSUME NEW S, IsFiniteSet(S), NEW F \in SUBSET SUBSET S, F # {}
    PROVE  \E m \in F : \A t \in F : t \subseteq m => t = m
<1>1. IsWellFoundedOn(StrictSubsetOrdering(S), SUBSET S)
  BY FS_StrictSubsetOrderingWellFounded, FS_FiniteSubsetsOfFinite
<1>2. PICK m \in F : \A t \in F : <<t, m>> \notin StrictSubsetOrdering(S)
  BY <1>1, WFMin
<1>. QED
  BY <1>2 DEF StrictSubsetOrdering

-----------------------------------------------------------------------------
\* The recursion: g maps each subset of S to its sum.

Picked(s) == CHOOSE x \in s : TRUE

IsSum(g, f, S) ==
    g = [s \in SUBSET S |->
            IF s = {} THEN 0 ELSE f[Picked(s)] + g[s \ {Picked(s)}]]

LEMMA SumFunctionUnfolded ==
    ASSUME NEW f, NEW S, \E g : IsSum(g, f, S)
    PROVE  \E g : IsSum(g, f, S) /\ SumFunctionOnSet(f, S) = g[S]
BY DEF SumFunctionOnSet, FoldFunctionOnSet, MapThenFoldSet, IsSum, Picked

LEMMA PickedIsMember ==
    ASSUME NEW s, s # {}
    PROVE  Picked(s) \in s
BY DEF Picked

LEMMA SumEquation ==
    ASSUME NEW f, NEW S, NEW g, IsSum(g, f, S), NEW s \in SUBSET S
    PROVE  g[s] = IF s = {} THEN 0
                  ELSE f[Picked(s)] + g[s \ {Picked(s)}]
BY DEF IsSum

LEMMA SumUnique ==
    ASSUME NEW f, NEW S, IsFiniteSet(S), NEW R \in SUBSET S,
           NEW g, IsSum(g, f, S), NEW h, IsSum(h, f, R)
    PROVE  \A s \in SUBSET R : g[s] = h[s]
<1> DEFINE F == {s \in SUBSET R : g[s] # h[s]}
<1> SUFFICES ASSUME F # {} PROVE FALSE
  OBVIOUS
<1>1. F \in SUBSET SUBSET S
  OBVIOUS
<1>2. PICK m \in F : \A t \in F : t \subseteq m => t = m
  <2> HIDE DEF F
  <2>. QED
    BY <1>1, SmallestSet
<1>3. m # {}
  <2>1. {} \in SUBSET S /\ {} \in SUBSET R
    OBVIOUS
  <2>2. g[{}] = 0 /\ h[{}] = 0
    BY <2>1, SumEquation
  <2>. QED
    BY <2>2
<1>4. Picked(m) \in m
  BY <1>3, PickedIsMember
<1>5. m \ {Picked(m)} \in SUBSET R /\ m \ {Picked(m)} # m
  BY <1>4
<1>6. g[m \ {Picked(m)}] = h[m \ {Picked(m)}]
  BY <1>2, <1>5
<1>7. g[m] = f[Picked(m)] + g[m \ {Picked(m)}]
  BY <1>3, SumEquation
<1>8. h[m] = f[Picked(m)] + h[m \ {Picked(m)}]
  BY <1>3, SumEquation
<1>. QED
  BY <1>2, <1>6, <1>7, <1>8

LEMMA SumExists ==
    ASSUME NEW f, NEW S, IsFiniteSet(S)
    PROVE  \E g : IsSum(g, f, S)
<1> DEFINE F == {s \in SUBSET S : ~ \E g : IsSum(g, f, s)}
           V(s) == CHOOSE g : IsSum(g, f, s)
<1> SUFFICES ASSUME F # {} PROVE FALSE
  OBVIOUS
<1>1. PICK m \in F : \A t \in F : t \subseteq m => t = m
  <2>1. F \in SUBSET SUBSET S
    OBVIOUS
  <2> HIDE DEF F
  <2>. QED
    BY <2>1, SmallestSet
<1>2. \A s \in SUBSET m : s # m => IsSum(V(s), f, s)
  BY <1>1
<1>3. \A s \in SUBSET m : IsFiniteSet(s)
  BY FS_Subset
<1> DEFINE W == [s \in SUBSET m |->
                    IF s # m THEN V(s)[s]
                    ELSE IF s = {} THEN 0
                    ELSE f[Picked(s)] + V(s \ {Picked(s)})[s \ {Picked(s)}]]
<1> HIDE DEF V
<1>4. ASSUME NEW s \in SUBSET m
      PROVE  W[s] = IF s = {} THEN 0 ELSE f[Picked(s)] + W[s \ {Picked(s)}]
  <2> DEFINE r == s \ {Picked(s)}
  <2>1. CASE s = {}
    <3>1. CASE s = m
      BY <2>1, <3>1
    <3>2. CASE s # m
      <4>1. s \in SUBSET s /\ IsSum(V(s), f, s)
        BY <1>2, <3>2
      <4>2. V(s)[s] = 0
        BY <2>1, <4>1, SumEquation
      <4>. QED
        BY <2>1, <3>2, <4>2
    <3>. QED
      BY <3>1, <3>2
  <2>2. CASE s # {}
    <3>1. r \in SUBSET s /\ r # s /\ r \in SUBSET m /\ r # m
      BY <2>2, PickedIsMember
    <3>2. W[r] = V(r)[r]
      BY <3>1
    <3>3. CASE s = m
      BY <2>2, <3>2, <3>3
    <3>4. CASE s # m
      <4>1. V(s)[s] = f[Picked(s)] + V(s)[r]
        BY <1>2, <2>2, <3>4, SumEquation
      <4>2. V(s)[r] = V(r)[r]
        <5>1. IsSum(V(s), f, s) /\ IsSum(V(r), f, r)
          BY <1>2, <3>1, <3>4
        <5>. QED
          BY <1>3, <3>1, <5>1, SumUnique
      <4>. QED
        BY <2>2, <3>2, <3>4, <4>1, <4>2
    <3>. QED
      BY <3>3, <3>4
  <2>. QED
    BY <2>1, <2>2
<1>5. IsSum(W, f, m)
  <2> HIDE DEF W
  <2>1. W = [s \in SUBSET m |-> W[s]]
    BY DEF W
  <2>. QED
    BY <1>4, <2>1 DEF IsSum
<1>. QED
  BY <1>1, <1>5

-----------------------------------------------------------------------------
\* What the sum of a finite set is, by the member the recursion picks.
LEMMA SumDef ==
    ASSUME NEW f, NEW S, IsFiniteSet(S)
    PROVE  SumFunctionOnSet(f, S) =
               IF S = {} THEN 0
               ELSE f[Picked(S)] + SumFunctionOnSet(f, S \ {Picked(S)})
<1> DEFINE R == S \ {Picked(S)}
<1>1. PICK g : IsSum(g, f, S) /\ SumFunctionOnSet(f, S) = g[S]
  BY SumExists, SumFunctionUnfolded
<1>2. g[S] = IF S = {} THEN 0 ELSE f[Picked(S)] + g[R]
  BY <1>1, SumEquation
<1>3. IsFiniteSet(R) /\ R \in SUBSET S
  BY FS_Subset
<1>4. PICK h : IsSum(h, f, R) /\ SumFunctionOnSet(f, R) = h[R]
  BY <1>3, SumExists, SumFunctionUnfolded
<1>5. g[R] = h[R]
  BY <1>1, <1>3, <1>4, SumUnique
<1>. QED
  BY <1>1, <1>2, <1>4, <1>5

\* The sum of nothing.
LEMMA SumEmpty == ASSUME NEW f PROVE SumFunctionOnSet(f, {}) = 0
BY SumDef, FS_EmptySet

\* A sum of integers is one.
LEMMA SumInt ==
    ASSUME NEW f, NEW S, IsFiniteSet(S), \A x \in S : f[x] \in Int
    PROVE  SumFunctionOnSet(f, S) \in Int
<1> DEFINE F == {s \in SUBSET S : SumFunctionOnSet(f, s) \notin Int}
<1> SUFFICES ASSUME F # {} PROVE FALSE
  OBVIOUS
<1>1. PICK m \in F : \A t \in F : t \subseteq m => t = m
  <2>1. F \in SUBSET SUBSET S
    OBVIOUS
  <2> HIDE DEF F
  <2>. QED
    BY <2>1, SmallestSet
<1>2. m \in SUBSET S /\ IsFiniteSet(m)
  BY FS_Subset
<1>3. m # {}
  BY SumEmpty
<1>4. Picked(m) \in m
  BY <1>3, PickedIsMember
<1>5. SumFunctionOnSet(f, m \ {Picked(m)}) \in Int
  BY <1>1, <1>2, <1>4
<1>6. f[Picked(m)] \in Int
  BY <1>2, <1>4
<1>. QED
  BY <1>2, <1>3, <1>5, <1>6, SumDef

\* Any member can be taken out of a sum, not only the one that was picked.
LEMMA SumRemove ==
    ASSUME NEW f, NEW S, IsFiniteSet(S), \A y \in S : f[y] \in Int,
           NEW x \in S
    PROVE  SumFunctionOnSet(f, S) = f[x] + SumFunctionOnSet(f, S \ {x})
<1> DEFINE Sum(s) == SumFunctionOnSet(f, s)
           F == {s \in SUBSET S : \E y \in s : Sum(s) # f[y] + Sum(s \ {y})}
<1> HIDE DEF Sum
<1> SUFFICES ASSUME F # {} PROVE FALSE
  BY DEF Sum
<1>1. PICK m \in F : \A t \in F : t \subseteq m => t = m
  <2>1. F \in SUBSET SUBSET S
    OBVIOUS
  <2> HIDE DEF F
  <2>. QED
    BY <2>1, SmallestSet
<1>2. PICK y \in m : Sum(m) # f[y] + Sum(m \ {y})
  OBVIOUS
<1> DEFINE c == Picked(m)
           n == m \ {c}
           k == m \ {y}
<1>3. c \in m
  BY PickedIsMember
<1>4. /\ m \in SUBSET S /\ IsFiniteSet(m)
      /\ n \in SUBSET S /\ IsFiniteSet(n)
      /\ k \in SUBSET S /\ IsFiniteSet(k)
      /\ n \ {y} \in SUBSET S /\ IsFiniteSet(n \ {y})
  BY FS_Subset
<1>5. Sum(m) = f[c] + Sum(n)
  BY <1>3, <1>4, SumDef DEF Sum
<1>6. c # y
  BY <1>2, <1>5
<1> HIDE DEF c
<1>7. n # m /\ n \subseteq m /\ k # m /\ k \subseteq m
  BY <1>3
<1>8. n \notin F /\ k \notin F
  BY <1>1, <1>7
<1>9. Sum(n) = f[y] + Sum(n \ {y})
  BY <1>4, <1>6, <1>8
<1>10. Sum(k) = f[c] + Sum(k \ {c})
  BY <1>3, <1>4, <1>6, <1>8
<1>11. k \ {c} = n \ {y}
  OBVIOUS
<1>12. f[c] \in Int /\ f[y] \in Int /\ Sum(n \ {y}) \in Int
  <2>1. \A z \in n \ {y} : f[z] \in Int
    BY <1>4
  <2>. QED
    BY <1>3, <1>4, <2>1, SumInt DEF Sum
<1>13. Sum(k) = f[c] + Sum(n \ {y})
  BY <1>10, <1>11
<1> HIDE DEF n, k
<1>14. Sum(m) = f[y] + Sum(k)
  BY <1>5, <1>9, <1>12, <1>13
<1>. QED
  BY <1>2, <1>14 DEF k

\* One more member.
LEMMA SumAdd ==
    ASSUME NEW f, NEW S, IsFiniteSet(S), NEW x, x \notin S,
           \A y \in S \cup {x} : f[y] \in Int
    PROVE  SumFunctionOnSet(f, S \cup {x}) = SumFunctionOnSet(f, S) + f[x]
<1>1. IsFiniteSet(S \cup {x}) /\ x \in S \cup {x} /\ (S \cup {x}) \ {x} = S
  BY FS_AddElement
<1>2. SumFunctionOnSet(f, S \cup {x}) = f[x] + SumFunctionOnSet(f, S)
  BY <1>1, SumRemove
<1>3. SumFunctionOnSet(f, S) \in Int /\ f[x] \in Int
  BY SumInt
<1>. QED
  BY <1>2, <1>3

\* Sums are linear: adding term by term adds the sums.
LEMMA SumPlus ==
    ASSUME NEW S, IsFiniteSet(S), NEW f, NEW g, NEW h,
           \A x \in S : f[x] \in Int /\ g[x] \in Int /\ h[x] = f[x] + g[x]
    PROVE  SumFunctionOnSet(h, S) =
               SumFunctionOnSet(f, S) + SumFunctionOnSet(g, S)
<1> DEFINE Sum(e, s) == SumFunctionOnSet(e, s)
           F == {s \in SUBSET S : Sum(h, s) # Sum(f, s) + Sum(g, s)}
<1> HIDE DEF Sum
<1> SUFFICES ASSUME F # {} PROVE FALSE
  BY DEF Sum
<1>1. PICK m \in F : \A t \in F : t \subseteq m => t = m
  <2>1. F \in SUBSET SUBSET S
    OBVIOUS
  <2> HIDE DEF F
  <2>. QED
    BY <2>1, SmallestSet
<1>2. m \in SUBSET S /\ IsFiniteSet(m)
  BY FS_Subset
<1>3. m # {}
  <2>1. Sum(f, {}) = 0 /\ Sum(g, {}) = 0 /\ Sum(h, {}) = 0
    BY SumEmpty DEF Sum
  <2>2. Sum(h, m) # Sum(f, m) + Sum(g, m)
    OBVIOUS
  <2> HIDE DEF F
  <2>3. CASE m = {}
    <3>1. 0 # 0 + 0
      BY <2>1, <2>2, <2>3
    <3>. QED
      BY <3>1
  <2>. QED
    BY <2>3
<1> DEFINE c == Picked(m)
           n == m \ {c}
<1>4. c \in m
  BY <1>3, PickedIsMember
<1>5. /\ Sum(h, m) = h[c] + Sum(h, n)
      /\ Sum(f, m) = f[c] + Sum(f, n)
      /\ Sum(g, m) = g[c] + Sum(g, n)
  BY <1>2, <1>3, SumDef DEF Sum
<1> HIDE DEF c
<1>6. n \in SUBSET S /\ IsFiniteSet(n) /\ n \subseteq m /\ n # m
  BY <1>2, <1>4, FS_Subset
<1>7. Sum(h, n) = Sum(f, n) + Sum(g, n)
  BY <1>1, <1>6
<1>8. Sum(f, n) \in Int /\ Sum(g, n) \in Int
  BY <1>6, SumInt DEF Sum
<1>9. f[c] \in Int /\ g[c] \in Int /\ h[c] = f[c] + g[c]
  BY <1>2, <1>4
<1>. QED
  BY <1>5, <1>7, <1>8, <1>9

\* Functions that agree on a set have the same sum over it.
LEMMA SumSame ==
    ASSUME NEW S, IsFiniteSet(S), NEW f, NEW g,
           \A x \in S : f[x] = g[x]
    PROVE  SumFunctionOnSet(f, S) = SumFunctionOnSet(g, S)
<1> DEFINE Sum(e, s) == SumFunctionOnSet(e, s)
           F == {s \in SUBSET S : Sum(f, s) # Sum(g, s)}
<1> HIDE DEF Sum
<1> SUFFICES ASSUME F # {} PROVE FALSE
  BY DEF Sum
<1>1. PICK m \in F : \A t \in F : t \subseteq m => t = m
  <2>1. F \in SUBSET SUBSET S
    OBVIOUS
  <2> HIDE DEF F
  <2>. QED
    BY <2>1, SmallestSet
<1>2. m \in SUBSET S /\ IsFiniteSet(m)
  BY FS_Subset
<1>3. m # {}
  BY SumEmpty DEF Sum
<1> DEFINE c == Picked(m)
           n == m \ {c}
<1>4. c \in m
  BY <1>3, PickedIsMember
<1>5. /\ Sum(f, m) = f[c] + Sum(f, n)
      /\ Sum(g, m) = g[c] + Sum(g, n)
  BY <1>2, <1>3, SumDef DEF Sum
<1> HIDE DEF c
<1>6. n \in SUBSET S /\ n \subseteq m /\ n # m
  BY <1>2, <1>4
<1>7. Sum(f, n) = Sum(g, n)
  BY <1>1, <1>6
<1>. QED
  BY <1>2, <1>4, <1>5, <1>7

\* Changing one term changes the sum by as much.
LEMMA SumChange ==
    ASSUME NEW S, IsFiniteSet(S), NEW f \in [S -> Int], NEW g \in [S -> Int],
           NEW x \in S, NEW d \in Int,
           g[x] = f[x] + d, \A y \in S \ {x} : g[y] = f[y]
    PROVE  SumFunctionOnSet(g, S) = SumFunctionOnSet(f, S) + d
<1> DEFINE R == S \ {x}
           Sum(e, s) == SumFunctionOnSet(e, s)
<1>1. IsFiniteSet(R)
  BY FS_Subset
<1>2. Sum(f, S) = f[x] + Sum(f, R) /\ Sum(g, S) = g[x] + Sum(g, R)
  BY SumRemove
<1>3. Sum(f, R) = Sum(g, R)
  <2>1. \A y \in R : f[y] = g[y]
    OBVIOUS
  <2> HIDE DEF R
  <2>. QED
    BY <1>1, <2>1, SumSame
<1>4. Sum(f, R) \in Int
  BY <1>1, SumInt
<1> HIDE DEF Sum
<1>5. Sum(g, S) = Sum(f, S) + d
  BY <1>2, <1>3, <1>4
<1>. QED
  BY <1>5 DEF Sum

\* One more term at the end of a sequence of terms.
LEMMA SumNext ==
    ASSUME NEW n \in Nat, NEW f, NEW g, g[n + 1] \in Int,
           \A i \in 1 .. n : f[i] \in Int /\ g[i] = f[i]
    PROVE  /\ SumFunctionOnSet(f, 1 .. n) \in Int
           /\ SumFunctionOnSet(g, 1 .. n + 1) =
                  SumFunctionOnSet(f, 1 .. n) + g[n + 1]
<1> DEFINE S == 1 .. n
           x == n + 1
<1>1. IsFiniteSet(S)
  BY FS_Interval
<1>2. 1 .. n + 1 = S \cup {x} /\ x \notin S
  OBVIOUS
<1>3. \A i \in S \cup {x} : g[i] \in Int
  OBVIOUS
<1>4. \A i \in S : f[i] \in Int /\ f[i] = g[i]
  OBVIOUS
<1>5. g[n + 1] = g[x]
  OBVIOUS
<1> HIDE DEF S, x
<1>6. SumFunctionOnSet(g, S \cup {x}) = SumFunctionOnSet(g, S) + g[x]
  BY <1>1, <1>2, <1>3, SumAdd
<1>7. SumFunctionOnSet(f, S) \in Int
  BY <1>1, <1>4, SumInt
<1>8. SumFunctionOnSet(f, S) = SumFunctionOnSet(g, S)
  BY <1>1, <1>4, SumSame
<1>. QED
  BY <1>2, <1>5, <1>6, <1>7, <1>8 DEF S

\* Zero is the only integer that is twice itself.
LEMMA OnlyZeroDoubles == \A n \in Int : n = n + n => n = 0
OBVIOUS

\* A sum of zeros.
LEMMA SumZero ==
    ASSUME NEW S, IsFiniteSet(S), NEW f, \A x \in S : f[x] = 0
    PROVE  SumFunctionOnSet(f, S) = 0
<1>1. \A x \in S : f[x] \in Int /\ f[x] = f[x] + f[x]
  OBVIOUS
<1>2. SumFunctionOnSet(f, S) =
          SumFunctionOnSet(f, S) + SumFunctionOnSet(f, S)
  BY <1>1, SumPlus
<1>3. SumFunctionOnSet(f, S) \in Int
  BY <1>1, SumInt
<1>. QED
  BY <1>2, <1>3, OnlyZeroDoubles, Zenon

\* A sum of natural numbers is one, and none of its terms exceeds it.
LEMMA SumNat ==
    ASSUME NEW S, IsFiniteSet(S), NEW f, \A x \in S : f[x] \in Nat
    PROVE  /\ SumFunctionOnSet(f, S) \in Nat
           /\ \A x \in S : f[x] <= SumFunctionOnSet(f, S)
<1> DEFINE Sum(s) == SumFunctionOnSet(f, s)
           F == {s \in SUBSET S : Sum(s) \notin Nat}
<1>1. \A x \in S : f[x] \in Int
  OBVIOUS
<1>2. ASSUME NEW s \in SUBSET S
      PROVE  IsFiniteSet(s) /\ Sum(s) \in Int
  <2>1. IsFiniteSet(s) /\ \A x \in s : f[x] \in Int
    BY <1>1, FS_Subset
  <2>. QED
    BY <2>1, SumInt
<1>3. ASSUME NEW s \in SUBSET S, NEW x \in s
      PROVE  Sum(s) = f[x] + Sum(s \ {x})
  <2>1. IsFiniteSet(s) /\ \A y \in s : f[y] \in Int
    BY <1>1, <1>2
  <2>. QED
    BY <2>1, SumRemove
<1>4. Sum({}) = 0
  BY SumEmpty
<1> HIDE DEF Sum
<1>5. F = {}
  <2> SUFFICES ASSUME F # {} PROVE FALSE
    OBVIOUS
  <2>1. PICK m \in F : \A t \in F : t \subseteq m => t = m
    <3>1. F \in SUBSET SUBSET S
      OBVIOUS
    <3> HIDE DEF F
    <3>. QED
      BY <3>1, SmallestSet
  <2>2. PICK x \in m : TRUE
    BY <1>4
  <2>3. Sum(m) = f[x] + Sum(m \ {x})
    BY <1>3, <2>2
  <2>4. Sum(m \ {x}) \in Nat
    BY <2>1, <2>2
  <2>. QED
    BY <2>2, <2>3, <2>4
<1>6. Sum(S) \in Nat /\ \A x \in S : Sum(S \ {x}) \in Nat
  BY <1>5
<1>7. ASSUME NEW x \in S
      PROVE  f[x] <= Sum(S)
  <2>1. Sum(S) = f[x] + Sum(S \ {x})
    BY <1>3
  <2>2. f[x] \in Nat /\ Sum(S \ {x}) \in Nat
    BY <1>6
  <2>. QED
    BY <2>1, <2>2
<1>. QED
  BY <1>6, <1>7 DEF Sum
=============================================================================
