-------------------------- MODULE Services_proofs ---------------------------
(***************************************************************************)
(* What the relay, the seeding, the accounts and the contract of the       *)
(* agreements promise, proved as invariants of the platform, MCPlatform,   *)
(* for every number of accounts, requests, tabs, runs and sessions.  The   *)
(* inductive invariants are stated with the components.                    *)
(***************************************************************************)
EXTENDS MCPlatform, FiniteSetTheorems, SequenceTheorems, TLAPS

-----------------------------------------------------------------------------
\* The relay (Relay).

\* The two modules' cardinality is the same one.
LEMMA RelayCardinality == \A X : L!Cardinality(X) = Cardinality(X) /\ (L!IsFiniteSet(X) <=> IsFiniteSet(X))
BY DEF L!Cardinality, Cardinality, L!IsFiniteSet, IsFiniteSet

\* A step after which one request is another one, and no time or limit is.
LEMMA RelayRequestGoesOn ==
    ASSUME L!RelayInv, NEW r \in RelayRequest, NEW q \in L!Rows, v3' = [v3 EXCEPT ![r] = q],
           UNCHANGED <<v1, v2, v6, v7>>, v4' \in [RelayAccount -> Nat], v5' \in [RelayRequest -> Nat],
           \A s \in RelayRequest : s # r => v5'[s] = v5[s],
           v5'[r] <= 1, q.age <= Window,
           q.at \in {"query", "cached", "relaying"} => q.account \in RelayAccount,
           q.at \in {"new", "query", "cached"} => v5'[r] = 0,
           q.at = "cached" => q.createdAt <= v1 /\ v1 <= q.createdAt + Window
    PROVE  L!RelayInv'
<1>1. /\ v3 \in [RelayRequest -> L!Rows] /\ v3' \in [RelayRequest -> L!Rows] /\ v3'[r] = q
      /\ \A s \in RelayRequest : s # r => v3'[s] = v3[s]
  BY DEF L!RelayInv, L!TypeOK
<1>2. L!TypeOK'
  BY <1>1 DEF L!RelayInv, L!TypeOK
<1>3. L!PrunedIsWhole'
  <2>1. ASSUME NEW a \in RelayAccount
        PROVE  /\ L!Recent(v2[a])' = L!Recent(v2[a])
               /\ L!Recent(L!Since(a, v7))' = L!Recent(L!Since(a, v7))
               /\ \A life \in Nat : L!Recent(L!Since(a, life))' = L!Recent(L!Since(a, life))
    BY DEF L!Recent, L!Since
  <2>2. ASSUME NEW a \in RelayAccount
        PROVE  /\ L!Recent(v2[a]) = L!Recent(L!Since(a, v7))
               /\ \A life \in Nat : /\ IsFiniteSet(L!Recent(L!Since(a, life)))
                                    /\ Cardinality(L!Recent(L!Since(a, life))) <= RateMax
    BY RelayCardinality DEF L!RelayInv, L!PrunedIsWhole
  <2>. QED
    BY <2>1, <2>2, RelayCardinality DEF L!PrunedIsWhole
<1>4. L!CachedIsFresh'
  BY <1>1 DEF L!RelayInv, L!CachedIsFresh, L!At
<1>. QED
  BY <1>2, <1>3, <1>4 DEF L!RelayInv

\* The chain, the cache and the client (Build, Submit, Land, Fail).
LEMMA RelayingKeeps ==
    ASSUME L!RelayInv, NEW r \in RelayRequest, L!Build(r) \/ L!Submit(r) \/ L!Land(r) \/ L!Fail(r)
    PROVE  L!RelayInv'
<1>1. /\ v3 \in [RelayRequest -> L!Rows] /\ v3[r] \in L!Rows /\ v1 \in Nat
      /\ v4 \in [RelayAccount -> Nat] /\ v5 \in [RelayRequest -> Nat] /\ Window \in Nat
      /\ v5[r] <= 1 /\ v3[r].age <= Window
  BY RelayBounds DEF L!RelayInv, L!TypeOK, L!CachedIsFresh
<1>2. CASE L!Build(r)
  <2>1. PICK n \in Nat : n = v4[v3[r].account] + 1
    BY <1>1, <1>2 DEF L!Build, L!At, L!RelayInv, L!TypeOK
  <2>2. PICK q : q = [v3[r] EXCEPT !.at = "cached", !.createdAt = v1, !.nonce = n]
    OBVIOUS
  <2>3. q \in L!Rows /\ q.at = "cached" /\ q.createdAt = v1 /\ q.age = v3[r].age
        /\ q.account = v3[r].account
    BY <1>1, <2>1, <2>2 DEF L!Rows
  <2>4. v3' = [v3 EXCEPT ![r] = q] /\ UNCHANGED <<v1, v2, v4, v5, v6, v7>>
    BY <1>1, <1>2, <2>1, <2>2 DEF L!Build
  <2>5. v5[r] = 0
    BY <1>2 DEF L!Build, L!At, L!RelayInv, L!CachedIsFresh
  <2>6. q.account \in RelayAccount /\ q.createdAt <= v1 /\ v1 <= q.createdAt + Window
    BY <1>1, <1>2, <2>3 DEF L!Build, L!At, L!RelayInv, L!TypeOK
  <2>. QED
    BY <1>1, <2>3, <2>4, <2>5, <2>6, RelayRequestGoesOn
<1>3. CASE L!Submit(r)
  <2>1. v3[r].at = "cached"
    BY <1>3 DEF L!Submit, L!TakenOnce
  <2>2. /\ v3[r].createdAt <= v1 /\ v1 <= v3[r].createdAt + Window /\ v5[r] = 0
        /\ v3[r].createdAt \in Nat
    BY <1>1, <2>1 DEF L!At, L!RelayInv, L!CachedIsFresh, L!Rows
  <2>3. PICK n \in Nat : n = v1 - v3[r].createdAt /\ n <= Window
    BY <1>1, <2>2
  <2>4. PICK q : q = [v3[r] EXCEPT !.at = "relaying", !.age = n]
    OBVIOUS
  <2>5. q \in L!Rows /\ q.at = "relaying" /\ q.age = n /\ q.account = v3[r].account
    BY <1>1, <2>3, <2>4 DEF L!Rows
  <2>6. v3' = [v3 EXCEPT ![r] = q] /\ UNCHANGED <<v1, v2, v4, v6, v7>> /\ v5' = [v5 EXCEPT ![r] = @ + 1]
    BY <1>1, <1>3, <2>3, <2>4 DEF L!Submit
  <2>7. q.account \in RelayAccount /\ v5' \in [RelayRequest -> Nat] /\ v5'[r] = 1 /\ \A s \in RelayRequest : s # r => v5'[s] = v5[s]
    BY <1>1, <2>1, <2>2, <2>5, <2>6 DEF L!RelayInv, L!TypeOK
  <2>. QED
    <3>1. /\ UNCHANGED <<v1, v2, v6, v7>> /\ v4' \in [RelayAccount -> Nat] /\ v5'[r] <= 1
          /\ q.age <= Window /\ q.at \notin {"new", "query", "cached"}
      BY <1>1, <2>3, <2>5, <2>6, <2>7
    <3>. QED
      BY <2>5, <2>6, <2>7, <3>1, RelayRequestGoesOn
<1>4. CASE L!Land(r) \/ L!Fail(r)
  <2>1. PICK s \in {"done", "failed"} : v3' = [v3 EXCEPT ![r].at = s]
    BY <1>4 DEF L!Land, L!Fail, L!Goto
  <2>2. PICK q : q = [v3[r] EXCEPT !.at = s]
    OBVIOUS
  <2>3. q \in L!Rows /\ q.at = s /\ q.age = v3[r].age
    BY <1>1, <2>1, <2>2 DEF L!Rows
  <2>4. v3' = [v3 EXCEPT ![r] = q] /\ UNCHANGED <<v1, v2, v5, v6, v7>>
    BY <1>1, <1>4, <2>1, <2>2 DEF L!Land, L!Fail
  <2>5. v4' \in [RelayAccount -> Nat]
    <3>1. v3[r].nonce \in Nat
      BY <1>1 DEF L!Rows
    <3>. QED
      BY <1>1, <1>4, <3>1 DEF L!Land, L!Fail
  <2>. QED
    BY <1>1, <2>1, <2>3, <2>4, <2>5, RelayRequestGoesOn
<1>. QED
  BY <1>2, <1>3, <1>4

\* A delegate is prepared: the list is pruned, the time counted.
LEMMA PrepareKeeps ==
    ASSUME L!RelayInv, NEW r \in RelayRequest, NEW a \in RelayAccount, L!Prepare(r, a)
    PROVE  L!RelayInv'
<1>1. /\ v3 \in [RelayRequest -> L!Rows] /\ v3[r] \in L!Rows /\ v1 \in Nat
      /\ v4 \in [RelayAccount -> Nat] /\ v5 \in [RelayRequest -> Nat] /\ Window \in Nat /\ RateMax \in Nat
      /\ v5[r] = 0 /\ v3[r].age <= Window
  BY RelayBounds DEF L!RelayInv, L!TypeOK, L!CachedIsFresh, L!Prepare, L!At
<1>2. PICK s \in {"query", "failed"} : v3' = [v3 EXCEPT ![r].account = a, ![r].at = s]
  BY DEF L!Prepare
<1>3. PICK q : q = [v3[r] EXCEPT !.account = a, !.at = s]
  OBVIOUS
<1>4. q \in L!Rows /\ q.at = s /\ q.age = v3[r].age /\ q.account = a
  BY <1>1, <1>2, <1>3 DEF L!Rows
<1>5. v3' = [v3 EXCEPT ![r] = q] /\ UNCHANGED <<v1, v4, v5, v7>>
  BY <1>1, <1>2, <1>3 DEF L!Prepare
<1>6. v3' \in [RelayRequest -> L!Rows] /\ v3'[r] = q /\ \A x \in RelayRequest : x # r => v3'[x] = v3[x]
  BY <1>1, <1>4, <1>5
<1>7. L!CachedIsFresh'
  BY <1>1, <1>2, <1>4, <1>5, <1>6 DEF L!RelayInv, L!CachedIsFresh, L!At
<1>8. PICK t : t = L!Time(r)
  OBVIOUS
<1>9. t \in [at : Nat, request : RelayRequest, life : Nat] /\ t.at = v1 /\ t.life = v7 /\ v7 \in Nat
  BY <1>1, <1>8 DEF L!Time, L!RelayInv, L!TypeOK
<1>10. /\ v2' = [v2 EXCEPT ![a] = L!Recent(v2[a]) \cup {t}]
       /\ v6' = [v6 EXCEPT ![a] = v6[a] \cup {t}]
       /\ L!Cardinality(L!Recent(v2[a])) < RateMax
  BY <1>8 DEF L!Prepare
<1>11. DOMAIN v2 = RelayAccount /\ DOMAIN v6 = RelayAccount
       /\ \A b \in RelayAccount : /\ v2[b] \cup v6[b] \subseteq [at : Nat, request : RelayRequest, life : Nat]
                                  /\ \A u \in v6[b] : u.life <= v7
  BY DEF L!RelayInv, L!TypeOK
<1>12. L!TypeOK'
  <2>1. L!Recent(v2[a]) \subseteq v2[a]
    BY DEF L!Recent
  <2>2. \A b \in RelayAccount : /\ v2'[b] \cup v6'[b] \subseteq [at : Nat, request : RelayRequest, life : Nat]
                                /\ \A u \in v6'[b] : u.life <= v7'
    BY <1>5, <1>9, <1>10, <1>11, <2>1
  <2>. QED
    BY <1>1, <1>2, <1>4, <1>5, <1>6, <1>10, <1>11, <2>2 DEF L!RelayInv, L!TypeOK
<1>13. ASSUME NEW b \in RelayAccount
       PROVE  /\ L!Recent(v2[b])' = L!Recent(L!Since(b, v7))'
              /\ \A l \in Nat : /\ IsFiniteSet(L!Recent(L!Since(b, l))')
                                /\ Cardinality(L!Recent(L!Since(b, l))') <= RateMax
  <2>1. /\ L!Recent(v2[b]) = L!Recent(L!Since(b, v7))
        /\ \A l \in Nat : /\ IsFiniteSet(L!Recent(L!Since(b, l)))
                          /\ Cardinality(L!Recent(L!Since(b, l))) <= RateMax
    BY RelayCardinality DEF L!RelayInv, L!PrunedIsWhole
  <2>2. CASE b # a
    <3>1. v2'[b] = v2[b] /\ v6'[b] = v6[b]
      BY <1>10, <1>11, <2>2
    <3>2. /\ L!Recent(v2[b])' = L!Recent(v2[b])
          /\ L!Recent(L!Since(b, v7))' = L!Recent(L!Since(b, v7))
          /\ \A l \in Nat : L!Recent(L!Since(b, l))' = L!Recent(L!Since(b, l))
      BY <1>5, <3>1 DEF L!Recent, L!Since
    <3>. QED
      BY <2>1, <3>2
  <2>3. CASE b = a
    <3>1. v2'[b] = L!Recent(v2[a]) \cup {t} /\ v6'[b] = v6[a] \cup {t}
      BY <1>10, <1>11, <2>3
    <3>2. L!Recent(L!Since(b, v7))' \subseteq L!Recent(L!Since(a, v7)) \cup {t}
      BY <1>5, <2>3, <3>1 DEF L!Recent, L!Since
    <3>3. L!Recent(v2[b])' = L!Recent(L!Since(b, v7))'
      <4>1. \A x \in L!Recent(v2[a]) : x \in v6[a] /\ x.life = v7 /\ x.at + Window > v1
        BY <2>1, <2>3 DEF L!Recent, L!Since
      <4>2. \A x \in v6[a] : x.life = v7 /\ x.at + Window > v1 => x \in L!Recent(v2[a])
        BY <2>1, <2>3 DEF L!Recent, L!Since
      <4>. QED
        BY <1>5, <1>9, <3>1, <4>1, <4>2 DEF L!Recent, L!Since
    <3>4. Cardinality(L!Recent(L!Since(a, v7))) < RateMax
      BY <1>10, <2>1, <2>3, RelayCardinality
    <3>5. IsFiniteSet(L!Recent(L!Since(a, v7))) /\ Cardinality(L!Recent(L!Since(a, v7))) \in Nat
      BY <1>9, <2>1, <2>3, FS_CardinalityType
    <3>6. /\ IsFiniteSet(L!Recent(L!Since(a, v7)) \cup {t})
          /\ Cardinality(L!Recent(L!Since(a, v7)) \cup {t}) \in Nat
          /\ Cardinality(L!Recent(L!Since(a, v7)) \cup {t}) <= Cardinality(L!Recent(L!Since(a, v7))) + 1
      <4>1. /\ IsFiniteSet(L!Recent(L!Since(a, v7)) \cup {t})
            /\ \/ Cardinality(L!Recent(L!Since(a, v7)) \cup {t}) = Cardinality(L!Recent(L!Since(a, v7)))
               \/ Cardinality(L!Recent(L!Since(a, v7)) \cup {t}) = Cardinality(L!Recent(L!Since(a, v7))) + 1
        BY <3>5, FS_AddElement
      <4>. QED
        BY <3>5, <4>1
    <3>7. /\ IsFiniteSet(L!Recent(L!Since(b, v7))')
          /\ Cardinality(L!Recent(L!Since(b, v7))') <= Cardinality(L!Recent(L!Since(a, v7)) \cup {t})
          /\ Cardinality(L!Recent(L!Since(b, v7))') \in Nat
      BY <3>2, <3>6, FS_Subset, FS_CardinalityType
    <3>8. ASSUME NEW l \in Nat
          PROVE  IsFiniteSet(L!Recent(L!Since(b, l))') /\ Cardinality(L!Recent(L!Since(b, l))') <= RateMax
      <4>1. CASE l = v7
        <5>1. L!Recent(L!Since(b, l))' = L!Recent(L!Since(b, v7))'
          BY <1>5, <4>1 DEF L!Recent, L!Since
        <5>. QED
          BY <1>1, <3>4, <3>5, <3>6, <3>7, <5>1
      <4>2. CASE l # v7
        <5>1. L!Recent(L!Since(b, l))' = L!Recent(L!Since(b, l))
          BY <1>5, <1>9, <2>3, <3>1, <4>2 DEF L!Recent, L!Since
        <5>. QED
          BY <2>1, <5>1
      <4>. QED
        BY <4>1, <4>2
    <3>. QED
      BY <3>3, <3>8
  <2>. QED
    BY <2>2, <2>3
<1>14. L!PrunedIsWhole'
  BY <1>13, RelayCardinality DEF L!PrunedIsWhole
<1>. QED
  BY <1>7, <1>12, <1>14 DEF L!RelayInv

\* A minute passes: times leave the window, and what is too old the cache.
LEMMA TickKeeps ==
    ASSUME L!RelayInv, L!Tick
    PROVE  L!RelayInv'
<1>1. /\ v3 \in [RelayRequest -> L!Rows] /\ v1 \in Nat /\ v1' = v1 + 1 /\ UNCHANGED <<v2, v4, v5, v6, v7>>
      /\ Window \in Nat /\ RateMax \in Nat
  BY RelayBounds DEF L!RelayInv, L!TypeOK, L!Tick
<1>2. ASSUME NEW r \in RelayRequest
      PROVE  /\ v3'[r] \in L!Rows /\ v3'[r].age = v3[r].age
             /\ v3'[r] = v3[r] \/ v3'[r].at = "failed"
             /\ v3'[r].at = "cached" => v3'[r] = v3[r] /\ v1' <= v3[r].createdAt + Window
  <2>1. v3[r] \in L!Rows /\ v3[r].createdAt \in Nat
    BY <1>1 DEF L!Rows
  <2>2. CASE L!Expired(r)
    <3>1. v3'[r] = [v3[r] EXCEPT !.at = "failed"]
      BY <2>2 DEF L!Tick
    <3>2. PICK q : q = [v3[r] EXCEPT !.at = "failed"]
      OBVIOUS
    <3>3. q \in L!Rows /\ q.age = v3[r].age /\ q.at = "failed"
      BY <2>1, <3>2 DEF L!Rows
    <3>. QED
      BY <3>1, <3>2, <3>3
  <2>3. CASE ~L!Expired(r)
    <3>1. v3'[r] = v3[r]
      BY <2>3 DEF L!Tick
    <3>2. v3[r].at = "cached" => v1' <= v3[r].createdAt + Window
      BY <1>1, <2>1, <2>3 DEF L!Expired, L!At
    <3>. QED
      BY <2>1, <3>1, <3>2
  <2>. QED
    BY <2>2, <2>3
<1>3. v3' \in [RelayRequest -> L!Rows]
  BY <1>2 DEF L!Tick
<1>4. L!TypeOK'
  <2>1. ASSUME NEW r \in RelayRequest, v3'[r].at \in {"query", "cached", "relaying"}
        PROVE  v3'[r].account \in RelayAccount
    BY <1>2, <2>1 DEF L!RelayInv, L!TypeOK
  <2>. QED
    BY <1>1, <1>3, <2>1 DEF L!RelayInv, L!TypeOK
<1>5. L!CachedIsFresh'
  <2>1. ASSUME NEW r \in RelayRequest
        PROVE  /\ v5[r] <= 1 /\ v3[r].age <= Window
               /\ v3[r].at \in {"new", "query", "cached"} => v5[r] = 0
               /\ v3[r].at = "cached" => v3[r].createdAt <= v1
               /\ v3[r].createdAt \in Nat
    BY <1>1 DEF L!RelayInv, L!CachedIsFresh, L!At, L!Rows
  <2>2. ASSUME NEW r \in RelayRequest
        PROVE  /\ v5'[r] <= 1 /\ v3'[r].age <= Window
               /\ v3'[r].at \in {"new", "query", "cached"} => v5'[r] = 0
               /\ v3'[r].at = "cached" => /\ v3'[r].createdAt <= v1'
                                         /\ v1' <= v3'[r].createdAt + Window
    BY <1>1, <1>2, <2>1
  <2>. QED
    BY <2>2 DEF L!CachedIsFresh, L!At
<1>6. ASSUME NEW a \in RelayAccount
      PROVE  /\ L!Recent(v2[a])' = L!Recent(L!Since(a, v7))'
             /\ \A l \in Nat : /\ IsFiniteSet(L!Recent(L!Since(a, l))')
                               /\ Cardinality(L!Recent(L!Since(a, l))') <= RateMax
  <2>1. /\ L!Recent(v2[a]) = L!Recent(L!Since(a, v7))
        /\ \A l \in Nat : /\ IsFiniteSet(L!Recent(L!Since(a, l)))
                          /\ Cardinality(L!Recent(L!Since(a, l))) <= RateMax
    BY RelayCardinality DEF L!RelayInv, L!PrunedIsWhole
  <2>2. v2[a] \cup v6[a] \subseteq [at : Nat, request : RelayRequest, life : Nat]
    BY DEF L!RelayInv, L!TypeOK
  <2>3. \A t \in v2[a] \cup v6[a] : t.at + Window > v1' => t.at + Window > v1
    BY <1>1, <2>2
  <2>4. L!Recent(v2[a])' = L!Recent(L!Since(a, v7))'
    <3>1. \A t \in v2[a] \cup v6[a] :
              t.at + Window > v1 => (t \in v2[a] <=> t \in v6[a] /\ t.life = v7)
      BY <2>1 DEF L!Recent, L!Since
    <3>. QED
      BY <1>1, <2>3, <3>1 DEF L!Recent, L!Since
  <2>5. ASSUME NEW l \in Nat
        PROVE  IsFiniteSet(L!Recent(L!Since(a, l))') /\ Cardinality(L!Recent(L!Since(a, l))') <= RateMax
    <3>1. L!Recent(L!Since(a, l))' \subseteq L!Recent(L!Since(a, l))
      BY <1>1, <2>3 DEF L!Recent, L!Since
    <3>2. /\ IsFiniteSet(L!Recent(L!Since(a, l))')
          /\ Cardinality(L!Recent(L!Since(a, l))') <= Cardinality(L!Recent(L!Since(a, l)))
          /\ Cardinality(L!Recent(L!Since(a, l))') \in Nat /\ Cardinality(L!Recent(L!Since(a, l))) \in Nat
      BY <2>1, <3>1, FS_Subset, FS_CardinalityType
    <3>. QED
      BY <1>1, <2>1, <3>2
  <2>. QED
    BY <2>4, <2>5
<1>7. L!PrunedIsWhole'
  BY <1>6, RelayCardinality DEF L!PrunedIsWhole
<1>. QED
  BY <1>4, <1>5, <1>7 DEF L!RelayInv

\* The server restarts: the list is empty, and no time is of the new life.
LEMMA RestartKeeps ==
    ASSUME L!RelayInv, L!Restart
    PROVE  L!RelayInv'
<1>1. /\ v3 \in [RelayRequest -> L!Rows] /\ v1 \in Nat /\ v7 \in Nat /\ v7' = v7 + 1
      /\ UNCHANGED <<v1, v4, v5, v6>> /\ v2' = [a \in RelayAccount |-> {}]
      /\ Window \in Nat /\ RateMax \in Nat
  BY RelayBounds DEF L!RelayInv, L!TypeOK, L!Restart
<1>2. ASSUME NEW r \in RelayRequest
      PROVE  /\ v3'[r] \in L!Rows /\ v3'[r].age = v3[r].age
             /\ v3'[r] = v3[r] \/ v3'[r].at = "failed"
  <2>1. v3[r] \in L!Rows
    BY <1>1
  <2>2. CASE L!Forgotten(r)
    <3>1. v3'[r] = [v3[r] EXCEPT !.at = "failed"]
      BY <2>2 DEF L!Restart
    <3>2. PICK q : q = [v3[r] EXCEPT !.at = "failed"]
      OBVIOUS
    <3>3. q \in L!Rows /\ q.age = v3[r].age /\ q.at = "failed"
      BY <2>1, <3>2 DEF L!Rows
    <3>. QED
      BY <3>1, <3>2, <3>3
  <2>3. CASE ~L!Forgotten(r)
    BY <2>1, <2>3 DEF L!Restart
  <2>. QED
    BY <2>2, <2>3
<1>3. v3' \in [RelayRequest -> L!Rows]
  BY <1>2 DEF L!Restart
<1>4. \A a \in RelayAccount : /\ v6[a] \subseteq [at : Nat, request : RelayRequest, life : Nat]
                              /\ \A t \in v6[a] : t.life <= v7
  BY DEF L!RelayInv, L!TypeOK
<1>5. L!TypeOK'
  <2>1. ASSUME NEW r \in RelayRequest, v3'[r].at \in {"query", "cached", "relaying"}
        PROVE  v3'[r].account \in RelayAccount
    BY <1>2, <2>1 DEF L!RelayInv, L!TypeOK
  <2>2. \A a \in RelayAccount : /\ v2'[a] \cup v6'[a] \subseteq [at : Nat, request : RelayRequest, life : Nat]
                                /\ \A t \in v6'[a] : t.life <= v7'
    BY <1>1, <1>4
  <2>3. DOMAIN v6' = RelayAccount /\ DOMAIN v2' = RelayAccount
    BY <1>1 DEF L!RelayInv, L!TypeOK
  <2>. QED
    BY <1>1, <1>3, <2>1, <2>2, <2>3 DEF L!RelayInv, L!TypeOK
<1>6. L!CachedIsFresh'
  <2>1. ASSUME NEW r \in RelayRequest
        PROVE  /\ v5[r] <= 1 /\ v3[r].age <= Window
               /\ v3[r].at \in {"new", "query", "cached"} => v5[r] = 0
               /\ v3[r].at = "cached" => v3[r].createdAt <= v1 /\ v1 <= v3[r].createdAt + Window
    BY <1>1 DEF L!RelayInv, L!CachedIsFresh, L!At
  <2>. QED
    BY <1>1, <1>2, <2>1 DEF L!CachedIsFresh, L!At
<1>7. ASSUME NEW a \in RelayAccount
      PROVE  /\ L!Recent(v2[a])' = L!Recent(L!Since(a, v7))'
             /\ \A l \in Nat : /\ IsFiniteSet(L!Recent(L!Since(a, l))')
                               /\ Cardinality(L!Recent(L!Since(a, l))') <= RateMax
  <2>1. \A l \in Nat : /\ IsFiniteSet(L!Recent(L!Since(a, l)))
                       /\ Cardinality(L!Recent(L!Since(a, l))) <= RateMax
    BY RelayCardinality DEF L!RelayInv, L!PrunedIsWhole
  <2>2. \A l \in Nat : L!Recent(L!Since(a, l))' = L!Recent(L!Since(a, l))
    BY <1>1 DEF L!Recent, L!Since
  <2>3. L!Recent(v2[a])' = {}
    BY <1>1 DEF L!Recent
  <2>4. L!Recent(L!Since(a, v7))' = {}
    <3>1. \A t \in v6[a] : t.life # v7'
      BY <1>1, <1>4
    <3>. QED
      BY <1>1, <3>1 DEF L!Recent, L!Since
  <2>. QED
    BY <2>1, <2>2, <2>3, <2>4
<1>8. L!PrunedIsWhole'
  BY <1>7, RelayCardinality DEF L!PrunedIsWhole
<1>. QED
  BY <1>5, <1>6, <1>8 DEF L!RelayInv

\* Every step keeps the invariant.
LEMMA RelayStep ==
    ASSUME L!RelayInv, L!Next \/ UNCHANGED vars
    PROVE  L!RelayInv'
<1>1. CASE UNCHANGED vars
  BY <1>1 DEF vars, L!RelayInv, L!TypeOK, L!PrunedIsWhole, L!CachedIsFresh, L!Recent, L!Since, L!At
<1>2. CASE L!Next
  BY <1>2, RelayingKeeps, PrepareKeeps, TickKeeps, RestartKeeps DEF L!Next
<1>. QED
  BY <1>1, <1>2

\* The inductive invariant, of the behaviours of this component.
RelayHolds == part = "relay" => L!RelayInv

\* What the relayer pays for is bounded (enforceRateLimit, submitDelegate,
\* purgeExpired): by RATE_MAX in a window between two starts of the server, once
\* in all of them, and for as long as it is fresh.
THEOREM RelayIsBounded == Spec => []RelayBounded
<1>1. Initially => RelayHolds
  <2>. SUFFICES ASSUME L!Init PROVE L!RelayInv
    BY DEF Initially, Init, RelayHolds
  <2>1. L!New \in L!Rows /\ L!New.at = "new" /\ L!New.age = 0
    BY DEF L!New, L!Rows
  <2>2. L!TypeOK
    BY <2>1 DEF L!Init, L!TypeOK
  <2>3. L!CachedIsFresh
    BY <2>1, RelayBounds DEF L!Init, L!CachedIsFresh, L!At
  <2>4. \A a \in RelayAccount : /\ L!Recent(v2[a]) = {} /\ L!Recent(L!Since(a, v7)) = {}
                                /\ \A l \in Nat : L!Recent(L!Since(a, l)) = {}
    BY DEF L!Init, L!Recent, L!Since
  <2>5. IsFiniteSet({}) /\ Cardinality({}) = 0
    BY FS_EmptySet
  <2>6. L!PrunedIsWhole
    <3>1. ASSUME NEW a \in RelayAccount
          PROVE  /\ L!Recent(v2[a]) = L!Recent(L!Since(a, v7))
                 /\ \A life \in Nat : /\ IsFiniteSet(L!Recent(L!Since(a, life)))
                                      /\ Cardinality(L!Recent(L!Since(a, life))) <= RateMax
      BY <2>4, <2>5, RelayBounds
    <3>. QED
      BY <3>1, RelayCardinality DEF L!PrunedIsWhole
  <2>. QED
    BY <2>2, <2>3, <2>6 DEF L!RelayInv
<1>2. RelayHolds /\ [Next]_vars => RelayHolds'
  <2>. SUFFICES ASSUME RelayHolds, [Next]_vars, part' = "relay" PROVE L!RelayInv'
    BY DEF RelayHolds
  <2>1. part = "relay" /\ (L!Next \/ UNCHANGED vars)
    BY DEF Next, vars
  <2>. QED
    BY <2>1, RelayStep DEF RelayHolds
<1>3. RelayHolds => RelayBounded
  <2>. SUFFICES ASSUME L!RelayInv PROVE L!RelayBounded
    BY DEF RelayHolds, RelayBounded
  <2>1. \A life \in 0 .. v7 : life \in Nat
    OBVIOUS
  <2>2. \A a \in RelayAccount, life \in Nat :
            L!Recent(L!Since(a, life)) = {t \in L!Since(a, life) : t.at + Window > v1}
    BY DEF L!Recent
  <2>3. \A a \in RelayAccount, life \in Nat :
            L!Cardinality(L!Recent(L!Since(a, life))) <= RateMax
    BY DEF L!RelayInv, L!PrunedIsWhole
  <2>4. \A a \in RelayAccount, life \in 0 .. v7 :
            L!Cardinality({t \in L!Since(a, life) : t.at + Window > v1}) <= RateMax
    BY <2>1, <2>2, <2>3
  <2>. QED
    BY <2>4 DEF L!RelayInv, L!CachedIsFresh, L!RelayBounded
<1>. QED
  BY <1>1, <1>2, <1>3, PTL DEF Spec

-----------------------------------------------------------------------------
\* The script that fills a database (Seed).

\* The script's rows.
SeedKinds == <<"seeker", "employer", "connection", "resume", "job", "match", "session",
               "real seeker", "real employer", "real resume", "real job">>
SeedRefs == << {}, {}, {"seeker"}, {"seeker"}, {"employer"}, {"seeker", "job"},
               {"seeker", "job", "employer"}, {}, {}, {"real seeker"}, {"real employer"} >>

\* The plan is made of the two parts, row by row.
LEMMA SeedPlan ==
    /\ Len(E!Plan) = 11 /\ Len(E!Demo) = 7 /\ E!End = 12
    /\ \A i \in 1 .. 11 : E!Plan[i] = [kind |-> SeedKinds[i], refs |-> SeedRefs[i]]
<1>1. /\ Len(E!Demo) = 7
      /\ \A i \in 1 .. 7 : E!Demo[i] = [kind |-> SeedKinds[i], refs |-> SeedRefs[i]]
  BY DEF E!Demo, E!Row, SeedKinds, SeedRefs
<1>2. /\ Len(E!Real) = 4
      /\ \A i \in 1 .. 4 : E!Real[i] = [kind |-> SeedKinds[7 + i], refs |-> SeedRefs[7 + i]]
  BY DEF E!Real, E!Row, SeedKinds, SeedRefs
<1> DEFINE rows == {E!Demo[i] : i \in 1 .. 7} \cup {E!Real[i] : i \in 1 .. 4}
<1>3. E!Demo \in Seq(rows) /\ E!Real \in Seq(rows)
  <2>1. E!Demo = [i \in 1 .. Len(E!Demo) |-> E!Demo[i]] /\ E!Real = [i \in 1 .. Len(E!Real) |-> E!Real[i]]
    BY DEF E!Demo, E!Real
  <2>0. (\A i \in 1 .. 7 : E!Demo[i] \in rows) /\ (\A i \in 1 .. 4 : E!Real[i] \in rows)
    OBVIOUS
  <2> HIDE DEF rows
  <2>2. E!Demo \in [1 .. 7 -> rows]
    <3>1. E!Demo = [i \in 1 .. 7 |-> E!Demo[i]]
      BY <1>1, <2>1
    <3>. QED
      BY <2>0, <3>1
  <2>3. E!Real \in [1 .. 4 -> rows]
    <3>1. E!Real = [i \in 1 .. 4 |-> E!Real[i]]
      BY <1>2, <2>1
    <3>. QED
      BY <2>0, <3>1
  <2>4. \A n \in Nat : [1 .. n -> rows] \subseteq Seq(rows)
    BY SeqDef
  <2>. QED
    BY <2>2, <2>3, <2>4
<1> HIDE DEF rows
<1>4. /\ Len(E!Plan) = 11
      /\ \A i \in 1 .. 11 : E!Plan[i] = IF i <= 7 THEN E!Demo[i] ELSE E!Real[i - 7]
  <2>1. /\ Len(E!Demo \o E!Real) = Len(E!Demo) + Len(E!Real)
        /\ \A i \in 1 .. Len(E!Demo) + Len(E!Real) :
               (E!Demo \o E!Real)[i] = IF i <= Len(E!Demo) THEN E!Demo[i] ELSE E!Real[i - Len(E!Demo)]
    BY <1>3, ConcatProperties
  <2>2. E!Plan = E!Demo \o E!Real
    BY DEF E!Plan
  <2>. QED
    BY <1>1, <1>2, <2>1, <2>2
<1>. QED
  BY <1>1, <1>2, <1>4 DEF E!End

\* Each kind has one place, and what a row refers to comes before it.
LEMMA SeedOrder ==
    /\ E!Kind = {E!Plan[i].kind : i \in 1 .. 11}
    /\ \A i, j \in 1 .. 11 : E!Plan[i].kind = E!Plan[j].kind => i = j
    /\ \A i \in 1 .. 11 : \A p \in E!Plan[i].refs :
           p # "connection" /\ \E j \in 1 .. 11 : j < i /\ E!Plan[j].kind = p
<1>1. E!Kind = {E!Plan[i].kind : i \in 1 .. 11}
  BY SeedPlan DEF E!Kind
<1>0. /\ SeedKinds[1] = "seeker" /\ SeedKinds[2] = "employer" /\ SeedKinds[3] = "connection"
      /\ SeedKinds[4] = "resume" /\ SeedKinds[5] = "job" /\ SeedKinds[6] = "match"
      /\ SeedKinds[7] = "session" /\ SeedKinds[8] = "real seeker"
      /\ SeedKinds[9] = "real employer" /\ SeedKinds[10] = "real resume"
      /\ SeedKinds[11] = "real job"
  BY DEF SeedKinds
<1>9. /\ SeedRefs[1] = {} /\ SeedRefs[2] = {} /\ SeedRefs[3] = {"seeker"} /\ SeedRefs[4] = {"seeker"}
      /\ SeedRefs[5] = {"employer"} /\ SeedRefs[6] = {"seeker", "job"}
      /\ SeedRefs[7] = {"seeker", "job", "employer"} /\ SeedRefs[8] = {} /\ SeedRefs[9] = {}
      /\ SeedRefs[10] = {"real seeker"} /\ SeedRefs[11] = {"real employer"}
  BY DEF SeedRefs
<1>8. \A i \in 1 .. 11 : \/ i = 1 \/ i = 2 \/ i = 3 \/ i = 4 \/ i = 5 \/ i = 6
                        \/ i = 7 \/ i = 8 \/ i = 9 \/ i = 10 \/ i = 11
  OBVIOUS
<1>2. ASSUME NEW i \in 1 .. 11, NEW j \in 1 .. 11, SeedKinds[i] = SeedKinds[j] PROVE i = j
  <2>1. CASE i = 1 \/ i = 2 \/ i = 3 \/ i = 4
    BY <1>0, <1>2, <1>8, <2>1
  <2>2. CASE i = 5 \/ i = 6 \/ i = 7 \/ i = 8
    BY <1>0, <1>2, <1>8, <2>2
  <2>3. CASE i = 9 \/ i = 10 \/ i = 11
    BY <1>0, <1>2, <1>8, <2>3
  <2>. QED
    BY <1>8, <2>1, <2>2, <2>3
<1>3. ASSUME NEW i \in 1 .. 11, NEW p \in SeedRefs[i]
      PROVE  p # "connection" /\ \E j \in 1 .. 11 : j < i /\ SeedKinds[j] = p
  <2>1. \/ i \in {3, 4} /\ p = "seeker"
        \/ i = 5 /\ p = "employer"
        \/ i = 6 /\ p \in {"seeker", "job"}
        \/ i = 7 /\ p \in {"seeker", "job", "employer"}
        \/ i = 10 /\ p = "real seeker"
        \/ i = 11 /\ p = "real employer"
    BY <1>3, <1>8, <1>9
  <2>2. \/ p = SeedKinds[1] /\ 1 < i
        \/ p = SeedKinds[2] /\ 2 < i
        \/ p = SeedKinds[5] /\ 5 < i
        \/ p = SeedKinds[8] /\ 8 < i
        \/ p = SeedKinds[9] /\ 9 < i
    <3>1. \/ p = "seeker" /\ 1 < i
          \/ p = "employer" /\ 2 < i
          \/ p = "job" /\ 5 < i
          \/ p = "real seeker" /\ 8 < i
          \/ p = "real employer" /\ 9 < i
      <4>1. CASE i \in {3, 4} /\ p = "seeker"
        BY <4>1
      <4>2. CASE i = 5 /\ p = "employer"
        BY <4>2
      <4>3. CASE i = 6 /\ p \in {"seeker", "job"}
        BY <4>3
      <4>4. CASE i = 7 /\ p \in {"seeker", "job", "employer"}
        BY <4>4
      <4>5. CASE i = 10 /\ p = "real seeker"
        <5>0. i = 10
          BY <4>5, Zenon
        <5>1. 8 < i
          BY <5>0
        <5>. QED
          BY <4>5, <5>1, Zenon
      <4>6. CASE i = 11 /\ p = "real employer"
        <5>0. i = 11
          BY <4>6, Zenon
        <5>1. 9 < i
          BY <5>0
        <5>. QED
          BY <4>6, <5>1, Zenon
      <4>. QED
        BY <2>1, <4>1, <4>2, <4>3, <4>4, <4>5, <4>6
    <3>. QED
      BY <1>0, <3>1, Zenon
  <2>3. p # "connection"
    BY <2>1
  <2>. QED
    BY <2>2, <2>3
<1>4. \A i \in 1 .. 11 : E!Plan[i].kind = SeedKinds[i] /\ E!Plan[i].refs = SeedRefs[i]
  BY SeedPlan
<1>5. \A i, j \in 1 .. 11 : E!Plan[i].kind = E!Plan[j].kind => i = j
  BY <1>2, <1>4
<1>6. ASSUME NEW i \in 1 .. 11, NEW p \in E!Plan[i].refs
      PROVE  p # "connection" /\ \E j \in 1 .. 11 : j < i /\ E!Plan[j].kind = p
  <2>1. p \in SeedRefs[i]
    BY <1>4
  <2>. QED
    BY <1>3, <1>4, <2>1
<1>. QED
  BY <1>1, <1>5, <1>6

\* The run goes on with the id it has got.
LEMMA KeepGoesOn ==
    ASSUME E!SeededInv, NEW n \in 1 .. 11, n = v4, NEW id \in E!Id, E!Keep(id),
           E!Present(id, E!Plan[n].kind)',
           \A k \in E!Kind : v1[k] \subseteq v1'[k]
    PROVE  /\ E!HasWhatItPassed' /\ v4' \in 1 .. 12 \cup {Null} /\ v5' = FALSE
           /\ v6' \in [E!Kind -> E!Id \cup {Null}]
<1>2. PICK kind \in E!Kind : kind = E!Plan[n].kind
  BY SeedOrder
<1>1. v6 \in [E!Kind -> E!Id \cup {Null}] /\ n # Null
  BY NullIsNoNumber DEF E!SeededInv, E!TypeOK
<1>3. /\ v6' = [v6 EXCEPT ![kind] = id] /\ v5' = FALSE
      /\ v4' \in {Null, n + 1}
  BY <1>2 DEF E!Keep
<1>4. ASSUME NEW i \in 1 .. 11, i < n + 1, E!Plan[i].kind # "connection"
      PROVE  E!Present(v6[E!Plan[i].kind], E!Plan[i].kind)'
  <2>1. PICK k \in E!Kind : k = E!Plan[i].kind
    BY SeedOrder
  <2>2. CASE i = n
    <3>1. k = kind /\ v6'[k] = id
      BY <1>1, <1>2, <1>3, <2>1, <2>2
    <3>2. E!Present(id, k)'
      BY <1>1, <1>2, <3>1
    <3>. QED
      BY <2>1, <3>1, <3>2 DEF E!Present
  <2>3. CASE i # n
    <3>1. k # kind /\ v6'[k] = v6[k]
      BY <1>1, <1>2, <1>3, <2>1, <2>3, SeedOrder
    <3>2. E!Present(v6[k], k)
      BY <1>1, <1>3, <1>4, <2>1, <2>3, SeedPlan DEF E!SeededInv, E!HasWhatItPassed
    <3>. QED
      BY <2>1, <3>1, <3>2 DEF E!Present
  <2>. QED
    BY <2>2, <2>3
<1>5. E!HasWhatItPassed'
  <2>1. ASSUME v4' # Null, NEW i \in 1 .. 11, i < v4', E!Plan[i].kind # "connection"
        PROVE  E!Present(v6[E!Plan[i].kind], E!Plan[i].kind)'
    BY <1>3, <1>4, <2>1
  <2>. QED
    BY <2>1, SeedPlan DEF E!HasWhatItPassed
<1>6. v6' \in [E!Kind -> E!Id \cup {Null}] /\ v4' \in 1 .. 12 \cup {Null}
  BY <1>1, <1>3
<1>. QED
  BY <1>3, <1>5, <1>6

\* What is looked for and found (Find).
LEMMA FindKeeps ==
    ASSUME E!SeededInv, E!Find
    PROVE  E!SeededInv'
<1>1. /\ v4 \in 1 .. 11 /\ UNCHANGED <<v1, v2, v3, v8>> /\ ~v5
      /\ DOMAIN v1 = E!Kind /\ v6 \in [E!Kind -> E!Id \cup {Null}] /\ v2 \in Nat
      /\ \A i \in 1 .. 11 :
             v1[E!Plan[i].kind] \subseteq [id : E!Id, refs : [E!Plan[i].refs -> E!Id \cup {Null}]]
  BY SeedPlan DEF E!SeededInv, E!TypeOK, E!Find
<1>2. E!OneOfEach' /\ E!RefersToRows'
  BY <1>1 DEF E!SeededInv, E!OneOfEach, E!RefersToRows, E!Present
<1>3. CASE E!Existing(E!Plan[v4]) = {} /\ v5' = TRUE /\ UNCHANGED <<v4, v6, v7>>
  <2>1. PICK n \in 1 .. 11 : n = v4
    BY <1>1
  <2>2. PICK kind \in E!Kind, refs \in {E!Plan[n].refs} : kind = E!Plan[n].kind
    BY SeedOrder
  <2>3. v1[kind] = {}
    <3>1. SUFFICES ASSUME NEW x \in v1[kind] PROVE x \in E!Existing(E!Plan[n])
      BY <1>3, <2>1
    <3>2. x.refs \in [refs -> E!Id \cup {Null}]
      BY <1>1, <2>2
    <3>3. ASSUME NEW p \in refs PROVE x.refs[p] = v6[p]
      <4>1. p \in E!Kind /\ p # "connection" /\ \E j \in 1 .. 11 : j < n /\ E!Plan[j].kind = p
        BY <2>2, SeedOrder
      <4>2. E!Present(v6[p], p)
        BY <2>1, <4>1, SeedPlan, NullIsNoNumber DEF E!SeededInv, E!HasWhatItPassed
      <4>3. E!Present(x.refs[p], p)
        BY <3>2 DEF E!SeededInv, E!RefersToRows
      <4>. QED
        BY <4>1, <4>2, <4>3 DEF E!Present, E!SeededInv, E!OneOfEach
    <3>4. x.refs = [p \in refs |-> v6[p]]
      BY <3>2, <3>3
    <3>. QED
      BY <2>2, <3>4 DEF E!Existing, E!Refs
  <2>4. E!MissingIsAbsent'
    BY <1>1, <1>3, <2>1, <2>2, <2>3, SeedPlan DEF E!MissingIsAbsent
  <2>5. E!HasWhatItPassed'
    BY <1>1, <1>3 DEF E!SeededInv, E!HasWhatItPassed, E!Present
  <2>6. E!TypeOK'
    BY <1>1, <1>3, SeedPlan DEF E!TypeOK
  <2>. QED
    BY <1>2, <2>4, <2>5, <2>6 DEF E!SeededInv
<1>4. CASE \E x \in E!Existing(E!Plan[v4]) : E!Keep(x.id)
  <2>0. PICK n \in 1 .. 11 : n = v4
    BY <1>1
  <2>1. PICK x \in v1[E!Plan[n].kind] : E!Keep(x.id)
    BY <1>4, <2>0 DEF E!Existing
  <2>2. x.id \in E!Id
    BY <1>1, <2>1
  <2>3. E!Present(x.id, E!Plan[n].kind)'
    BY <1>1, <2>1 DEF E!Present
  <2>4. /\ E!HasWhatItPassed' /\ v4' \in 1 .. 12 \cup {Null} /\ v5' = FALSE
        /\ v6' \in [E!Kind -> E!Id \cup {Null}]
    BY <1>1, <2>0, <2>1, <2>2, <2>3, KeepGoesOn
  <2>5. E!TypeOK' /\ E!MissingIsAbsent'
    BY <1>1, <2>4, SeedPlan DEF E!TypeOK, E!MissingIsAbsent
  <2>. QED
    BY <1>2, <2>4, <2>5 DEF E!SeededInv
<1>. QED
  BY <1>3, <1>4 DEF E!Find

\* What is missing is inserted (Insert).
LEMMA InsertKeeps ==
    ASSUME E!SeededInv, E!Insert
    PROVE  E!SeededInv'
<1>1. PICK n \in 1 .. 11 : n = v4 /\ v1[E!Plan[n].kind] = {}
  BY SeedPlan DEF E!SeededInv, E!MissingIsAbsent, E!Insert
<1>2. PICK kind \in E!Kind : kind = E!Plan[n].kind
  BY SeedOrder
<1>3. PICK refs : refs = E!Plan[n].refs
  OBVIOUS
<1>4. PICK id : id = <<v2, kind>>
  OBVIOUS
<1>5. PICK row : row = [id |-> id, refs |-> [k \in refs |-> v6[k]]]
  OBVIOUS
<1>6. /\ DOMAIN v1 = E!Kind /\ v6 \in [E!Kind -> E!Id \cup {Null}] /\ v2 \in Nat
      /\ \A i \in 1 .. 11 :
             v1[E!Plan[i].kind] \subseteq [id : E!Id, refs : [E!Plan[i].refs -> E!Id \cup {Null}]]
      /\ n # Null
  BY SeedPlan, NullIsNoNumber DEF E!SeededInv, E!TypeOK
<1>7. /\ v1' = [v1 EXCEPT ![kind] = {row}] /\ E!Keep(id)
      /\ UNCHANGED <<v2, v3, v8>>
  BY <1>1, <1>2, <1>3, <1>4, <1>5, <1>6 DEF E!Insert, E!Refs
<1>8. /\ v1'[kind] = {row} /\ DOMAIN v1' = E!Kind
      /\ \A k \in E!Kind : k # kind => v1'[k] = v1[k]
      /\ \A k \in E!Kind : v1[k] \subseteq v1'[k]
  BY <1>1, <1>2, <1>6, <1>7
<1>9. \A p \in refs : p \in E!Kind
  BY <1>3, SeedOrder
<1>10. /\ id \in E!Id /\ row.id = id
       /\ row.refs \in [refs -> E!Id \cup {Null}] /\ DOMAIN row.refs = refs
       /\ \A p \in refs : row.refs[p] = v6[p]
       /\ row \in [id : E!Id, refs : [refs -> E!Id \cup {Null}]]
  BY <1>4, <1>5, <1>6, <1>9 DEF E!Id
<1>11. E!Present(id, E!Plan[n].kind)'
  BY <1>2, <1>8, <1>10 DEF E!Present
<1>12. /\ E!HasWhatItPassed' /\ v4' \in 1 .. 12 \cup {Null} /\ v5' = FALSE
       /\ v6' \in [E!Kind -> E!Id \cup {Null}]
  BY <1>1, <1>7, <1>8, <1>10, <1>11, KeepGoesOn
<1>13. E!TypeOK'
  <2>1. ASSUME NEW i \in 1 .. 11
        PROVE  v1'[E!Plan[i].kind] \subseteq [id : E!Id, refs : [E!Plan[i].refs -> E!Id \cup {Null}]]
    <3>1. CASE i = n
      BY <1>2, <1>3, <1>8, <1>10, <3>1
    <3>2. CASE i # n
      <4>1. E!Plan[i].kind # kind /\ E!Plan[i].kind \in E!Kind
        BY <1>2, <3>2, SeedOrder
      <4>. QED
        BY <1>6, <1>8, <4>1
    <3>. QED
      BY <3>1, <3>2
  <2>. QED
    BY <1>6, <1>7, <1>8, <1>12, <2>1, SeedPlan DEF E!TypeOK
<1>14. E!OneOfEach'
  BY <1>8 DEF E!SeededInv, E!OneOfEach
<1>15. E!RefersToRows'
  <2>1. ASSUME NEW k \in E!Kind, NEW x \in v1'[k], NEW p \in DOMAIN x.refs
        PROVE  E!Present(x.refs[p], p)'
    <3>1. CASE k = kind
      <4>1. x = row /\ p \in refs /\ p \in E!Kind
        BY <1>8, <1>9, <1>10, <2>1, <3>1
      <4>2. p # "connection" /\ \E j \in 1 .. 11 : j < n /\ E!Plan[j].kind = p
        BY <1>3, <4>1, SeedOrder
      <4>3. E!Present(v6[p], p)
        BY <1>1, <1>6, <4>2, SeedPlan DEF E!SeededInv, E!HasWhatItPassed
      <4>4. x.refs[p] = v6[p]
        BY <1>10, <4>1
      <4>. QED
        BY <1>8, <4>1, <4>3, <4>4 DEF E!Present
    <3>2. CASE k # kind
      <4>1. x \in v1[k] /\ E!Present(x.refs[p], p)
        BY <1>8, <2>1, <3>2 DEF E!SeededInv, E!RefersToRows
      <4>2. p \in E!Kind
        <5>1. PICK i \in 1 .. 11 : k = E!Plan[i].kind
          BY SeedOrder
        <5>2. x.refs \in [E!Plan[i].refs -> E!Id \cup {Null}]
          BY <1>6, <4>1, <5>1
        <5>. QED
          BY <2>1, <5>2, SeedOrder
      <4>. QED
        BY <1>8, <4>1, <4>2 DEF E!Present
    <3>. QED
      BY <3>1, <3>2
  <2>. QED
    BY <2>1 DEF E!RefersToRows
<1>16. E!MissingIsAbsent'
  BY <1>12 DEF E!MissingIsAbsent
<1>. QED
  BY <1>12, <1>13, <1>14, <1>15, <1>16 DEF E!SeededInv

\* A user removes a connection: nothing refers to it.
LEMMA DisconnectKeeps ==
    ASSUME E!SeededInv, E!Disconnect
    PROVE  E!SeededInv'
<1>1. /\ DOMAIN v1 = E!Kind /\ v6 \in [E!Kind -> E!Id \cup {Null}] /\ v2 \in Nat
      /\ \A i \in 1 .. 11 :
             v1[E!Plan[i].kind] \subseteq [id : E!Id, refs : [E!Plan[i].refs -> E!Id \cup {Null}]]
      /\ UNCHANGED <<v2, v3, v4, v5, v6, v8>>
  BY SeedPlan DEF E!SeededInv, E!TypeOK, E!Disconnect
<1>2. /\ DOMAIN v1' = E!Kind /\ \A k \in E!Kind : v1'[k] \subseteq v1[k]
      /\ \A k \in E!Kind : k # "connection" => v1'[k] = v1[k]
  BY <1>1 DEF E!Disconnect
<1>3. E!TypeOK'
  <2>1. \A i \in 1 .. 11 :
             v1'[E!Plan[i].kind] \subseteq [id : E!Id, refs : [E!Plan[i].refs -> E!Id \cup {Null}]]
    BY <1>1, <1>2, SeedOrder
  <2>. QED
    BY <1>1, <1>2, <2>1, SeedPlan DEF E!SeededInv, E!TypeOK
<1>4. E!OneOfEach'
  BY <1>2 DEF E!SeededInv, E!OneOfEach
<1>5. E!RefersToRows'
  <2>1. ASSUME NEW k \in E!Kind, NEW x \in v1'[k], NEW p \in DOMAIN x.refs
        PROVE  E!Present(x.refs[p], p)'
    <3>1. x \in v1[k] /\ E!Present(x.refs[p], p)
      BY <1>2, <2>1 DEF E!SeededInv, E!RefersToRows
    <3>2. p \in E!Kind /\ p # "connection"
      <4>1. PICK i \in 1 .. 11 : k = E!Plan[i].kind
        BY SeedOrder
      <4>2. x.refs \in [E!Plan[i].refs -> E!Id \cup {Null}]
        BY <1>1, <3>1, <4>1
      <4>. QED
        BY <2>1, <4>2, SeedOrder
    <3>. QED
      BY <1>2, <3>1, <3>2 DEF E!Present
  <2>. QED
    BY <2>1 DEF E!RefersToRows
<1>6. E!HasWhatItPassed'
  <2>1. ASSUME v4 # Null, NEW i \in 1 .. 11, i < v4, E!Plan[i].kind # "connection"
        PROVE  E!Present(v6[E!Plan[i].kind], E!Plan[i].kind)'
    <3>1. E!Present(v6[E!Plan[i].kind], E!Plan[i].kind)
      BY <2>1, SeedPlan DEF E!SeededInv, E!HasWhatItPassed
    <3>2. E!Plan[i].kind \in E!Kind /\ v6' = v6
      BY <1>1, SeedOrder
    <3>. QED
      BY <1>2, <2>1, <3>1, <3>2 DEF E!Present
  <2>. QED
    BY <1>1, <2>1, SeedPlan DEF E!HasWhatItPassed
<1>7. E!MissingIsAbsent'
  <2>. SUFFICES ASSUME v5' PROVE v4' \in 1 .. Len(E!Plan) /\ v1'[E!Plan[v4'].kind] = {}
    BY DEF E!MissingIsAbsent
  <2>1. v5 /\ v4' = v4
    BY <1>1
  <2>2. v4 \in 1 .. Len(E!Plan) /\ v1[E!Plan[v4].kind] = {}
    BY <2>1 DEF E!SeededInv, E!MissingIsAbsent
  <2>3. E!Plan[v4].kind \in E!Kind
    BY <2>2, SeedPlan, SeedOrder
  <2>. QED
    BY <1>2, <2>1, <2>2, <2>3
<1>. QED
  BY <1>3, <1>4, <1>5, <1>6, <1>7 DEF E!SeededInv

\* The script starts, stops, negotiates and waits: no row changes.
LEMMA RunKeeps ==
    ASSUME E!SeededInv,
           \/ E!Begin \/ E!Negotiation \/ E!Background \/ E!Poll \/ E!Stop
    PROVE  E!SeededInv'
<1>1. /\ v1' = v1
      /\ \/ UNCHANGED <<v4, v5, v6>>
         \/ v4' = 1 /\ v5' = FALSE /\ v6' = [k \in E!Kind |-> Null]
         \/ v4' = Null /\ v5' = FALSE /\ v6' = v6
         \/ v4' \in {v4, Null} /\ v4 = 12 /\ v5' = v5 /\ v6' = v6
      /\ v2' \in Nat
  BY SeedPlan DEF E!Begin, E!Negotiation, E!Background, E!Poll, E!Stop, E!SeededInv, E!TypeOK
<1>2. E!OneOfEach' /\ E!RefersToRows'
  BY <1>1 DEF E!SeededInv, E!OneOfEach, E!RefersToRows, E!Present
<1>3. E!TypeOK'
  <2>1. v4' \in 1 .. 12 \cup {Null}
    BY <1>1, SeedPlan DEF E!SeededInv, E!TypeOK
  <2>3. v5' \in BOOLEAN
    BY <1>1, Zenon DEF E!SeededInv, E!TypeOK
  <2>2. v6' \in [E!Kind -> E!Id \cup {Null}]
    BY <1>1 DEF E!SeededInv, E!TypeOK
  <2>. QED
    BY <1>1, <2>1, <2>2, <2>3, SeedPlan DEF E!SeededInv, E!TypeOK
<1>4. v4 = 12 => ~v5
  BY SeedPlan DEF E!SeededInv, E!MissingIsAbsent, E!TypeOK
<1>5. E!MissingIsAbsent'
  BY <1>1, <1>4 DEF E!SeededInv, E!MissingIsAbsent
<1>6. E!HasWhatItPassed'
  <2>1. CASE v4' = 1
    BY <2>1, SeedPlan DEF E!HasWhatItPassed
  <2>2. CASE v4' = Null
    BY <2>2 DEF E!HasWhatItPassed
  <2>3. CASE v4' = v4 /\ v6' = v6
    BY <1>1, <2>3 DEF E!SeededInv, E!HasWhatItPassed, E!Present
  <2>. QED
    BY <1>1, <2>1, <2>2, <2>3
<1>. QED
  BY <1>2, <1>3, <1>5, <1>6 DEF E!SeededInv

\* Every step keeps the invariant.
LEMMA SeedStep ==
    ASSUME E!SeededInv, E!Next \/ UNCHANGED vars
    PROVE  E!SeededInv'
<1>1. CASE UNCHANGED vars
  BY <1>1 DEF vars, E!SeededInv, E!TypeOK, E!OneOfEach, E!RefersToRows, E!HasWhatItPassed,
              E!MissingIsAbsent, E!Present
<1>2. CASE E!Next
  BY <1>2, FindKeeps, InsertKeeps, DisconnectKeeps, RunKeeps DEF E!Next
<1>. QED
  BY <1>1, <1>2

\* The two modules' cardinality is the same one.
LEMMA SeedCardinality == \A X : E!Cardinality(X) = Cardinality(X)
BY DEF E!Cardinality, Cardinality

\* The inductive invariant, of the behaviours of this component.
SeedHolds == part = "seed" => E!SeededInv

\* However often the script was stopped and run again, each of its rows is there
\* once and whole (seed.ts).
THEOREM SeedingIsRepeatable == Spec => []SeededOnce
<1>1. Initially => SeedHolds
  <2>. SUFFICES ASSUME E!Init PROVE E!SeededInv
    BY DEF Initially, Init, SeedHolds
  <2>1. E!TypeOK
    BY SeedOrder, SeedPlan DEF E!Init, E!TypeOK
  <2>2. E!OneOfEach /\ E!RefersToRows /\ E!HasWhatItPassed /\ E!MissingIsAbsent
    BY DEF E!Init, E!OneOfEach, E!RefersToRows, E!HasWhatItPassed, E!MissingIsAbsent
  <2>. QED
    BY <2>1, <2>2 DEF E!SeededInv
<1>2. SeedHolds /\ [Next]_vars => SeedHolds'
  <2>. SUFFICES ASSUME SeedHolds, [Next]_vars, part' = "seed" PROVE E!SeededInv'
    BY DEF SeedHolds
  <2>1. part = "seed" /\ (E!Next \/ UNCHANGED vars)
    BY DEF Next, vars
  <2>. QED
    BY <2>1, SeedStep DEF SeedHolds
<1>3. SeedHolds => SeededOnce
  <2>. SUFFICES ASSUME E!SeededInv PROVE E!SeededOnce
    BY DEF SeedHolds, SeededOnce
  <2>1. ASSUME NEW k \in E!Kind PROVE E!Cardinality(v1[k]) <= 1
    <3>1. CASE v1[k] = {}
      BY <3>1, FS_EmptySet, SeedCardinality
    <3>2. CASE v1[k] # {}
      <4>1. PICK x : v1[k] = {x}
        BY <3>2 DEF E!SeededInv, E!OneOfEach
      <4>2. Cardinality({x}) = 1
        BY FS_Singleton
      <4>. QED
        BY <4>1, <4>2, SeedCardinality
    <3>. QED
      BY <3>1, <3>2
  <2>2. v4 = E!End => \A k \in E!Kind \ {"connection"} : v1[k] # {}
    BY SeedPlan, SeedOrder, NullIsNoNumber DEF E!SeededInv, E!HasWhatItPassed, E!Present
  <2>. QED
    BY <2>1, <2>2 DEF E!SeededInv, E!RefersToRows, E!Present, E!SeededOnce
<1>. QED
  BY <1>1, <1>2, <1>3, PTL DEF Spec

-----------------------------------------------------------------------------
\* The accounts (Accounts), and the contract of the agreements (AgreementContract).

USE DEF A!OrNull

\* One tab goes on; accounts for which another key is rendered stay so.
LEMMA OneTabGoesOn ==
    ASSUME A!AccountsInv, NEW t \in Tab, NEW w \in A!Tabs,
           v4' = [v4 EXCEPT ![t] = w], A!Tracks(w)', v8 \subseteq v8'
    PROVE  v4' \in [Tab -> A!Tabs] /\ \A u \in Tab : A!Tracks(v4[u])'
<1>1. v4' \in [Tab -> A!Tabs] /\ v4'[t] = w /\ \A u \in Tab : u # t => v4'[u] = v4[u]
  BY DEF A!AccountsInv, A!TypeOK
<1>2. ASSUME NEW u \in Tab, u # t PROVE A!Tracks(v4[u])'
  <2>1. A!Tracks(v4[u]) /\ v4'[u] = v4[u]
    BY <1>1, <1>2 DEF A!AccountsInv
  <2>2. v4[u].try.account \notin v8' => v4[u].try.account \notin v8
    OBVIOUS
  <2>. QED
    BY <2>1, <2>2 DEF A!Tracks
<1>3. A!Tracks(v4[t])'
  BY <1>1 DEF A!Tracks
<1>. QED
  BY <1>1, <1>2, <1>3

\* A tab goes on, and nobody is registered.
LEMMA NobodyRegistered ==
    ASSUME A!AccountsInv, NEW t \in Tab, NEW w \in A!Tabs,
           v4' = [v4 EXCEPT ![t] = w], A!Tracks(w)', v8 \subseteq v8', v8' \subseteq A!Account,
           v3' \in A!OrNull(A!Account), UNCHANGED <<v1, v5>>
    PROVE  A!AccountsInv'
<1>1. v4' \in [Tab -> A!Tabs] /\ \A u \in Tab : A!Tracks(v4[u])'
  BY OneTabGoesOn
<1>2. A!KeyIsAccounts' /\ A!FundedOnce'
  BY DEF A!AccountsInv, A!KeyIsAccounts, A!FundedOnce
<1>. QED
  BY <1>1, <1>2 DEF A!AccountsInv, A!TypeOK

\* The steps of the pages and of the wallets.
LEMMA WalletsKeep ==
    ASSUME A!AccountsInv, NEW t \in Tab,
           \/ \E page \in {"login", "signup"} : A!OpenPage(t, page)
           \/ A!Restore(t) \/ A!Logout(t)
           \/ \E a \in Named : A!ChooseWallet(t, a)
    PROVE  A!AccountsInv'
<1> DEFINE w == v4[t]
<1>1. w \in A!Tabs /\ A!Tracks(w) /\ v3 \in A!OrNull(A!Account)
  BY DEF A!AccountsInv, A!TypeOK
<1>2. A!NoTry \in A!Tries /\ A!NoTry.at = "none" /\ A!NoTry.intent = "login"
  BY DEF A!NoTry, A!Tries
<1>3. ASSUME NEW page \in {"login", "signup"}, A!OpenPage(t, page) PROVE A!AccountsInv'
  <2>1. PICK x : x = [A!Opened(page) EXCEPT !.near = w.near]
    OBVIOUS
  <2>2. x = [page |-> page, ready |-> FALSE, connected |-> Null, key |-> Null,
             ref |-> Null, near |-> w.near, try |-> A!NoTry]
    BY <2>1 DEF A!Opened
  <2>3. x \in A!Tabs /\ A!Tracks(x)
    BY <1>1, <1>2, <2>2 DEF A!Tabs, A!Tracks, A!Underway
  <2>4. UNCHANGED <<v1, v3, v5, v8>> /\ v4' = [v4 EXCEPT ![t] = x]
    BY <1>3, <2>1 DEF A!OpenPage, A!Put
  <2>5. A!Tracks(x)'
    BY <2>3, <2>4 DEF A!Tracks
  <2>. QED
    BY <1>1, <2>3, <2>4, <2>5, NobodyRegistered DEF A!AccountsInv, A!TypeOK
<1>4. CASE A!Restore(t)
  <2>1. PICK key \in {v3, Null} : A!Put(t, [w EXCEPT !.ready = TRUE, !.connected = v3, !.key = key])
    BY <1>4 DEF A!Restore
  <2>2. PICK x : x = [w EXCEPT !.ready = TRUE, !.connected = v3, !.key = key]
    OBVIOUS
  <2>3. x \in A!Tabs /\ x.try = w.try /\ x.ref = w.ref /\ x.near = w.near
    BY <1>1, <2>1, <2>2 DEF A!Tabs
  <2>4. ~w.ready
    BY <1>4 DEF A!Restore
  <2>5. A!Tracks(x)
    BY <1>1, <2>3, <2>4 DEF A!Tracks, A!Signer
  <2>6. UNCHANGED <<v1, v3, v5, v8>> /\ v4' = [v4 EXCEPT ![t] = x]
    BY <1>4, <2>1, <2>2 DEF A!Restore, A!Put
  <2>7. A!Tracks(x)'
    BY <2>5, <2>6 DEF A!Tracks
  <2>. QED
    BY <1>1, <2>3, <2>6, <2>7, NobodyRegistered DEF A!AccountsInv, A!TypeOK
<1>5. CASE A!Logout(t)
  <2>1. PICK x : x = A!SignedOut(w)
    OBVIOUS
  <2>2. x \in A!Tabs /\ x.try = w.try /\ x.ref = Null
    BY <1>1, <2>1 DEF A!Tabs, A!SignedOut
  <2>3. w.try.at = "none"
    BY <1>5 DEF A!Logout, A!At
  <2>4. A!Tracks(x)
    BY <1>1, <2>2, <2>3 DEF A!Tracks, A!Underway
  <2>5. /\ UNCHANGED <<v1, v5, v8>> /\ v4' = [v4 EXCEPT ![t] = x]
        /\ v3' \in A!OrNull(A!Account)
    BY <1>1, <1>5, <2>1 DEF A!Logout, A!Put, A!Remembered
  <2>6. A!Tracks(x)'
    BY <2>4, <2>5 DEF A!Tracks
  <2>. QED
    BY <1>1, <2>2, <2>5, <2>6, NobodyRegistered DEF A!AccountsInv, A!TypeOK
<1>6. ASSUME NEW a \in Named, A!ChooseWallet(t, a) PROVE A!AccountsInv'
  <2>1. PICK x : x = [w EXCEPT !.near = a]
    OBVIOUS
  <2>2. x \in A!Tabs /\ x.try = w.try /\ x.ref = w.ref /\ x.ready = w.ready /\ x.key = w.key
    BY <1>1, <2>1 DEF A!Tabs, A!Account
  <2>3. w.try.at = "none"
    BY <1>6 DEF A!ChooseWallet, A!At
  <2>4. A!Tracks(x)
    BY <1>1, <2>2, <2>3 DEF A!Tracks, A!Underway
  <2>5. UNCHANGED <<v1, v3, v5, v8>> /\ v4' = [v4 EXCEPT ![t] = x]
    BY <1>6, <2>1 DEF A!ChooseWallet, A!Put
  <2>6. A!Tracks(x)'
    BY <2>4, <2>5 DEF A!Tracks
  <2>. QED
    BY <1>1, <2>2, <2>5, <2>6, NobodyRegistered DEF A!AccountsInv, A!TypeOK
<1>. QED
  BY <1>3, <1>4, <1>5, <1>6

\* The absence of an attempt is no attempt.
LEMMA NoTryIsOne ==
    /\ A!NoTry \in A!Tries
    /\ A!NoTry.at = "none" /\ A!NoTry.intent = "login" /\ A!NoTry.rendered = Null
BY DEF A!NoTry, A!Tries

\* An attempt starts, with its intent and its role.
LEMMA StartsKeep ==
    ASSUME A!AccountsInv, NEW t \in Tab,
           A!StartWallet(t) \/ \E a \in Social : A!StartSocial(t, a)
    PROVE  A!AccountsInv'
<1> DEFINE w == v4[t]
<1>1. w \in A!Tabs /\ A!Tracks(w) /\ v3 \in A!OrNull(A!Account)
  BY DEF A!AccountsInv, A!TypeOK
<1>2. ASSUME NEW i \in A!Intents(w.page)
      PROVE  i[1] \in {"login", "signup"} /\ i[2] \in A!OrNull(UserRole)
             /\ (i[1] = "signup" => i[2] \in UserRole)
  BY <1>2 DEF A!Intents
<1>3. CASE A!StartWallet(t)
  <2>1. PICK i \in A!Intents(w.page) :
          A!PutTry(t, [A!NoTry EXCEPT !.at = "challenge", !.account = w.near,
                                      !.intent = i[1], !.role = i[2]])
    BY <1>3 DEF A!StartWallet
  <2>2. PICK y : y = [A!NoTry EXCEPT !.at = "challenge", !.account = w.near,
                                     !.intent = i[1], !.role = i[2]]
    OBVIOUS
  <2>3. PICK x : x = [w EXCEPT !.try = y]
    OBVIOUS
  <2>4. w.near # Null /\ w.key = Null /\ w.ref = Null /\ w.near \in A!Account
    BY <1>1, <1>3 DEF A!StartWallet, A!Tabs, A!Tracks
  <2>5. y \in A!Tries /\ y.at = "challenge" /\ y.account = w.near /\ y.rendered = Null
        /\ y.intent = i[1] /\ y.role = i[2]
    BY <1>2, <2>2, <2>4, NoTryIsOne DEF A!Tries
  <2>6. x \in A!Tabs /\ x.try = y /\ x.ref = Null /\ x.near = w.near
    BY <1>1, <2>3, <2>4, <2>5 DEF A!Tabs
  <2>7. A!Tracks(x)
    BY <1>2, <2>4, <2>5, <2>6 DEF A!Tracks, A!Underway, A!Signer
  <2>8. UNCHANGED <<v1, v3, v5, v8>> /\ v4' = [v4 EXCEPT ![t] = x]
    BY <1>3, <2>1, <2>2, <2>3 DEF A!StartWallet, A!PutTry
  <2>9. A!Tracks(x)'
    BY <2>7, <2>8 DEF A!Tracks
  <2>. QED
    BY <1>1, <2>6, <2>8, <2>9, NobodyRegistered DEF A!AccountsInv, A!TypeOK
<1>4. ASSUME NEW a \in Social, A!StartSocial(t, a) PROVE A!AccountsInv'
  <2>1. PICK i \in A!Intents(w.page) :
          A!Put(t, [A!SignedOut(w) EXCEPT
                     !.try = [A!NoTry EXCEPT !.at = "connect", !.chosen = a,
                                !.rendered = w.key, !.intent = i[1], !.role = i[2]]])
    BY <1>4 DEF A!StartSocial
  <2>2. PICK y : y = [A!NoTry EXCEPT !.at = "connect", !.chosen = a,
                                     !.rendered = w.key, !.intent = i[1], !.role = i[2]]
    OBVIOUS
  <2>3. PICK x : x = [A!SignedOut(w) EXCEPT !.try = y]
    OBVIOUS
  <2>4. a \in A!Account
    BY DEF A!Account
  <2>5. y \in A!Tries /\ y.at = "connect" /\ y.chosen = a /\ y.intent = i[1] /\ y.role = i[2]
    <3>1. w.key \in A!OrNull(A!Account)
      BY <1>1 DEF A!Tabs
    <3>2. i[1] \in {"login", "signup"} /\ i[2] \in A!OrNull(UserRole)
      BY <1>2
    <3>. QED
      BY <2>2, <2>4, <3>1, <3>2, NoTryIsOne DEF A!Tries
  <2>6. A!SignedOut(w) \in A!Tabs /\ A!SignedOut(w).ref = Null
    BY <1>1 DEF A!Tabs, A!SignedOut
  <2>7. x \in A!Tabs /\ x.try = y /\ x.ref = Null
    BY <2>3, <2>5, <2>6 DEF A!Tabs
  <2>8. A!Tracks(x)
    BY <1>2, <2>4, <2>5, <2>7 DEF A!Tracks, A!Underway
  <2>9. /\ UNCHANGED <<v1, v5, v8>> /\ v4' = [v4 EXCEPT ![t] = x]
        /\ v3' \in A!OrNull(A!Account)
    BY <1>1, <1>4, <2>1, <2>2, <2>3 DEF A!StartSocial, A!Put, A!Remembered
  <2>10. A!Tracks(x)'
    BY <2>8, <2>9 DEF A!Tracks
  <2>. QED
    BY <1>1, <2>7, <2>9, <2>10, NobodyRegistered DEF A!AccountsInv, A!TypeOK
<1>. QED
  BY <1>3, <1>4

\* A social login: unless another key was rendered, its key is found first.
LEMMA ConnectKeeps ==
    ASSUME A!AccountsInv, NEW t \in Tab, A!Connect(t)
    PROVE  A!AccountsInv'
<1> DEFINE w == v4[t]
<1>1. w \in A!Tabs /\ A!Tracks(w) /\ w.try.at = "connect" /\ w.ready
  BY DEF A!AccountsInv, A!TypeOK, A!Connect, A!At
<1>2. PICK account : account = IF w.connected # Null THEN w.connected ELSE w.try.chosen
  OBVIOUS
<1>3. account \in A!Account /\ account # Null
  BY <1>1, <1>2, NullIsNoAccount DEF A!Tracks, A!Tabs, A!Account
<1>4. PICK y : y = [w.try EXCEPT !.account = account, !.at = "challenge"]
  OBVIOUS
<1>5. PICK x : x = [w EXCEPT !.connected = account, !.key = account, !.ref = account, !.try = y]
  OBVIOUS
<1>6. y \in A!Tries /\ y.at = "challenge" /\ y.account = account /\ y.rendered = w.try.rendered
      /\ y.intent = w.try.intent /\ y.role = w.try.role
  BY <1>1, <1>3, <1>4 DEF A!Tries, A!Tabs
<1>7. x \in A!Tabs /\ x.try = y /\ x.ref = account /\ x.key = account /\ x.ready
  BY <1>1, <1>3, <1>5, <1>6 DEF A!Tabs
<1>8. /\ UNCHANGED <<v1, v5>> /\ v4' = [v4 EXCEPT ![t] = x] /\ v3' = account
      /\ v8' = v8 \cup (IF w.try.rendered \in {Null, account} THEN {} ELSE {account})
  <2>1. [w EXCEPT !.connected = account, !.key = account, !.ref = account,
                  !.try.account = account, !.try.at = "challenge"] = x
    BY <1>1, <1>4, <1>5 DEF A!Tabs, A!Tries
  <2>. QED
    BY <1>2, <2>1 DEF A!Connect, A!Put
<1>9. A!Tracks(x)'
  <2>1. account \notin v8' => A!Signer(x) = account
    BY <1>3, <1>6, <1>7, <1>8 DEF A!Signer
  <2>. QED
    BY <1>1, <1>3, <1>6, <1>7, <2>1 DEF A!Tracks, A!Underway
<1>10. v8 \subseteq v8' /\ v8' \subseteq A!Account
  BY <1>3, <1>8 DEF A!AccountsInv, A!TypeOK
<1>. QED
  BY <1>3, <1>7, <1>8, <1>9, <1>10, NobodyRegistered

\* An attempt goes on, and nothing else.
LEMMA TryGoesOn ==
    ASSUME A!AccountsInv, NEW t \in Tab, NEW y \in A!Tries, A!PutTry(t, y),
           UNCHANGED <<v1, v3, v5, v8>>,
           LET x == [v4[t] EXCEPT !.try = y] IN
             x \in A!Tabs /\ x.ref = v4[t].ref /\ x.key = v4[t].key /\ x.ready = v4[t].ready
                /\ x.near = v4[t].near /\ x.try = y => A!Tracks(x)
    PROVE  A!AccountsInv'
<1>1. v4[t] \in A!Tabs /\ v3 \in A!OrNull(A!Account) /\ v8 \subseteq A!Account
  BY DEF A!AccountsInv, A!TypeOK
<1>2. PICK x : x = [v4[t] EXCEPT !.try = y]
  OBVIOUS
<1>3. x \in A!Tabs /\ x.ref = v4[t].ref /\ x.key = v4[t].key /\ x.ready = v4[t].ready
        /\ x.near = v4[t].near /\ x.try = y
  BY <1>1, <1>2 DEF A!Tabs
<1>4. A!Tracks(x)
  BY <1>2, <1>3
<1>5. A!Tracks(x)' /\ v4' = [v4 EXCEPT ![t] = x]
  BY <1>2, <1>4 DEF A!Tracks, A!PutTry
<1>. QED
  BY <1>1, <1>3, <1>5, NobodyRegistered

\* The steps of an attempt before somebody is registered.
LEMMA AttemptsKeep ==
    ASSUME A!AccountsInv, NEW t \in Tab,
           A!Challenge(t) \/ A!Sign(t) \/ A!Expire(t) \/ A!Verify(t) \/ A!Find(t)
              \/ A!Answer(t) \/ A!Fail(t)
    PROVE  A!AccountsInv'
<1> DEFINE w == v4[t]
           try == w.try
<1>1. w \in A!Tabs /\ A!Tracks(w) /\ try \in A!Tries
  BY DEF A!AccountsInv, A!TypeOK, A!Tabs
<1>2. UNCHANGED <<v1, v3, v5, v8>>
  BY DEF A!Challenge, A!Sign, A!Expire, A!Verify, A!Find, A!Answer, A!Fail
<1>3. ASSUME NEW y \in A!Tries, A!PutTry(t, y), y.at = try.at,
             y.account = try.account, y.rendered = try.rendered, y.signer = try.signer,
             y.chosen = try.chosen, y.intent = try.intent, y.role = try.role
      PROVE  A!AccountsInv'
  <2>1. PICK x : x = [w EXCEPT !.try = y]
    OBVIOUS
  <2>2. x.ref = w.ref /\ x.near = w.near /\ x.try = y => A!Signer(x) = A!Signer(w)
    BY <1>3 DEF A!Signer
  <2>. QED
    BY <1>1, <1>2, <1>3, <2>1, <2>2, TryGoesOn DEF A!Tracks, A!Underway
<1>4. ASSUME NEW y \in A!Tries, A!PutTry(t, y), y.at = "sign", try.at = "challenge",
             y.account = try.account, y.rendered = try.rendered,
             y.intent = try.intent, y.role = try.role
      PROVE  A!AccountsInv'
  <2>1. PICK x : x = [w EXCEPT !.try = y]
    OBVIOUS
  <2>2. x.ref = w.ref /\ x.near = w.near /\ x.try = y => A!Signer(x) = A!Signer(w)
    BY <1>4 DEF A!Signer
  <2>. QED
    BY <1>1, <1>2, <1>4, <2>1, <2>2, TryGoesOn DEF A!Tracks, A!Underway
<1>5. ASSUME NEW y \in A!Tries, A!PutTry(t, y), y.at \in {"find", "create"},
             try.at \in {"verify", "find"}, y.at = "create" => try.intent = "signup",
             y.account = try.account, y.signer = try.signer,
             y.intent = try.intent, y.role = try.role
      PROVE  A!AccountsInv'
  <2>1. ASSUME NEW x \in A!Tabs, x.ref = w.ref, x.key = w.key, x.ready = w.ready,
               x.near = w.near, x.try = y
        PROVE  A!Tracks(x)
    BY <1>1, <1>5, <2>1 DEF A!Tracks, A!Underway
  <2>. QED
    BY <1>2, <1>5, <2>1, TryGoesOn
<1>6. ASSUME NEW y \in A!Tries, A!PutTry(t, y), y.at = "verify", try.at = "sign",
             y.account = try.account, y.signer = A!Signer(w), y.signer # Null,
             y.intent = try.intent, y.role = try.role
      PROVE  A!AccountsInv'
  <2>1. y.signer \in A!Account
    BY <1>6 DEF A!Tries
  <2>2. ASSUME NEW x \in A!Tabs, x.ref = w.ref, x.key = w.key, x.ready = w.ready,
               x.near = w.near, x.try = y
        PROVE  A!Tracks(x)
    BY <1>1, <1>6, <2>1, <2>2 DEF A!Tracks, A!Underway
  <2>. QED
    BY <1>2, <1>6, <2>2, TryGoesOn
<1>7. ASSUME NEW y \in A!Tries, A!PutTry(t, y), y.at = "answer", A!Underway(try),
             y.account = try.account, y.intent = try.intent, y.role = try.role
      PROVE  A!AccountsInv'
  BY <1>1, <1>2, <1>7, TryGoesOn DEF A!Tracks, A!Underway
<1>8. ASSUME A!PutTry(t, A!NoTry)
      PROVE  A!AccountsInv'
  <2>1. A!NoTry \in A!Tries /\ A!NoTry.at = "none" /\ A!NoTry.intent = "login"
    BY DEF A!NoTry, A!Tries
  <2>. QED
    BY <1>1, <1>2, <1>8, <2>1, TryGoesOn DEF A!Tracks, A!Underway
<1>9. CASE A!Challenge(t)
  <2>1. PICK y : y = [try EXCEPT !.nonce = TRUE, !.at = "sign"]
    OBVIOUS
  <2>2. y \in A!Tries /\ y.at = "sign" /\ y.account = try.account /\ y.rendered = try.rendered
        /\ y.intent = try.intent /\ y.role = try.role
    BY <1>1, <2>1 DEF A!Tries
  <2>. QED
    BY <1>4, <1>9, <2>1, <2>2 DEF A!Challenge, A!At
<1>10. CASE A!Sign(t)
  <2>1. PICK y : y = [try EXCEPT !.signer = A!Signer(w), !.at = "verify"]
    OBVIOUS
  <2>2. A!Signer(w) \in A!OrNull(A!Account)
    BY <1>1 DEF A!Signer, A!Tabs, A!Tries
  <2>3. y \in A!Tries /\ y.at = "verify" /\ y.account = try.account /\ y.signer = A!Signer(w)
        /\ y.intent = try.intent /\ y.role = try.role
    BY <1>1, <2>1, <2>2 DEF A!Tries
  <2>. QED
    BY <1>6, <1>10, <2>1, <2>3 DEF A!Sign, A!At
<1>11. CASE A!Expire(t)
  <2>1. PICK y : y = [try EXCEPT !.nonce = FALSE]
    OBVIOUS
  <2>2. y \in A!Tries /\ y.at = try.at /\ y.account = try.account /\ y.rendered = try.rendered
        /\ y.signer = try.signer /\ y.chosen = try.chosen
        /\ y.intent = try.intent /\ y.role = try.role
    BY <1>1, <2>1 DEF A!Tries
  <2>. QED
    BY <1>3, <1>11, <2>1, <2>2 DEF A!Expire
<1>12. CASE A!Verify(t)
  <2>1. PICK y : y = [try EXCEPT !.nonce = FALSE, !.at = "find"]
    OBVIOUS
  <2>2. y \in A!Tries /\ y.at = "find" /\ y.account = try.account /\ y.signer = try.signer
        /\ y.intent = try.intent /\ y.role = try.role
    BY <1>1, <2>1 DEF A!Tries
  <2>. QED
    BY <1>5, <1>12, <2>1, <2>2 DEF A!Verify, A!At
<1>13. CASE A!Find(t) /\ A!PutTry(t, [try EXCEPT !.at = "answer"])
  <2>1. PICK y : y = [try EXCEPT !.at = "answer"]
    OBVIOUS
  <2>2. y \in A!Tries /\ y.at = "answer" /\ y.account = try.account
        /\ y.intent = try.intent /\ y.role = try.role
    BY <1>1, <2>1 DEF A!Tries
  <2>3. A!Underway(try)
    BY <1>13 DEF A!Find, A!At, A!Underway
  <2>. QED
    BY <1>7, <1>13, <2>1, <2>2, <2>3
<1>14. CASE A!Find(t) /\ try.intent = "signup" /\ A!PutTry(t, [try EXCEPT !.at = "create"])
  <2>1. PICK y : y = [try EXCEPT !.at = "create"]
    OBVIOUS
  <2>2. y \in A!Tries /\ y.at = "create" /\ y.account = try.account /\ y.signer = try.signer
        /\ y.intent = try.intent /\ y.role = try.role
    BY <1>1, <2>1 DEF A!Tries
  <2>3. try.at = "find"
    BY <1>14 DEF A!Find, A!At
  <2>. QED
    BY <1>5, <1>14, <2>1, <2>2, <2>3
<1>15. A!Find(t) => \/ A!PutTry(t, [try EXCEPT !.at = "answer"])
                    \/ try.intent = "signup" /\ A!PutTry(t, [try EXCEPT !.at = "create"])
  BY DEF A!Find
<1>16. A!Answer(t) \/ A!Fail(t) => A!PutTry(t, A!NoTry)
  BY DEF A!Answer, A!Fail
<1>. QED
  BY <1>8, <1>9, <1>10, <1>11, <1>12, <1>13, <1>14, <1>15, <1>16

\* A user is created, and funded, only where there is none, with the key that
\* signed.
LEMMA CreateKeeps ==
    ASSUME A!AccountsInv, NEW t \in Tab, A!Create(t)
    PROVE  A!AccountsInv'
<1> DEFINE w == v4[t]
           try == w.try
<1>1. w \in A!Tabs /\ A!Tracks(w) /\ try \in A!Tries /\ try.at = "create" /\ A!Underway(try)
  BY DEF A!AccountsInv, A!TypeOK, A!Tabs, A!Create, A!At, A!Underway
<1>2. PICK account \in A!Account : account = try.account
  BY <1>1 DEF A!Tracks
<1>3. PICK row : row = [role |-> try.role, key |-> try.signer]
  OBVIOUS
<1>4. row \in A!Row /\ row # Null /\ (account \notin v8 => row.key = account)
  BY <1>1, <1>2, <1>3, NullIsNoAccount DEF A!Tracks, A!Row, A!Account
<1>5. /\ v1[account] = Null /\ v1' = [v1 EXCEPT ![account] = row] /\ v3' = v3 /\ v8' = v8
      /\ v5' = [v5 EXCEPT ![account] = @ + 1] \/ v5' = v5
  BY <1>2, <1>3 DEF A!Create, A!Taken
<1>6. PICK y : y = [try EXCEPT !.at = "answer"]
  OBVIOUS
<1>7. PICK x : x = [w EXCEPT !.try = y]
  OBVIOUS
<1>8. y \in A!Tries /\ y.at = "answer" /\ y.account = account /\ y.intent = try.intent /\ y.role = try.role
  BY <1>1, <1>2, <1>6 DEF A!Tries
<1>9. x \in A!Tabs /\ x.try = y /\ x.ref = w.ref /\ x.key = w.key /\ x.ready = w.ready
  BY <1>1, <1>7, <1>8 DEF A!Tabs
<1>10. A!Tracks(x)
  BY <1>1, <1>2, <1>8, <1>9 DEF A!Tracks, A!Underway
<1>11. v4' = [v4 EXCEPT ![t] = x] /\ A!Tracks(x)'
  BY <1>5, <1>6, <1>7, <1>10 DEF A!Tracks, A!Create, A!PutTry
<1>12. v4' \in [Tab -> A!Tabs] /\ \A u \in Tab : A!Tracks(v4[u])'
  BY <1>5, <1>9, <1>11, OneTabGoesOn
<1>13. /\ v1' \in [A!Account -> A!OrNull(A!Row)] /\ v1'[account] = row
       /\ \A a \in A!Account : a # account => v1'[a] = v1[a]
  BY <1>4, <1>5 DEF A!AccountsInv, A!TypeOK
<1>14. A!KeyIsAccounts'
  BY <1>4, <1>5, <1>13 DEF A!AccountsInv, A!KeyIsAccounts
<1>15. v5 \in [A!Account -> Nat] /\ v5[account] = 0
  BY <1>5 DEF A!AccountsInv, A!TypeOK, A!FundedOnce
<1>16. v5' \in [A!Account -> Nat] /\ v5'[account] \in {0, 1}
       /\ \A a \in A!Account : a # account => v5'[a] = v5[a]
  BY <1>5, <1>15
<1>17. A!FundedOnce'
  BY <1>4, <1>13, <1>16 DEF A!AccountsInv, A!FundedOnce
<1>. QED
  BY <1>5, <1>12, <1>13, <1>14, <1>16, <1>17 DEF A!AccountsInv, A!TypeOK

\* Every step keeps the invariant.
LEMMA AccountsStep ==
    ASSUME A!AccountsInv, A!Next \/ UNCHANGED vars
    PROVE  A!AccountsInv'
<1>1. CASE UNCHANGED vars
  BY <1>1 DEF vars, A!AccountsInv, A!TypeOK, A!Tracks, A!KeyIsAccounts, A!FundedOnce
<1>. QED
  BY <1>1, WalletsKeep, StartsKeep, ConnectKeeps, AttemptsKeep, CreateKeeps DEF A!Next

\* The inductive invariant, of the behaviours of this component.
AccountsHold == part = "accounts" => A!AccountsInv

\* It holds in every state.
LEMMA AccountsAlways == Spec => []AccountsHold
<1>1. Initially => AccountsHold
  <2>. SUFFICES ASSUME A!Init PROVE A!AccountsInv
    BY DEF Initially, Init, AccountsHold
  <2>1. A!NoTry \in A!Tries /\ A!NoTry.at = "none" /\ A!NoTry.intent = "login"
    BY DEF A!NoTry, A!Tries
  <2>2. A!Opened("login") \in A!Tabs /\ A!Tracks(A!Opened("login"))
    BY <2>1 DEF A!Opened, A!Tabs, A!Tracks, A!Underway
  <2>3. v4 \in [Tab -> A!Tabs] /\ \A t \in Tab : A!Tracks(v4[t])
    BY <2>2 DEF A!Init
  <2>. QED
    BY <2>3 DEF A!Init, A!AccountsInv, A!TypeOK, A!KeyIsAccounts, A!FundedOnce
<1>2. AccountsHold /\ [Next]_vars => AccountsHold'
  <2>. SUFFICES ASSUME AccountsHold, [Next]_vars, part' = "accounts" PROVE A!AccountsInv'
    BY DEF AccountsHold
  <2>1. part = "accounts" /\ (A!Next \/ UNCHANGED vars)
    BY DEF Next, vars
  <2>. QED
    BY <2>1, AccountsStep DEF AccountsHold
<1>. QED
  BY <1>1, <1>2, PTL DEF Spec

\* An account is registered with its own key, however many tabs sign up, sign in
\* and create accounts at once (auth.service.ts, wallet provider).
THEOREM AccountHasItsKey == Spec => []KeyIsAccounts
<1>1. AccountsHold => KeyIsAccounts
  BY DEF AccountsHold, KeyIsAccounts, A!AccountsInv
<1>. QED
  BY <1>1, AccountsAlways, PTL

\* An account is given NEAR once at the most, and only when it is registered.
THEOREM FundedAtMostOnce == Spec => []FundedOnce
<1>1. AccountsHold => FundedOnce
  BY DEF AccountsHold, FundedOnce, A!AccountsInv
<1>. QED
  BY <1>1, AccountsAlways, PTL

\* A record is never written over.
Places == v3 = [s \in Session |-> v3[s]]

\* No call of the contract writes over a record.
LEMMA RecordsStep ==
    ASSUME Places, C!Next \/ UNCHANGED vars
    PROVE  Places' /\ \A s \in Session : v3[s] # Null => v3'[s] = v3[s]
<1>1. ASSUME NEW caller \in ContractAccount, NEW agent \in ContractAccount, C!set_system_agent(caller, agent)
      PROVE  v3' = v3
  BY <1>1 DEF C!set_system_agent
<1>2. ASSUME NEW caller \in ContractAccount, NEW call \in C!Attempt, C!record_agreement(caller, call)
      PROVE  Places' /\ \A s \in Session : v3[s] # Null => v3'[s] = v3[s]
  <2>1. v3' = [v3 EXCEPT ![call.session_id] = call]
    BY <1>2 DEF C!record_agreement
  <2>2. v3[call.session_id] = Null
    BY <1>2 DEF C!record_agreement, C!Accepted, C!Vacant
  <2>. QED
    BY <2>1, <2>2 DEF Places
<1>3. CASE UNCHANGED vars
  BY <1>3 DEF Places, vars
<1>. QED
  BY <1>1, <1>2, <1>3 DEF C!Next, Places

\* The records are a table of the sessions, in behaviours of the contract.
RecordsHold == part = "contract" => Places

\* A record on chain is never written over: for all accounts, sessions, summaries
\* and keys (record_agreement).
THEOREM RecordIsFinal == Spec => RecordsAreFinal
<1>1. Initially => RecordsHold
  BY DEF Initially, Init, C!Init, RecordsHold, Places
<1>2. part' = "contract" /\ [Next]_vars => part = "contract" /\ (C!Next \/ UNCHANGED vars)
  BY DEF Next, vars
<1>3. RecordsHold /\ [Next]_vars => RecordsHold'
  BY <1>2, RecordsStep DEF RecordsHold
<1>4. part = "contract" /\ [Next]_vars => part' = "contract"
  BY DEF Next, vars
<1>5. RecordsHold /\ [Next]_vars
        => [part = "contract" => \A s \in Session : v3[s] # Null => v3'[s] = v3[s]]_vars
  BY <1>2, <1>4, RecordsStep DEF RecordsHold
<1>. QED
  BY <1>1, <1>3, <1>5, PTL DEF Spec, RecordsAreFinal

=============================================================================
