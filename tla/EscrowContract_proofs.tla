----------------------- MODULE EscrowContract_proofs ------------------------
(***************************************************************************)
(* Proofs about EscrowContract, for every set of accounts, every prices    *)
(* and amounts, and every length of the access history.                    *)
(***************************************************************************)
EXTENDS EscrowContract, SumTheorems, TLAPS

-----------------------------------------------------------------------------
\* The helpers return what their users rely on.

\* Both parts of a price are natural numbers and add up to the price.
LEMMA ShareBounds ==
    ASSUME NEW cost \in Nat
    PROVE  /\ SeekerShare(cost) \in Nat
           /\ PlatformShare(cost) \in Nat
           /\ SeekerShare(cost) + PlatformShare(cost) = cost
BY DEF SeekerShare, PlatformShare, ShareProduct, SEEKER_SHARE_PERCENT

\* Pushing a record keeps a list a list, whether or not the oldest goes.
LEMMA PushBoundedType ==
    ASSUME NEW S, NEW records \in Seq(S), NEW record \in S
    PROVE  PushBounded(records, record) \in Seq(S)
BY EscrowAssumption DEF PushBounded

\* Lowering a balance the employer can spend keeps all balances natural.
LEMMA DebitedType ==
    ASSUME NEW e \in Account, NEW n \in Nat,
           balance \in [Account -> Nat], CanSpend(e, n)
    PROVE  Debited(e, n) \in [Account -> Nat]
BY DEF Debited, CanSpend

\* Raising one account's amount keeps all amounts natural.
LEMMA CreditedType ==
    ASSUME NEW f \in [Account -> Nat], NEW a \in Account, NEW n \in Nat
    PROVE  [f EXCEPT ![a] = @ + n] \in [Account -> Nat]
OBVIOUS

-----------------------------------------------------------------------------
\* Every state of the contract and of the chain around it has its type: in
\* particular no balance, price or record list ever leaves its range.
THEOREM TypeCorrect == Spec => []TypeOK
<1>1. Init => TypeOK
  BY EscrowAssumption DEF Init, TypeOK
<1>2. TypeOK /\ [Next]_vars => TypeOK'
  <2> SUFFICES ASSUME TypeOK, [Next]_vars PROVE TypeOK'
    OBVIOUS
  <2> USE EscrowAssumption
  <2>1. ASSUME NEW e \in Employer, NEW n \in Amount, Deposit(e, n)
        PROVE  TypeOK'
    <3>0. /\ e \in Account /\ n \in Nat /\ wallet[e] >= n
          /\ balance' = [balance EXCEPT ![e] = @ + n]
          /\ wallet' = [wallet EXCEPT ![e] = @ - n]
      BY <2>1 DEF Deposit
    <3>a. balance \in [Account -> Nat] /\ wallet \in [Account -> Nat]
      BY DEF TypeOK
    <3>1. balance' \in [Account -> Nat]
      BY <3>0, <3>a, CreditedType
    <3>2. wallet' \in [Account -> Nat]
      BY <3>0, <3>a
    <3>3. accounts' \subseteq Account /\ native' \in Int
      BY <2>1 DEF TypeOK, Deposit
    <3>. QED
      BY <2>1, <3>1, <3>2, <3>3 DEF TypeOK, Deposit
  <2>2. ASSUME NEW e \in Employer, NEW n \in Amount, Withdraw(e, n)
        PROVE  TypeOK'
    <3>1. balance' \in [Account -> Nat]
      BY <2>2, DebitedType DEF TypeOK, Withdraw
    <3>2. pending' \subseteq Transfers
      <4>1. Transfer(nextReceipt, e, n, "withdrawal") \in Transfers
        BY DEF TypeOK, Transfer, Transfers
      <4>. QED
        BY <2>2, <4>1 DEF TypeOK, Withdraw
    <3>3. native' \in Int /\ nextReceipt' \in Nat
      BY <2>2 DEF TypeOK, Withdraw
    <3>. QED
      BY <2>2, <3>1, <3>2, <3>3 DEF TypeOK, Withdraw
  <2>3. ASSUME NEW c \in Account, NEW e \in Employer, NEW s \in Seeker,
               PayForProfile(c, e, s)
        PROVE  TypeOK'
    <3> DEFINE cost   == profile_view_cost
               record == [seeker_id |-> s, amount |-> cost]
               view   == [seeker_id |-> s, amount |-> cost, payer |-> c]
    <3>1. /\ cost \in Nat
          /\ SeekerShare(cost) \in Nat
          /\ PlatformShare(cost) \in Nat
      BY ShareBounds DEF TypeOK
    <3>2. balance' \in [Account -> Nat]
      BY <2>3, <3>1, DebitedType DEF TypeOK, PayForProfile
    <3>3. pending' \subseteq Transfers
      <4> DEFINE share == SeekerShare(cost)
                 fee   == PlatformShare(cost)
      <4>1. /\ Transfer(nextReceipt, s, share, "share") \in Transfers
            /\ Transfer(nextReceipt + 1, Owner, fee, "fee") \in Transfers
        BY <3>1 DEF TypeOK, Transfer, Transfers
      <4>. QED
        BY <2>3, <4>1 DEF TypeOK, PayForProfile
    <3>4. access_records' \in
              [Account -> Seq([seeker_id : Account, amount : Nat])]
      <4>1. access_records[e] \in Seq([seeker_id : Account, amount : Nat])
        BY DEF TypeOK
      <4>2. PushBounded(access_records[e], record) \in
                Seq([seeker_id : Account, amount : Nat])
        BY <3>1, <4>1, PushBoundedType
      <4>. QED
        BY <2>3, <4>2 DEF TypeOK, PayForProfile
    <3>5. history' \in
              [Account -> Seq([seeker_id : Account, amount : Nat,
                               payer : Account])]
      <4> DEFINE Views == [seeker_id : Account, amount : Nat,
                           payer : Account]
      <4>1. view \in Views /\ history[e] \in Seq(Views)
        BY <3>1 DEF TypeOK
      <4>2. Append(history[e], view) \in Seq(Views)
        BY <4>1
      <4>. QED
        BY <2>3, <4>2 DEF TypeOK, PayForProfile
    <3>6. seeker_earnings' \in
              [Account -> [view_count : Nat, total_earned : Nat]]
      <4> DEFINE Earnings == [view_count : Nat, total_earned : Nat]
      <4>1. seeker_earnings[s] \in Earnings
        BY DEF TypeOK
      <4>2. Earn(seeker_earnings[s], SeekerShare(cost)) \in Earnings
        BY <3>1, <4>1 DEF Earn
      <4>. QED
        BY <2>3, <4>2 DEF TypeOK, PayForProfile
    <3>7. native' \in Int
      BY <2>3, <3>1 DEF TypeOK, PayForProfile
    <3>8. nextReceipt' \in Nat
      BY <2>3 DEF TypeOK, PayForProfile
    <3>. QED
      BY <2>3, <3>2, <3>3, <3>4, <3>5, <3>6, <3>7, <3>8
         DEF TypeOK, PayForProfile
  <2>4. ASSUME NEW e \in Employer, NEW a \in Agent,
               AuthorizeAgent(e, a) \/ RevokeAgent(e, a)
        PROVE  TypeOK'
    <3>1. authorized_agents[e] \in SUBSET Account
      BY DEF TypeOK
    <3>2. authorized_agents' \in [Account -> SUBSET Account]
      <4>1. CASE AuthorizeAgent(e, a)
        BY <3>1, <4>1 DEF TypeOK, AuthorizeAgent
      <4>2. CASE RevokeAgent(e, a)
        BY <3>1, <4>2 DEF TypeOK, RevokeAgent
      <4>. QED
        BY <2>4, <4>1, <4>2
    <3>. QED
      BY <2>4, <3>2 DEF TypeOK, AuthorizeAgent, RevokeAgent, chainVars
  <2>5. ASSUME NEW c \in Account, NEW n \in Cost, SetProfileViewCost(c, n)
        PROVE  TypeOK'
    <3>1. profile_view_cost' \in Nat \ {0}
      BY <2>5 DEF SetProfileViewCost
    <3>. QED
      BY <2>5, <3>1 DEF TypeOK, SetProfileViewCost, chainVars
  <2>6. ASSUME NEW t \in pending, Deliver(t) \/ Bounce(t)
        PROVE  TypeOK'
    <3>1. t.to \in Account /\ t.amount \in Nat
      BY DEF TypeOK, Transfers
    <3>2. CASE Deliver(t)
      <4>1. wallet' \in [Account -> Nat]
        BY <3>1, <3>2, CreditedType DEF TypeOK, Deliver
      <4>2. pending' \subseteq Transfers
        BY <3>2 DEF TypeOK, Deliver
      <4>. QED
        BY <3>2, <4>1, <4>2 DEF TypeOK, Deliver, contractVars
    <3>3. CASE Bounce(t)
      <4>1. stranded' \in [Account -> Nat]
        BY <3>1, <3>3, CreditedType DEF TypeOK, Bounce
      <4>2. native' \in Int
        BY <3>1, <3>3 DEF TypeOK, Bounce
      <4>3. pending' \subseteq Transfers
        BY <3>3 DEF TypeOK, Bounce
      <4>. QED
        BY <3>3, <4>1, <4>2, <4>3 DEF TypeOK, Bounce, contractVars
    <3>. QED
      BY <2>6, <3>2, <3>3
  <2>7. CASE UNCHANGED vars
    BY <2>7 DEF TypeOK, vars, contractVars, chainVars
  <2>. QED
    BY <2>1, <2>2, <2>3, <2>4, <2>5, <2>6, <2>7 DEF Next
<1>. QED
  BY <1>1, <1>2, PTL DEF Spec

-----------------------------------------------------------------------------
\* Receipt ids are never reused: every pending transfer is older than the next.
ReceiptsNumbered == \A t \in pending : t.id < nextReceipt

\* Each action that issues transfers numbers them from nextReceipt upwards.
LEMMA ReceiptsNumberedInductive ==
    ASSUME TypeOK, ReceiptsNumbered, [Next]_vars
    PROVE  ReceiptsNumbered'
<1>1. \A t \in pending : t.id \in Nat /\ t.id < nextReceipt
  BY DEF TypeOK, Transfers, ReceiptsNumbered
<1>2. nextReceipt \in Nat
  BY DEF TypeOK
<1>3. ASSUME NEW e \in Employer, NEW n \in Amount, Withdraw(e, n)
      PROVE  ReceiptsNumbered'
  BY <1>1, <1>2, <1>3 DEF Withdraw, ReceiptsNumbered, Transfer
<1>4. ASSUME NEW c \in Account, NEW e \in Employer, NEW s \in Seeker,
             PayForProfile(c, e, s)
      PROVE  ReceiptsNumbered'
  <2> DEFINE share == SeekerShare(profile_view_cost)
             fee   == PlatformShare(profile_view_cost)
  <2>1. pending' = pending \cup
            {Transfer(nextReceipt, s, share, "share"),
             Transfer(nextReceipt + 1, Owner, fee, "fee")}
    BY <1>4 DEF PayForProfile
  <2>2. nextReceipt' = nextReceipt + 2
    BY <1>4 DEF PayForProfile
  <2>. QED
    BY <1>1, <1>2, <2>1, <2>2 DEF ReceiptsNumbered, Transfer
<1>5. CASE pending' \subseteq pending /\ UNCHANGED nextReceipt
  BY <1>1, <1>5 DEF ReceiptsNumbered
<1>. QED
  BY <1>3, <1>4, <1>5
     DEF Next, Deposit, AuthorizeAgent, RevokeAgent, SetProfileViewCost,
         Deliver, Bounce, vars, contractVars, chainVars

\* A withdrawal lowers its caller's balance only, by what its transfer carries.
LEMMA WithdrawSpends ==
    ASSUME TypeOK, ReceiptsNumbered, NEW e \in Employer, NEW n \in Amount,
           Withdraw(e, n), NEW a \in Account, balance'[a] < balance[a]
    PROVE  \E t \in pending' \ pending :
               t.to = a /\ t.amount = balance[a] - balance'[a]
<1> DEFINE transfer == Transfer(nextReceipt, e, n, "withdrawal")
<1>1. balance' = [balance EXCEPT ![e] = @ - n] /\ n \in Nat
  BY EscrowAssumption DEF Withdraw, Debited
<1>2. balance \in [Account -> Nat] /\ nextReceipt \in Nat
  BY DEF TypeOK
<1>3. a = e /\ n = balance[a] - balance'[a]
  BY <1>1, <1>2, EscrowAssumption
<1>4. transfer \in pending'
  BY DEF Withdraw
<1>5. transfer \notin pending
  BY <1>2 DEF ReceiptsNumbered, Transfer
<1>6. transfer.to = e /\ transfer.amount = n
  BY DEF Transfer
<1>. QED
  BY <1>3, <1>4, <1>5, <1>6

\* A paid view lowers one balance, by the price at that moment, and enters the
\* history under a caller who is the employer or one of its agents right then.
LEMMA ViewSpends ==
    ASSUME TypeOK, NEW c \in Account, NEW e \in Employer, NEW s \in Seeker,
           PayForProfile(c, e, s), NEW a \in Account, balance'[a] < balance[a]
    PROVE  /\ balance[a] - balance'[a] = profile_view_cost
           /\ Len(history'[a]) = Len(history[a]) + 1
           /\ LET payer == history'[a][Len(history'[a])].payer
              IN  payer = a \/ payer \in authorized_agents[a]
<1> DEFINE view == [seeker_id |-> s, amount |-> profile_view_cost,
                    payer |-> c]
           Views == [seeker_id : Account, amount : Nat, payer : Account]
<1>1. balance \in [Account -> Nat] /\ profile_view_cost \in Nat
  BY DEF TypeOK
<1>2. balance' = [balance EXCEPT ![e] = @ - profile_view_cost]
  BY DEF PayForProfile, Debited
<1>3. a = e /\ balance[a] - balance'[a] = profile_view_cost
  BY <1>1, <1>2, EscrowAssumption
<1>4. history[e] \in Seq(Views) /\ view \in Views
  BY <1>1, EscrowAssumption DEF TypeOK
<1>5. history'[e] = Append(history[e], view)
  BY EscrowAssumption DEF TypeOK, PayForProfile
<1>6. /\ Len(history'[e]) = Len(history[e]) + 1
      /\ history'[e][Len(history'[e])] = view
  BY <1>4, <1>5
<1>7. c = e \/ c \in authorized_agents[e]
  BY DEF PayForProfile, IsAuthorizedAgent
<1>. QED
  BY <1>3, <1>6, <1>7

\* Nobody's escrow is spent by somebody else: a balance goes down only by a
\* withdrawal to its employer, or by one view at the price in force, called
\* for by the employer or an agent authorised at that moment, however calls,
\* price changes, revocations and deliveries interleave.
THEOREM SpendingAuthorised == Spec => SpendAuthorised
<1> DEFINE
      Allowed(e) ==
          \/ \E t \in pending' \ pending :
                 t.to = e /\ t.amount = balance[e] - balance'[e]
          \/ /\ balance[e] - balance'[e] = profile_view_cost
             /\ Len(history'[e]) = Len(history[e]) + 1
             /\ LET payer == history'[e][Len(history'[e])].payer
                IN  payer = e \/ payer \in authorized_agents[e]
      Authorised ==
          \A e \in Account : balance'[e] < balance[e] => Allowed(e)
<1>1. Init => ReceiptsNumbered
  BY DEF Init, ReceiptsNumbered
<1>2. TypeOK /\ ReceiptsNumbered /\ [Next]_vars => ReceiptsNumbered'
  BY ReceiptsNumberedInductive
<1>3. TypeOK /\ ReceiptsNumbered /\ [Next]_vars => [Authorised]_vars
  <2> SUFFICES ASSUME TypeOK, ReceiptsNumbered, Next,
                      NEW a \in Account, balance'[a] < balance[a]
               PROVE  Allowed(a)
    OBVIOUS
  <2>1. ASSUME NEW e \in Employer, NEW n \in Amount, Withdraw(e, n)
        PROVE  Allowed(a)
    BY <2>1, WithdrawSpends
  <2>2. ASSUME NEW c \in Account, NEW e \in Employer, NEW s \in Seeker,
               PayForProfile(c, e, s)
        PROVE  Allowed(a)
    BY <2>2, ViewSpends
  <2>3. ASSUME NEW e \in Employer, NEW n \in Amount, Deposit(e, n)
        PROVE  FALSE
    <3>1. balance' = [balance EXCEPT ![e] = @ + n]
      BY <2>3 DEF Deposit
    <3>2. balance \in [Account -> Nat] /\ n \in Nat
      BY EscrowAssumption DEF TypeOK
    <3>. QED
      BY <3>1, <3>2
  <2>4. CASE UNCHANGED balance
    <3>1. balance[a] \in Nat
      BY DEF TypeOK
    <3>. QED
      BY <2>4, <3>1
  <2> HIDE DEF Allowed
  <2>. QED
    BY <2>1, <2>2, <2>3, <2>4
       DEF Next, AuthorizeAgent, RevokeAgent, SetProfileViewCost, Deliver,
           Bounce, contractVars
<1>. QED
  BY <1>1, <1>2, <1>3, TypeCorrect, PTL DEF Spec, SpendAuthorised

-----------------------------------------------------------------------------
\* Sums over the accounts and over transfers.

\* A total of integers is an integer, and follows a change of one entry.
LEMMA TotalChange ==
    ASSUME NEW f \in [Account -> Int], NEW g \in [Account -> Int],
           NEW a \in Account, NEW d \in Int,
           g[a] = f[a] + d, \A b \in Account \ {a} : g[b] = f[b]
    PROVE  TotalOf(f) \in Int /\ TotalOf(g) = TotalOf(f) + d
BY EscrowAssumption, SumChange, SumInt DEF TotalOf

\* The same for an entry of naturals that is raised or lowered.
LEMMA TotalRaised ==
    ASSUME NEW f \in [Account -> Nat], NEW a \in Account, NEW d \in Nat
    PROVE  TotalOf([f EXCEPT ![a] = @ + d]) = TotalOf(f) + d
<1> DEFINE g == [f EXCEPT ![a] = @ + d]
<1>1. /\ f \in [Account -> Int] /\ g \in [Account -> Int] /\ d \in Int
      /\ g[a] = f[a] + d /\ \A b \in Account \ {a} : g[b] = f[b]
  OBVIOUS
<1> HIDE DEF g
<1>2. TotalOf(g) = TotalOf(f) + d
  BY <1>1, TotalChange
<1>. QED
  BY <1>2 DEF g

LEMMA TotalLowered ==
    ASSUME NEW f \in [Account -> Nat], NEW a \in Account, NEW d \in Nat
    PROVE  TotalOf([f EXCEPT ![a] = @ - d]) = TotalOf(f) - d
<1> DEFINE g == [f EXCEPT ![a] = @ - d]
<1>1. /\ f \in [Account -> Int] /\ g \in [Account -> Int] /\ - d \in Int
      /\ g[a] = f[a] + (- d) /\ \A b \in Account \ {a} : g[b] = f[b]
  OBVIOUS
<1> HIDE DEF g
<1>2. TotalOf(g) = TotalOf(f) + (- d) /\ TotalOf(f) \in Int
  BY <1>1, TotalChange
<1>. QED
  BY <1>2 DEF g

LEMMA TotalInt ==
    ASSUME NEW f \in [Account -> Int]
    PROVE  TotalOf(f) \in Int
BY EscrowAssumption, SumInt DEF TotalOf

LEMMA TotalNat ==
    ASSUME NEW f \in [Account -> Nat]
    PROVE  TotalOf(f) \in Nat /\ \A a \in Account : f[a] <= TotalOf(f)
BY EscrowAssumption, SumNat DEF TotalOf

LEMMA TotalZero == TotalOf([a \in Account |-> 0]) = 0
BY EscrowAssumption, SumZero DEF TotalOf

\* What is in transit is a natural number, and one more transfer adds its
\* amount.
LEMMA TransitNat ==
    ASSUME NEW S \in SUBSET Transfers, IsFiniteSet(S)
    PROVE  InTransit(S) \in Nat
<1>1. \A t \in S : AmountOf(S)[t] \in Nat
  BY DEF AmountOf, Transfers
<1>. QED
  BY <1>1, SumNat DEF InTransit

LEMMA TransitAdd ==
    ASSUME NEW S \in SUBSET Transfers, IsFiniteSet(S),
           NEW t \in Transfers, t \notin S
    PROVE  InTransit(S \cup {t}) = InTransit(S) + t.amount
<1> DEFINE T == S \cup {t}
<1>1. \A u \in T : AmountOf(T)[u] \in Int
  BY DEF AmountOf, Transfers
<1>2. \A u \in S : AmountOf(T)[u] = AmountOf(S)[u]
  BY DEF AmountOf
<1>3. AmountOf(T)[t] = t.amount
  BY DEF AmountOf
<1>4. SumFunctionOnSet(AmountOf(T), T) =
          SumFunctionOnSet(AmountOf(T), S) + AmountOf(T)[t]
  BY <1>1, SumAdd
<1>5. SumFunctionOnSet(AmountOf(T), S) = SumFunctionOnSet(AmountOf(S), S)
  BY <1>2, SumSame
<1>. QED
  BY <1>3, <1>4, <1>5 DEF InTransit

LEMMA TransitEmpty == InTransit({}) = 0
BY SumEmpty DEF InTransit

LEMMA TransitRemove ==
    ASSUME NEW S \in SUBSET Transfers, IsFiniteSet(S), NEW t \in S
    PROVE  InTransit(S \ {t}) = InTransit(S) - t.amount
<1> DEFINE R == S \ {t}
<1>1. R \in SUBSET Transfers /\ IsFiniteSet(R) /\ t \notin R /\ t \in Transfers
  BY FS_Subset
<1>2. R \cup {t} = S
  OBVIOUS
<1> HIDE DEF R
<1>3. InTransit(S) = InTransit(R) + t.amount
  BY <1>1, <1>2, TransitAdd
<1>4. InTransit(R) \in Nat /\ t.amount \in Nat
  BY <1>1, TransitNat DEF Transfers
<1>. QED
  BY <1>3, <1>4 DEF R

-----------------------------------------------------------------------------
\* The contract's own NEAR moves with the sums of balances and refunds.
LEMMA SolventInductive ==
    ASSUME TypeOK, Solvent, [Next]_vars
    PROVE  Solvent'
<1> USE EscrowAssumption
<1>1. /\ balance \in [Account -> Nat] /\ stranded \in [Account -> Nat]
      /\ profile_view_cost \in Nat
  BY DEF TypeOK
<1>2. /\ native \in Int /\ InitialNative \in Int
      /\ TotalOf(balance) \in Int /\ TotalOf(stranded) \in Int
      /\ native = InitialNative + TotalOf(balance) + TotalOf(stranded)
  BY <1>1, TotalNat DEF TypeOK, Solvent
<1>3. ASSUME NEW e \in Employer, NEW n \in Amount, Deposit(e, n)
      PROVE  Solvent'
  <2>1. native' = native + n /\ UNCHANGED stranded
    BY <1>3 DEF Deposit
  <2>2. /\ e \in Account /\ n \in Nat
        /\ balance' = [balance EXCEPT ![e] = @ + n]
    BY <1>3 DEF Deposit
  <2>3. TotalOf(balance') = TotalOf(balance) + n
    BY <1>1, <2>2, TotalRaised
  <2>. QED
    BY <1>2, <2>1, <2>2, <2>3 DEF Solvent
<1>4. ASSUME NEW e \in Employer, NEW n \in Amount, Withdraw(e, n)
      PROVE  Solvent'
  <2>1. native' = native - n /\ UNCHANGED stranded
    BY <1>4 DEF Withdraw
  <2>2. /\ e \in Account /\ n \in Nat
        /\ balance' = [balance EXCEPT ![e] = @ - n]
    BY <1>4 DEF Withdraw, Debited
  <2>3. TotalOf(balance') = TotalOf(balance) - n
    BY <1>1, <2>2, TotalLowered
  <2>. QED
    BY <1>2, <2>1, <2>2, <2>3 DEF Solvent
<1>5. ASSUME NEW c \in Account, NEW e \in Employer, NEW s \in Seeker,
             PayForProfile(c, e, s)
      PROVE  Solvent'
  <2> DEFINE cost == profile_view_cost
  <2>1. native' = native - cost /\ UNCHANGED stranded
    BY <1>1, <1>5, ShareBounds DEF PayForProfile
  <2>2. TotalOf(balance') = TotalOf(balance) - cost
    BY <1>1, <1>5, TotalLowered DEF PayForProfile, Debited
  <2>. QED
    BY <1>1, <1>2, <2>1, <2>2 DEF Solvent
<1>6. ASSUME NEW t \in pending, Bounce(t)
      PROVE  Solvent'
  <2>1. t.to \in Account /\ t.amount \in Nat
    BY DEF TypeOK, Transfers
  <2>2. native' = native + t.amount /\ UNCHANGED balance
    BY <1>6 DEF Bounce, contractVars
  <2>3. TotalOf(stranded') = TotalOf(stranded) + t.amount
    BY <1>1, <1>6, <2>1, TotalRaised DEF Bounce
  <2>. QED
    BY <1>2, <2>1, <2>2, <2>3 DEF Solvent
<1>7. CASE UNCHANGED <<native, balance, stranded>>
  BY <1>7 DEF Solvent
<1>. QED
  BY <1>3, <1>4, <1>5, <1>6, <1>7
     DEF Next, AuthorizeAgent, RevokeAgent, SetProfileViewCost, Deliver,
         vars, contractVars, chainVars

\* The contract can always pay what it owes: its NEAR is what it was deployed
\* with, all balances and the refunds of payments that failed, for any number
\* of accounts and of transfers on their way.
THEOREM AlwaysSolvent == Spec => []Solvent
<1>1. Init => Solvent
  BY EscrowAssumption, TotalZero DEF Init, Solvent
<1>2. TypeOK /\ Solvent /\ [Next]_vars => Solvent'
  BY SolventInductive
<1>. QED
  BY <1>1, <1>2, TypeCorrect, PTL DEF Spec

-----------------------------------------------------------------------------
\* Only finitely many transfers are pending: each call issues at most two.
PendingFinite == IsFiniteSet(pending)

LEMMA PendingFiniteInductive ==
    ASSUME PendingFinite, [Next]_vars
    PROVE  PendingFinite'
<1>1. ASSUME NEW e \in Employer, NEW n \in Amount, Withdraw(e, n)
      PROVE  PendingFinite'
  BY <1>1, FS_AddElement DEF Withdraw, PendingFinite
<1>2. ASSUME NEW c \in Account, NEW e \in Employer, NEW s \in Seeker,
             PayForProfile(c, e, s)
      PROVE  PendingFinite'
  <2>1. PICK t, u : pending' = pending \cup {t, u}
    BY <1>2 DEF PayForProfile
  <2>2. pending' = (pending \cup {t}) \cup {u}
    BY <2>1
  <2>. QED
    BY <2>2, FS_AddElement DEF PendingFinite
<1>3. CASE pending' \subseteq pending
  BY <1>3, FS_Subset DEF PendingFinite
<1>. QED
  BY <1>1, <1>2, <1>3
     DEF Next, Deposit, AuthorizeAgent, RevokeAgent, SetProfileViewCost,
         Deliver, Bounce, vars, contractVars, chainVars

\* What holds of the receipts whatever else happens.
ReceiptsInv == TypeOK /\ ReceiptsNumbered /\ PendingFinite

LEMMA ReceiptsInvariant == Spec => []ReceiptsInv
<1>1. Init => ReceiptsNumbered /\ PendingFinite
  BY FS_EmptySet DEF Init, ReceiptsNumbered, PendingFinite
<1>2. TypeOK /\ ReceiptsNumbered /\ PendingFinite /\ [Next]_vars
          => ReceiptsNumbered' /\ PendingFinite'
  BY ReceiptsNumberedInductive, PendingFiniteInductive
<1>. QED
  BY <1>1, <1>2, TypeCorrect, PTL DEF Spec, ReceiptsInv

\* The transfer a withdrawal issues, and the two a paid view issues.
Withdrawal(e, n) == Transfer(nextReceipt, e, n, "withdrawal")
ShareOf(s) ==
    Transfer(nextReceipt, s, SeekerShare(profile_view_cost), "share")
FeeOfView ==
    Transfer(nextReceipt + 1, Owner, PlatformShare(profile_view_cost), "fee")

LEMMA WithdrawIssues ==
    ASSUME ReceiptsInv, NEW e \in Employer, NEW n \in Amount, Withdraw(e, n)
    PROVE  /\ Withdrawal(e, n) \in Transfers \ pending
           /\ Withdrawal(e, n).to = e /\ Withdrawal(e, n).amount = n
           /\ pending' = pending \cup {Withdrawal(e, n)}
<1>1. nextReceipt \in Nat /\ e \in Account /\ n \in Nat
  BY EscrowAssumption DEF ReceiptsInv, TypeOK
<1>. QED
  BY <1>1 DEF ReceiptsInv, ReceiptsNumbered, Withdraw, Withdrawal, Transfer,
              Transfers

LEMMA ViewIssues ==
    ASSUME ReceiptsInv, NEW c \in Account, NEW e \in Employer,
           NEW s \in Seeker, PayForProfile(c, e, s)
    PROVE  /\ ShareOf(s) \in Transfers \ pending
           /\ ShareOf(s).to = s
           /\ ShareOf(s).amount = SeekerShare(profile_view_cost)
           /\ FeeOfView \in Transfers \ (pending \cup {ShareOf(s)})
           /\ FeeOfView.to = Owner
           /\ FeeOfView.amount = PlatformShare(profile_view_cost)
           /\ pending' = (pending \cup {ShareOf(s)}) \cup {FeeOfView}
<1>1. nextReceipt \in Nat /\ s \in Account /\ Owner \in Account
  BY EscrowAssumption DEF ReceiptsInv, TypeOK
<1>2. /\ SeekerShare(profile_view_cost) \in Nat
      /\ PlatformShare(profile_view_cost) \in Nat
  BY ShareBounds DEF ReceiptsInv, TypeOK
<1>3. ShareOf(s) \in Transfers /\ FeeOfView \in Transfers
  BY <1>1, <1>2 DEF ShareOf, FeeOfView, Transfer, Transfers
<1>4. ShareOf(s).id = nextReceipt /\ FeeOfView.id = nextReceipt + 1
  BY DEF ShareOf, FeeOfView, Transfer
<1>5. \A t \in pending : t.id \in Nat /\ t.id < nextReceipt
  BY DEF ReceiptsInv, ReceiptsNumbered, TypeOK, Transfers
<1>6. ShareOf(s) \notin pending /\ FeeOfView \notin pending \cup {ShareOf(s)}
  BY <1>1, <1>4, <1>5
<1>7. pending' = (pending \cup {ShareOf(s)}) \cup {FeeOfView}
  BY DEF PayForProfile, ShareOf, FeeOfView
<1>8. /\ ShareOf(s).to = s
      /\ ShareOf(s).amount = SeekerShare(profile_view_cost)
      /\ FeeOfView.to = Owner
      /\ FeeOfView.amount = PlatformShare(profile_view_cost)
  BY DEF ShareOf, FeeOfView, Transfer
<1>. QED
  BY <1>3, <1>6, <1>7, <1>8

-----------------------------------------------------------------------------
\* No NEAR appears or disappears: what the contract, all other accounts and
\* the transfers on their way hold is what there was at first.
Conserved == native + TotalOf(wallet) + InTransit(pending) = Supply

LEMMA ConservedInductive ==
    ASSUME ReceiptsInv, Conserved, [Next]_vars
    PROVE  Conserved'
<1> USE EscrowAssumption
<1>1. /\ wallet \in [Account -> Nat] /\ profile_view_cost \in Nat
      /\ pending \in SUBSET Transfers /\ IsFiniteSet(pending)
  BY DEF ReceiptsInv, TypeOK, PendingFinite
<1>2. /\ native \in Int /\ Supply \in Int
      /\ TotalOf(wallet) \in Int /\ InTransit(pending) \in Int
      /\ native + TotalOf(wallet) + InTransit(pending) = Supply
  <2>1. TotalOf(InitialWallet) \in Nat /\ TotalOf(wallet) \in Nat
    BY <1>1, TotalNat
  <2>2. InTransit(pending) \in Nat
    BY <1>1, TransitNat
  <2>. QED
    BY <2>1, <2>2 DEF ReceiptsInv, TypeOK, Conserved, Supply
<1>3. ASSUME native' + TotalOf(wallet') + InTransit(pending') = Supply
      PROVE  Conserved'
  BY <1>3 DEF Conserved, Supply, TotalOf, InTransit, AmountOf
<1>4. ASSUME NEW e \in Employer, NEW n \in Amount, Deposit(e, n)
      PROVE  Conserved'
  <2>1. native' = native + n /\ UNCHANGED pending
    BY <1>4 DEF Deposit
  <2>2. /\ e \in Account /\ n \in Nat
        /\ wallet' = [wallet EXCEPT ![e] = @ - n]
    BY <1>4 DEF Deposit
  <2>3. TotalOf(wallet') = TotalOf(wallet) - n
    BY <1>1, <2>2, TotalLowered
  <2>4. InTransit(pending') = InTransit(pending)
    BY <2>1
  <2>. QED
    BY <1>2, <1>3, <2>1, <2>2, <2>3, <2>4
<1>5. ASSUME NEW e \in Employer, NEW n \in Amount, Withdraw(e, n)
      PROVE  Conserved'
  <2>1. native' = native - n /\ UNCHANGED wallet /\ n \in Nat
    BY <1>5 DEF Withdraw
  <2>2. InTransit(pending') = InTransit(pending) + n
    BY <1>1, <1>5, WithdrawIssues, TransitAdd
  <2>. QED
    BY <1>2, <1>3, <2>1, <2>2
<1>6. ASSUME NEW c \in Account, NEW e \in Employer, NEW s \in Seeker,
             PayForProfile(c, e, s)
      PROVE  Conserved'
  <2> DEFINE share == SeekerShare(profile_view_cost)
             fee   == PlatformShare(profile_view_cost)
             first == pending \cup {ShareOf(s)}
  <2>1. native' = native - (share + fee) /\ UNCHANGED wallet
    BY <1>6 DEF PayForProfile
  <2>2. share \in Nat /\ fee \in Nat
    BY <1>1, ShareBounds
  <2>3. /\ ShareOf(s) \in Transfers \ pending /\ ShareOf(s).amount = share
        /\ FeeOfView \in Transfers \ first /\ FeeOfView.amount = fee
        /\ pending' = first \cup {FeeOfView}
    BY <1>6, ViewIssues
  <2>4. first \in SUBSET Transfers /\ IsFiniteSet(first)
    BY <1>1, <2>3, FS_AddElement
  <2>5. InTransit(first) = InTransit(pending) + share
    BY <1>1, <2>3, TransitAdd
  <2> HIDE DEF first
  <2>6. InTransit(pending') = InTransit(first) + fee
    BY <2>3, <2>4, TransitAdd
  <2>. QED
    BY <1>2, <1>3, <2>1, <2>2, <2>5, <2>6
<1>7. ASSUME NEW t \in pending, Deliver(t) \/ Bounce(t)
      PROVE  Conserved'
  <2>1. t.to \in Account /\ t.amount \in Nat
    BY <1>1 DEF Transfers
  <2>2. InTransit(pending') = InTransit(pending) - t.amount
    BY <1>1, <1>7, TransitRemove DEF Deliver, Bounce
  <2>3. CASE Deliver(t)
    <3>1. TotalOf(wallet') = TotalOf(wallet) + t.amount
      BY <1>1, <2>1, <2>3, TotalRaised DEF Deliver
    <3>. QED
      BY <1>2, <1>3, <2>1, <2>2, <2>3, <3>1 DEF Deliver
  <2>4. CASE Bounce(t)
    BY <1>2, <1>3, <2>1, <2>2, <2>4 DEF Bounce
  <2>. QED
    BY <1>7, <2>3, <2>4
<1>8. CASE UNCHANGED <<native, wallet, pending>>
  BY <1>2, <1>3, <1>8
<1>. QED
  BY <1>4, <1>5, <1>6, <1>7, <1>8
     DEF Next, AuthorizeAgent, RevokeAgent, SetProfileViewCost,
         vars, contractVars, chainVars

LEMMA SupplyConserved == Spec => []Conserved
<1>1. Init => Conserved
  <2> SUFFICES ASSUME Init PROVE Conserved
    OBVIOUS
  <2>1. native = InitialNative /\ wallet = InitialWallet /\ pending = {}
    BY DEF Init
  <2>2. InTransit(pending) = 0
    BY <2>1, TransitEmpty
  <2>3. TotalOf(wallet) \in Nat /\ InitialNative \in Nat
    BY <2>1, EscrowAssumption, TotalNat
  <2>. QED
    BY <2>1, <2>2, <2>3 DEF Conserved, Supply
<1>2. ReceiptsInv /\ Conserved /\ [Next]_vars => Conserved'
  BY ConservedInductive
<1>. QED
  BY <1>1, <1>2, ReceiptsInvariant, PTL DEF Spec

\* Nobody can hold more than there is, in the escrow and outside of it together.
LEMMA HoldingsBounded ==
    ASSUME ReceiptsInv, Solvent, Conserved, NEW e \in Account
    PROVE  balance[e] + wallet[e] <= Supply
<1>1. /\ balance \in [Account -> Nat] /\ wallet \in [Account -> Nat]
      /\ stranded \in [Account -> Nat] /\ native \in Int
      /\ pending \in SUBSET Transfers /\ IsFiniteSet(pending)
  BY DEF ReceiptsInv, TypeOK, PendingFinite
<1>2. /\ TotalOf(balance) \in Nat /\ balance[e] <= TotalOf(balance)
      /\ TotalOf(wallet) \in Nat /\ wallet[e] <= TotalOf(wallet)
      /\ TotalOf(stranded) \in Nat /\ InTransit(pending) \in Nat
  BY <1>1, TotalNat, TransitNat
<1>3. TotalOf(InitialWallet) \in Nat /\ InitialNative \in Nat
  BY EscrowAssumption, TotalNat
<1>4. balance[e] \in Nat /\ wallet[e] \in Nat
  BY <1>1
<1>. QED
  BY <1>1, <1>2, <1>3, <1>4 DEF Solvent, Conserved, Supply

\* While 80 times all NEAR there is fits a u128, the check of deposit and that
\* of the multiplication in pay_for_profile refuse no call its caller can pay
\* for; the addition of earnings refuses none until the seeker's running
\* total comes within a supply of the largest u128.
THEOREM OverflowNeverRefuses == Spec => []NoOverflowAbort
<1>1. ReceiptsInv /\ Solvent /\ Conserved => NoOverflowAbort
  <2> SUFFICES ASSUME ReceiptsInv, Solvent, Conserved, NEW e \in Account,
                      Supply * 80 \in 0 .. U128Max
               PROVE  /\ balance[e] + wallet[e] \in 0 .. U128Max
                      /\ balance[e] >= profile_view_cost =>
                           /\ profile_view_cost * 80 \in 0 .. U128Max
                           /\ \A s \in Account :
                                LET earned == seeker_earnings[s].total_earned
                                IN  earned + Supply \in 0 .. U128Max =>
                                      earned + SeekerShare(profile_view_cost)
                                          \in 0 .. U128Max
    BY DEF NoOverflowAbort, FitsU128, ShareProduct, SEEKER_SHARE_PERCENT
  <2>1. balance[e] + wallet[e] <= Supply
    BY HoldingsBounded
  <2>2. /\ balance[e] \in Nat /\ wallet[e] \in Nat
        /\ profile_view_cost \in Nat
    BY DEF ReceiptsInv, TypeOK
  <2>3. Supply \in Int /\ U128Max \in Int
    BY EscrowAssumption, TotalNat DEF Supply
  <2>4. /\ SeekerShare(profile_view_cost) \in Nat
        /\ SeekerShare(profile_view_cost) <= profile_view_cost
    BY <2>2 DEF SeekerShare, ShareProduct, SEEKER_SHARE_PERCENT
  <2>5. \A s \in Account : seeker_earnings[s].total_earned \in Nat
    BY DEF ReceiptsInv, TypeOK
  <2>6. CASE balance[e] >= profile_view_cost
    <3>1. profile_view_cost <= Supply
      BY <2>1, <2>2, <2>3, <2>6
    <3>2. profile_view_cost * 80 \in 0 .. U128Max
      BY <2>2, <2>3, <3>1
    <3>3. ASSUME NEW s \in Account,
                 seeker_earnings[s].total_earned + Supply \in 0 .. U128Max
          PROVE  seeker_earnings[s].total_earned
                     + SeekerShare(profile_view_cost) \in 0 .. U128Max
      BY <2>2, <2>3, <2>4, <2>5, <3>1, <3>3
    <3>. QED
      BY <2>1, <2>2, <2>3, <3>2, <3>3
  <2>. QED
    BY <2>1, <2>2, <2>3, <2>6
<1>. QED
  BY <1>1, ReceiptsInvariant, AlwaysSolvent, SupplyConserved, PTL

-----------------------------------------------------------------------------
\* What one more paid view does to the sums over the history.

PaidViews == [seeker_id : Account, amount : Nat, payer : Account]

\* A sum over a history grows by the term of the view that was appended.
LEMMA SumAppended ==
    ASSUME NEW h \in Seq(PaidViews), NEW v \in PaidViews, NEW f, NEW g,
           DOMAIN f = DOMAIN h, DOMAIN g = DOMAIN Append(h, v),
           \A i \in DOMAIN h : f[i] \in Int /\ g[i] = f[i],
           g[Len(h) + 1] \in Int
    PROVE  /\ SumFunction(f) \in Int
           /\ SumFunction(g) = SumFunction(f) + g[Len(h) + 1]
<1>1. /\ Len(h) \in Nat /\ DOMAIN h = 1 .. Len(h)
      /\ DOMAIN Append(h, v) = 1 .. Len(h) + 1
  OBVIOUS
<1>. QED
  BY <1>1, SumNext DEF SumFunction

\* The terms of a view that was appended, and those of the views before it.
LEMMA TermsAppended ==
    ASSUME NEW h \in Seq(PaidViews), NEW v \in PaidViews, NEW a \in Account
    PROVE  /\ SumFunction(Prices(Append(h, v))) =
                  SumFunction(Prices(h)) + v.amount
           /\ SumFunction(Shares(Append(h, v), a)) =
                  SumFunction(Shares(h, a)) +
                      (IF v.seeker_id = a THEN SeekerShare(v.amount) ELSE 0)
           /\ SumFunction(Counts(Append(h, v), a)) =
                  SumFunction(Counts(h, a)) +
                      (IF v.seeker_id = a THEN 1 ELSE 0)
           /\ SumFunction(Fees(Append(h, v))) =
                  SumFunction(Fees(h)) + PlatformShare(v.amount)
<1> DEFINE w == Append(h, v)
           n == Len(h) + 1
<1>1. /\ n \in DOMAIN w /\ w[n] = v
      /\ \A i \in DOMAIN h : i \in DOMAIN w /\ w[i] = h[i] /\ h[i] \in PaidViews
  OBVIOUS
<1>2. \A x \in PaidViews : /\ x.amount \in Nat
                           /\ SeekerShare(x.amount) \in Nat
                           /\ PlatformShare(x.amount) \in Nat
  BY ShareBounds DEF PaidViews
<1> HIDE DEF w, n
<1>3. SumFunction(Prices(w)) = SumFunction(Prices(h)) + v.amount
  <2>1. /\ DOMAIN Prices(h) = DOMAIN h /\ DOMAIN Prices(w) = DOMAIN w
        /\ \A i \in DOMAIN h : /\ Prices(h)[i] \in Int
                               /\ Prices(w)[i] = Prices(h)[i]
        /\ Prices(w)[n] = v.amount /\ v.amount \in Int
    BY <1>1, <1>2 DEF Prices
  <2>. QED
    BY <2>1, SumAppended DEF w, n
<1>4. SumFunction(Shares(w, a)) =
          SumFunction(Shares(h, a)) +
              (IF v.seeker_id = a THEN SeekerShare(v.amount) ELSE 0)
  <2> DEFINE d == IF v.seeker_id = a THEN SeekerShare(v.amount) ELSE 0
  <2>1. /\ DOMAIN Shares(h, a) = DOMAIN h /\ DOMAIN Shares(w, a) = DOMAIN w
        /\ \A i \in DOMAIN h : /\ Shares(h, a)[i] \in Int
                               /\ Shares(w, a)[i] = Shares(h, a)[i]
        /\ Shares(w, a)[n] = d /\ d \in Int
    BY <1>1, <1>2 DEF Shares
  <2> HIDE DEF d
  <2>2. SumFunction(Shares(w, a)) = SumFunction(Shares(h, a)) + d
    BY <2>1, SumAppended DEF w, n
  <2>. QED
    BY <2>2 DEF d
<1>5. SumFunction(Counts(w, a)) =
          SumFunction(Counts(h, a)) + (IF v.seeker_id = a THEN 1 ELSE 0)
  <2> DEFINE d == IF v.seeker_id = a THEN 1 ELSE 0
  <2>1. /\ DOMAIN Counts(h, a) = DOMAIN h /\ DOMAIN Counts(w, a) = DOMAIN w
        /\ \A i \in DOMAIN h : /\ Counts(h, a)[i] \in Int
                               /\ Counts(w, a)[i] = Counts(h, a)[i]
        /\ Counts(w, a)[n] = d /\ d \in Int
    BY <1>1 DEF Counts
  <2> HIDE DEF d
  <2>2. SumFunction(Counts(w, a)) = SumFunction(Counts(h, a)) + d
    BY <2>1, SumAppended DEF w, n
  <2>. QED
    BY <2>2 DEF d
<1>6. SumFunction(Fees(w)) = SumFunction(Fees(h)) + PlatformShare(v.amount)
  <2>1. /\ DOMAIN Fees(h) = DOMAIN h /\ DOMAIN Fees(w) = DOMAIN w
        /\ \A i \in DOMAIN h : /\ Fees(h)[i] \in Int
                               /\ Fees(w)[i] = Fees(h)[i]
        /\ Fees(w)[n] = PlatformShare(v.amount)
        /\ PlatformShare(v.amount) \in Int
    BY <1>1, <1>2 DEF Fees
  <2>. QED
    BY <2>1, SumAppended DEF w, n
<1>. QED
  BY <1>3, <1>4, <1>5, <1>6 DEF w

\* Every sum over a history is an integer.
LEMMA TermsInt ==
    ASSUME NEW h \in Seq(PaidViews), NEW a \in Account
    PROVE  /\ SumFunction(Prices(h)) \in Int
           /\ SumFunction(Shares(h, a)) \in Int
           /\ SumFunction(Counts(h, a)) \in Int
           /\ SumFunction(Fees(h)) \in Int
<1>1. IsFiniteSet(DOMAIN h)
  BY FS_Interval, DOMAIN h = 1 .. Len(h), Len(h) \in Nat
<1>2. \A i \in DOMAIN h : /\ h[i].amount \in Nat
                          /\ SeekerShare(h[i].amount) \in Nat
                          /\ PlatformShare(h[i].amount) \in Nat
  <2>1. ASSUME NEW i \in DOMAIN h
        PROVE  h[i].amount \in Nat
    <3>1. h[i] \in PaidViews
      OBVIOUS
    <3>. QED
      BY <3>1 DEF PaidViews
  <2>. QED
    BY <2>1, ShareBounds
<1>3. /\ DOMAIN Prices(h) = DOMAIN h /\ DOMAIN Shares(h, a) = DOMAIN h
      /\ DOMAIN Counts(h, a) = DOMAIN h /\ DOMAIN Fees(h) = DOMAIN h
      /\ \A i \in DOMAIN h : /\ Prices(h)[i] \in Int
                             /\ Shares(h, a)[i] \in Int
                             /\ Counts(h, a)[i] \in Int
                             /\ Fees(h)[i] \in Int
  BY <1>2 DEF Prices, Shares, Counts, Fees
<1>. QED
  BY <1>1, <1>3, SumInt DEF SumFunction

\* A paid view raises its employer's charges, its seeker's earnings and views,
\* and the owner's fees, and nobody else's.
LEMMA ViewCounted ==
    ASSUME TypeOK, NEW c \in Account, NEW e \in Employer, NEW s \in Seeker,
           PayForProfile(c, e, s), NEW a \in Account
    PROVE  /\ ChargedTo(a)' =
                  ChargedTo(a) + (IF a = e THEN profile_view_cost ELSE 0)
           /\ EarnedBy(a)' =
                  EarnedBy(a) +
                      (IF s = a THEN SeekerShare(profile_view_cost) ELSE 0)
           /\ ViewsOf(a)' = ViewsOf(a) + (IF s = a THEN 1 ELSE 0)
           /\ FeesTo(a)' =
                  FeesTo(a) +
                    (IF a = Owner THEN PlatformShare(profile_view_cost) ELSE 0)
<1> DEFINE cost == profile_view_cost
           view == [seeker_id |-> s, amount |-> cost, payer |-> c]
<1>1. /\ history \in [Account -> Seq(PaidViews)] /\ cost \in Nat
      /\ e \in Account /\ s \in Account
  BY EscrowAssumption DEF TypeOK, PaidViews
<1>2. /\ view \in PaidViews /\ view.amount = cost /\ view.seeker_id = s
      /\ history' = [history EXCEPT ![e] = Append(@, view)]
  BY <1>1 DEF PayForProfile, PaidViews
<1> HIDE DEF view, cost
<1>3. /\ DOMAIN history' = Account
      /\ history[e] \in Seq(PaidViews) /\ history'[e] = Append(history[e], view)
      /\ \A x \in Account \ {e} : history'[x] = history[x]
  BY <1>1, <1>2
<1>4. history' \in [Account -> Seq(PaidViews)]
  BY <1>1, <1>2, <1>3
<1>5. SeekerShare(cost) \in Nat /\ PlatformShare(cost) \in Nat
  BY <1>1, ShareBounds
<1>6. ChargedTo(a)' = ChargedTo(a) + (IF a = e THEN cost ELSE 0)
  <2>1. SumFunction(Prices(history[a])) \in Int
    BY <1>1, TermsInt
  <2>2. SumFunction(Prices(history'[a])) =
            SumFunction(Prices(history[a])) + (IF a = e THEN cost ELSE 0)
    BY <1>2, <1>3, <2>1, TermsAppended
  <2>. QED
    BY <2>2 DEF ChargedTo, Prices, SumFunction
<1>7. EarnedBy(a)' = EarnedBy(a) + (IF s = a THEN SeekerShare(cost) ELSE 0)
  <2> DEFINE F == [x \in Account |-> SumFunction(Shares(history[x], a))]
             G == [x \in Account |-> SumFunction(Shares(history'[x], a))]
             d == IF s = a THEN SeekerShare(cost) ELSE 0
  <2>1. F \in [Account -> Int] /\ G \in [Account -> Int] /\ d \in Int
    <3>1. d \in Int
      BY <1>5
    <3> HIDE DEF d
    <3>. QED
      BY <1>1, <1>4, <3>1, TermsInt
  <2>2. G[e] = F[e] + d
    BY <1>1, <1>2, <1>3, TermsAppended
  <2>3. \A x \in Account \ {e} : G[x] = F[x]
    BY <1>3
  <2> HIDE DEF F, G, d
  <2>4. TotalOf(G) = TotalOf(F) + d
    BY <1>1, <2>1, <2>2, <2>3, TotalChange
  <2>. QED
    BY <2>4 DEF EarnedBy, F, G, d, TotalOf, Shares, SumFunction,
                SeekerShare, ShareProduct
<1>8. ViewsOf(a)' = ViewsOf(a) + (IF s = a THEN 1 ELSE 0)
  <2> DEFINE F == [x \in Account |-> SumFunction(Counts(history[x], a))]
             G == [x \in Account |-> SumFunction(Counts(history'[x], a))]
             d == IF s = a THEN 1 ELSE 0
  <2>1. F \in [Account -> Int] /\ G \in [Account -> Int] /\ d \in Int
    <3>1. d \in Int
      BY <1>5
    <3> HIDE DEF d
    <3>. QED
      BY <1>1, <1>4, <3>1, TermsInt
  <2>2. G[e] = F[e] + d
    BY <1>1, <1>2, <1>3, TermsAppended
  <2>3. \A x \in Account \ {e} : G[x] = F[x]
    BY <1>3
  <2> HIDE DEF F, G, d
  <2>4. TotalOf(G) = TotalOf(F) + d
    BY <1>1, <2>1, <2>2, <2>3, TotalChange
  <2>. QED
    BY <2>4 DEF ViewsOf, F, G, d, TotalOf, Counts, SumFunction
<1>9. FeesTo(a)' = FeesTo(a) + (IF a = Owner THEN PlatformShare(cost) ELSE 0)
  <2> DEFINE F == [x \in Account |-> SumFunction(Fees(history[x]))]
             G == [x \in Account |-> SumFunction(Fees(history'[x]))]
             d == PlatformShare(cost)
  <2>1. F \in [Account -> Int] /\ G \in [Account -> Int] /\ d \in Int
    <3>1. d \in Int
      BY <1>5
    <3>2. \A h \in Seq(PaidViews) : SumFunction(Fees(h)) \in Int
      BY TermsInt
    <3> HIDE DEF d
    <3>. QED
      BY <1>1, <1>4, <3>1, <3>2
  <2>2. G[e] = F[e] + d
    BY <1>1, <1>2, <1>3, TermsAppended
  <2>3. \A x \in Account \ {e} : G[x] = F[x]
    BY <1>3
  <2> HIDE DEF F, G, d
  <2>4. TotalOf(G) = TotalOf(F) + d
    BY <1>1, <2>1, <2>2, <2>3, TotalChange
  <2>5. /\ FeesTo(a) = IF a = Owner THEN TotalOf(F) ELSE 0
        /\ FeesTo(a)' = IF a = Owner THEN TotalOf(G) ELSE 0
    BY DEF FeesTo, F, G, TotalOf, Fees, SumFunction
  <2>. QED
    BY <2>4, <2>5 DEF d
<1>. QED
  BY <1>6, <1>7, <1>8, <1>9 DEF cost

-----------------------------------------------------------------------------
\* Without a view, the sums over the history stay what they are.
LEMMA HistoryUnchanged ==
    ASSUME UNCHANGED history
    PROVE  \A a \in Account : /\ ChargedTo(a)' = ChargedTo(a)
                              /\ EarnedBy(a)' = EarnedBy(a)
                              /\ ViewsOf(a)' = ViewsOf(a)
                              /\ FeesTo(a)' = FeesTo(a)
BY DEF ChargedTo, EarnedBy, ViewsOf, FeesTo, TotalOf, SumFunction,
       Prices, Shares, Counts, Fees

\* An empty history has empty sums.
LEMMA HistoryEmpty ==
    ASSUME NEW a \in Account, history = [b \in Account |-> <<>>]
    PROVE  ChargedTo(a) = 0 /\ EarnedBy(a) = 0 /\ ViewsOf(a) = 0 /\ FeesTo(a) = 0
<1>1. \A f : DOMAIN f = {} => SumFunction(f) = 0
  BY SumEmpty DEF SumFunction
<1>2. \A e \in Account : DOMAIN history[e] = {}
  OBVIOUS
<1>3. \A e \in Account : /\ SumFunction(Prices(history[e])) = 0
                         /\ SumFunction(Shares(history[e], a)) = 0
                         /\ SumFunction(Counts(history[e], a)) = 0
                         /\ SumFunction(Fees(history[e])) = 0
  BY <1>1, <1>2 DEF Prices, Shares, Counts, Fees
<1>. QED
  BY <1>3, TotalZero DEF ChargedTo, EarnedBy, ViewsOf, FeesTo

\* Nothing but a view changes earnings and history, and a view books in
\* seeker_earnings what it enters in the history.
LEMMA EarningsInductive ==
    ASSUME TypeOK, EarningsMatchHistory, [Next]_vars
    PROVE  EarningsMatchHistory'
<1>1. ASSUME NEW c \in Account, NEW e \in Employer, NEW s \in Seeker,
             PayForProfile(c, e, s)
      PROVE  EarningsMatchHistory'
  <2> SUFFICES ASSUME NEW a \in Account
               PROVE  seeker_earnings'[a] = [view_count   |-> ViewsOf(a)',
                                             total_earned |-> EarnedBy(a)']
    BY DEF EarningsMatchHistory
  <2> DEFINE share == SeekerShare(profile_view_cost)
  <2>1. /\ ViewsOf(a)' = ViewsOf(a) + (IF s = a THEN 1 ELSE 0)
        /\ EarnedBy(a)' = EarnedBy(a) + (IF s = a THEN share ELSE 0)
    BY <1>1, ViewCounted
  <2>2. seeker_earnings[a] = [view_count   |-> ViewsOf(a),
                              total_earned |-> EarnedBy(a)]
    BY DEF EarningsMatchHistory
  <2>3. seeker_earnings'[a] =
            IF s = a THEN Earn(seeker_earnings[a], share)
                     ELSE seeker_earnings[a]
    BY <1>1 DEF PayForProfile, TypeOK
  <2>4. ViewsOf(a) \in Nat /\ EarnedBy(a) \in Nat
    <3>1. seeker_earnings[a] \in [view_count : Nat, total_earned : Nat]
      BY DEF TypeOK
    <3>. QED
      BY <2>2, <3>1
  <2> HIDE DEF share
  <2>5. CASE s = a
    <3>1. Earn(seeker_earnings[a], share) =
              [view_count   |-> ViewsOf(a) + 1,
               total_earned |-> EarnedBy(a) + share]
      BY <2>2 DEF Earn
    <3>. QED
      BY <2>1, <2>3, <2>5, <3>1
  <2>6. CASE s # a
    BY <2>1, <2>2, <2>3, <2>4, <2>6
  <2>. QED
    BY <2>5, <2>6
<1>2. CASE UNCHANGED <<seeker_earnings, history>>
  <2>1. \A a \in Account : ViewsOf(a)' = ViewsOf(a) /\ EarnedBy(a)' = EarnedBy(a)
    BY <1>2, HistoryUnchanged
  <2>. QED
    BY <1>2, <2>1 DEF EarningsMatchHistory
<1>. QED
  BY <1>1, <1>2
     DEF Next, Deposit, Withdraw, AuthorizeAgent, RevokeAgent,
         SetProfileViewCost, Deliver, Bounce, vars, contractVars, chainVars

\* seeker_earnings, kept incrementally, is the sum of the seekers' shares of all
\* paid views, each at the price that was in force.
THEOREM EarningsRecorded == Spec => []EarningsMatchHistory
<1>1. Init => EarningsMatchHistory
  BY HistoryEmpty DEF Init, EarningsMatchHistory
<1>2. TypeOK /\ EarningsMatchHistory /\ [Next]_vars => EarningsMatchHistory'
  BY EarningsInductive
<1>. QED
  BY <1>1, <1>2, TypeCorrect, PTL DEF Spec

-----------------------------------------------------------------------------
\* Of the transfers to one account, as of all transfers: one more adds its
\* amount, and one that settles takes it away.

AddressedTo(S, a) == {t \in S : t.to = a}

LEMMA AddressedAdd ==
    ASSUME NEW S \in SUBSET Transfers, IsFiniteSet(S),
           NEW t \in Transfers \ S, NEW a \in Account
    PROVE  InTransit(AddressedTo(S \cup {t}, a)) =
               InTransit(AddressedTo(S, a)) +
                   (IF t.to = a THEN t.amount ELSE 0)
<1> DEFINE R == AddressedTo(S, a)
<1>1. R \in SUBSET Transfers /\ IsFiniteSet(R) /\ t \notin R
  BY FS_Subset DEF AddressedTo
<1>2. CASE t.to = a
  <2>1. AddressedTo(S \cup {t}, a) = R \cup {t}
    BY <1>2 DEF AddressedTo
  <2> HIDE DEF R
  <2>2. InTransit(R \cup {t}) = InTransit(R) + t.amount
    BY <1>1, TransitAdd
  <2>. QED
    BY <1>2, <2>1, <2>2 DEF R
<1>3. CASE t.to # a
  <2>1. AddressedTo(S \cup {t}, a) = R
    BY <1>3 DEF AddressedTo
  <2>2. InTransit(R) \in Nat
    BY <1>1, TransitNat
  <2>. QED
    BY <1>3, <2>1, <2>2
<1>. QED
  BY <1>2, <1>3

LEMMA AddressedRemove ==
    ASSUME NEW S \in SUBSET Transfers, IsFiniteSet(S), NEW t \in S,
           NEW a \in Account
    PROVE  InTransit(AddressedTo(S \ {t}, a)) =
               InTransit(AddressedTo(S, a)) -
                   (IF t.to = a THEN t.amount ELSE 0)
<1> DEFINE R == S \ {t}
           d == IF t.to = a THEN t.amount ELSE 0
<1>1. R \in SUBSET Transfers /\ IsFiniteSet(R) /\ t \in Transfers \ R
  BY FS_Subset
<1>2. R \cup {t} = S
  OBVIOUS
<1>3. d \in Int
  BY DEF Transfers
<1>4. AddressedTo(R, a) \in SUBSET Transfers /\ IsFiniteSet(AddressedTo(R, a))
  BY <1>1, FS_Subset DEF AddressedTo
<1> HIDE DEF R
<1>5. InTransit(AddressedTo(S, a)) = InTransit(AddressedTo(R, a)) + d
  BY <1>1, <1>2, AddressedAdd
<1>6. InTransit(AddressedTo(R, a)) \in Int
  BY <1>4, TransitNat
<1> HIDE DEF d
<1>. QED
  BY <1>3, <1>5, <1>6 DEF R, d

LEMMA PendingToChanged ==
    ASSUME NEW a
    PROVE  /\ PendingTo(a) = InTransit(AddressedTo(pending, a))
           /\ PendingTo(a)' = InTransit(AddressedTo(pending', a))
BY DEF PendingTo, AddressedTo, InTransit, AmountOf

\* One account's NEAR in all its places moves by what the history of views
\* gains: each step adds in one place what it takes from another.
LEMMA LedgerInductive ==
    ASSUME ReceiptsInv, LedgerBalanced, [Next]_vars
    PROVE  LedgerBalanced'
<1> USE EscrowAssumption
<1> SUFFICES ASSUME NEW a \in Account
             PROVE  wallet'[a] + balance'[a] + PendingTo(a)' + stranded'[a]
                            + ChargedTo(a)' =
                        InitialWallet[a] + EarnedBy(a)' + FeesTo(a)'
  BY DEF LedgerBalanced
<1>1. /\ wallet \in [Account -> Nat] /\ balance \in [Account -> Nat]
      /\ stranded \in [Account -> Nat] /\ profile_view_cost \in Nat
      /\ pending \in SUBSET Transfers /\ IsFiniteSet(pending)
      /\ history \in [Account -> Seq(PaidViews)]
  BY DEF ReceiptsInv, TypeOK, PendingFinite, PaidViews
<1>2. /\ wallet[a] \in Int /\ balance[a] \in Int /\ stranded[a] \in Int
      /\ InitialWallet[a] \in Int
  BY <1>1
<1>3. PendingTo(a) \in Int
  <2>1. /\ AddressedTo(pending, a) \in SUBSET Transfers
        /\ IsFiniteSet(AddressedTo(pending, a))
    BY <1>1, FS_Subset DEF AddressedTo
  <2>. QED
    BY <2>1, TransitNat, PendingToChanged
<1>4. /\ ChargedTo(a) \in Int /\ EarnedBy(a) \in Int /\ FeesTo(a) \in Int
  <2>1. \A h \in Seq(PaidViews) : /\ SumFunction(Prices(h)) \in Int
                                  /\ SumFunction(Shares(h, a)) \in Int
                                  /\ SumFunction(Fees(h)) \in Int
    BY TermsInt
  <2>2. /\ [e \in Account |-> SumFunction(Shares(history[e], a))]
               \in [Account -> Int]
        /\ [e \in Account |-> SumFunction(Fees(history[e]))]
               \in [Account -> Int]
    BY <1>1, <2>1
  <2>3. ChargedTo(a) \in Int
    BY <1>1, <2>1 DEF ChargedTo
  <2>4. EarnedBy(a) \in Int
    BY <2>2, TotalInt DEF EarnedBy
  <2>5. FeesTo(a) \in Int
    BY <2>2, TotalInt DEF FeesTo
  <2>. QED
    BY <2>3, <2>4, <2>5
<1>5. wallet[a] + balance[a] + PendingTo(a) + stranded[a] + ChargedTo(a) =
          InitialWallet[a] + EarnedBy(a) + FeesTo(a)
  BY DEF LedgerBalanced
<1>6. ASSUME NEW e \in Employer, NEW n \in Amount, Deposit(e, n)
      PROVE  wallet'[a] + balance'[a] + PendingTo(a)' + stranded'[a]
                     + ChargedTo(a)' =
                 InitialWallet[a] + EarnedBy(a)' + FeesTo(a)'
  <2> DEFINE d == IF a = e THEN n ELSE 0
  <2>1. /\ wallet'[a] = wallet[a] - d /\ balance'[a] = balance[a] + d
        /\ d \in Int
    <3>1. /\ e \in Account /\ n \in Nat
          /\ wallet' = [wallet EXCEPT ![e] = @ - n]
          /\ balance' = [balance EXCEPT ![e] = @ + n]
      BY <1>6 DEF Deposit
    <3>a. wallet \in [Account -> Nat] /\ balance \in [Account -> Nat]
      BY <1>1
    <3>2. CASE a = e
      BY <3>1, <3>2, <3>a
    <3>3. CASE a # e
      BY <3>1, <3>3, <3>a
    <3>. QED
      BY <3>2, <3>3
  <2>2. /\ PendingTo(a)' = PendingTo(a) /\ stranded' = stranded
        /\ UNCHANGED history
    BY <1>6, PendingToChanged DEF Deposit
  <2>3. /\ ChargedTo(a)' = ChargedTo(a) /\ EarnedBy(a)' = EarnedBy(a)
        /\ FeesTo(a)' = FeesTo(a)
    BY <2>2, HistoryUnchanged
  <2> HIDE DEF d
  <2>. QED
    BY <1>2, <1>3, <1>4, <1>5, <2>1, <2>2, <2>3
<1>7. ASSUME NEW e \in Employer, NEW n \in Amount, Withdraw(e, n)
      PROVE  wallet'[a] + balance'[a] + PendingTo(a)' + stranded'[a]
                     + ChargedTo(a)' =
                 InitialWallet[a] + EarnedBy(a)' + FeesTo(a)'
  <2> DEFINE d == IF e = a THEN n ELSE 0
  <2>1. balance'[a] = balance[a] - d /\ d \in Int
    <3>1. /\ e \in Account /\ n \in Nat
          /\ balance' = [balance EXCEPT ![e] = @ - n]
      BY <1>7 DEF Withdraw, Debited
    <3>a. balance \in [Account -> Nat]
      BY <1>1
    <3>2. CASE e = a
      BY <3>1, <3>2, <3>a
    <3>3. CASE e # a
      BY <3>1, <3>3, <3>a
    <3>. QED
      BY <3>2, <3>3
  <2>2. /\ wallet' = wallet /\ stranded' = stranded /\ UNCHANGED history
    BY <1>7 DEF Withdraw
  <2>3. PendingTo(a)' = PendingTo(a) + d
    <3> DEFINE t == Withdrawal(e, n)
    <3>1. /\ t \in Transfers \ pending /\ t.to = e /\ t.amount = n
          /\ pending' = pending \cup {t}
      BY <1>7, WithdrawIssues
    <3> HIDE DEF t
    <3>2. InTransit(AddressedTo(pending \cup {t}, a)) =
              InTransit(AddressedTo(pending, a)) +
                  (IF t.to = a THEN t.amount ELSE 0)
      BY <1>1, <3>1, AddressedAdd
    <3>. QED
      BY <3>1, <3>2, PendingToChanged
  <2>4. /\ ChargedTo(a)' = ChargedTo(a) /\ EarnedBy(a)' = EarnedBy(a)
        /\ FeesTo(a)' = FeesTo(a)
    BY <2>2, HistoryUnchanged
  <2> HIDE DEF d
  <2>. QED
    BY <1>2, <1>3, <1>4, <1>5, <2>1, <2>2, <2>3, <2>4
<1>8. ASSUME NEW c \in Account, NEW e \in Employer, NEW s \in Seeker,
             PayForProfile(c, e, s)
      PROVE  wallet'[a] + balance'[a] + PendingTo(a)' + stranded'[a]
                     + ChargedTo(a)' =
                 InitialWallet[a] + EarnedBy(a)' + FeesTo(a)'
  <2> DEFINE first == pending \cup {ShareOf(s)}
             cost  == IF a = e THEN profile_view_cost ELSE 0
             share == IF s = a THEN SeekerShare(profile_view_cost) ELSE 0
             fee   == IF a = Owner THEN PlatformShare(profile_view_cost) ELSE 0
  <2>1. cost \in Int /\ share \in Int /\ fee \in Int
    <3>1. /\ profile_view_cost \in Int
          /\ SeekerShare(profile_view_cost) \in Int
          /\ PlatformShare(profile_view_cost) \in Int
      <4>1. profile_view_cost \in Nat
        BY <1>1
      <4>. QED
        BY <4>1, ShareBounds
    <3>. QED
      BY <3>1
  <2>2. balance'[a] = balance[a] - cost
    <3>1. /\ e \in Account /\ profile_view_cost \in Int
          /\ balance' = [balance EXCEPT ![e] = @ - profile_view_cost]
      BY <1>1, <1>8 DEF PayForProfile, Debited
    <3>2. balance'[a] = IF a = e THEN balance[a] - profile_view_cost
                                 ELSE balance[a]
      BY <1>1, <3>1
    <3>. QED
      BY <1>2, <3>1, <3>2
  <2>3. wallet' = wallet /\ stranded' = stranded
    BY <1>8 DEF PayForProfile
  <2>4. /\ ChargedTo(a)' = ChargedTo(a) + cost
        /\ EarnedBy(a)' = EarnedBy(a) + share
        /\ FeesTo(a)' = FeesTo(a) + fee
    BY <1>8, ViewCounted DEF ReceiptsInv
  <2>5. /\ ShareOf(s) \in Transfers \ pending /\ ShareOf(s).to = s
        /\ ShareOf(s).amount = SeekerShare(profile_view_cost)
        /\ FeeOfView \in Transfers \ first /\ FeeOfView.to = Owner
        /\ FeeOfView.amount = PlatformShare(profile_view_cost)
        /\ pending' = first \cup {FeeOfView}
    BY <1>8, ViewIssues
  <2>6. first \in SUBSET Transfers /\ IsFiniteSet(first)
    BY <1>1, <2>5, FS_AddElement
  <2>7. InTransit(AddressedTo(first, a)) = PendingTo(a) + share
    <3> DEFINE t == ShareOf(s)
    <3> HIDE DEF t
    <3>1. t \in Transfers \ pending /\ first = pending \cup {t}
      BY <2>5 DEF t
    <3>2. InTransit(AddressedTo(pending \cup {t}, a)) =
              InTransit(AddressedTo(pending, a)) +
                  (IF t.to = a THEN t.amount ELSE 0)
      BY <1>1, <3>1, AddressedAdd
    <3>. QED
      BY <2>5, <3>1, <3>2, PendingToChanged DEF t
  <2> HIDE DEF first
  <2>8. PendingTo(a)' = InTransit(AddressedTo(first, a)) + fee
    <3> DEFINE t == FeeOfView
    <3> HIDE DEF t
    <3>1. t \in Transfers \ first /\ pending' = first \cup {t}
      BY <2>5 DEF t
    <3>2. InTransit(AddressedTo(first \cup {t}, a)) =
              InTransit(AddressedTo(first, a)) +
                  (IF t.to = a THEN t.amount ELSE 0)
      BY <2>6, <3>1, AddressedAdd
    <3>. QED
      BY <2>5, <3>1, <3>2, PendingToChanged DEF t
  <2> HIDE DEF cost, share, fee
  <2>9. PendingTo(a)' = PendingTo(a) + share + fee
    BY <2>7, <2>8
  <2>10. wallet'[a] = wallet[a] /\ stranded'[a] = stranded[a]
    BY <2>3
  <2>. QED
    BY <1>2, <1>3, <1>4, <1>5, <2>1, <2>2, <2>4, <2>9, <2>10
<1>9. ASSUME NEW t \in pending, Deliver(t) \/ Bounce(t)
      PROVE  wallet'[a] + balance'[a] + PendingTo(a)' + stranded'[a]
                     + ChargedTo(a)' =
                 InitialWallet[a] + EarnedBy(a)' + FeesTo(a)'
  <2> DEFINE d == IF t.to = a THEN t.amount ELSE 0
  <2>1. t.to \in Account /\ t.amount \in Nat /\ d \in Int
    <3>1. t \in Transfers
      BY <1>1
    <3>. QED
      BY <3>1 DEF Transfers
  <2>2. PendingTo(a)' = PendingTo(a) - d
    <3>1. pending' = pending \ {t}
      BY <1>9 DEF Deliver, Bounce
    <3>2. InTransit(AddressedTo(pending \ {t}, a)) =
              InTransit(AddressedTo(pending, a)) - d
      BY <1>1, AddressedRemove
    <3>. QED
      BY <3>1, <3>2, PendingToChanged
  <2>3. balance' = balance /\ UNCHANGED history
    BY <1>9 DEF Deliver, Bounce, contractVars
  <2>4. /\ ChargedTo(a)' = ChargedTo(a) /\ EarnedBy(a)' = EarnedBy(a)
        /\ FeesTo(a)' = FeesTo(a)
    BY <2>3, HistoryUnchanged
  <2>5. \/ wallet'[a] = wallet[a] + d /\ stranded' = stranded
        \/ stranded'[a] = stranded[a] + d /\ wallet' = wallet
    <3>1. CASE Deliver(t)
      <4>1. /\ wallet' = [wallet EXCEPT ![t.to] = @ + t.amount]
            /\ stranded' = stranded
        BY <3>1 DEF Deliver
      <4>a. wallet \in [Account -> Nat]
        BY <1>1
      <4>2. CASE t.to = a
        BY <2>1, <4>1, <4>2, <4>a
      <4>3. CASE t.to # a
        BY <2>1, <4>1, <4>3, <4>a
      <4>. QED
        BY <4>1, <4>2, <4>3
    <3>2. CASE Bounce(t)
      <4>1. /\ stranded' = [stranded EXCEPT ![t.to] = @ + t.amount]
            /\ wallet' = wallet
        BY <3>2 DEF Bounce
      <4>a. stranded \in [Account -> Nat]
        BY <1>1
      <4>2. CASE t.to = a
        BY <2>1, <4>1, <4>2, <4>a
      <4>3. CASE t.to # a
        BY <2>1, <4>1, <4>3, <4>a
      <4>. QED
        BY <4>1, <4>2, <4>3
    <3>. QED
      BY <1>9, <3>1, <3>2
  <2> HIDE DEF d
  <2>. QED
    BY <1>2, <1>3, <1>4, <1>5, <2>1, <2>2, <2>3, <2>4, <2>5
<1>10. CASE UNCHANGED <<wallet, balance, pending, stranded, history>>
  <2>1. PendingTo(a)' = PendingTo(a)
    BY <1>10, PendingToChanged
  <2>. QED
    BY <1>5, <1>10, <2>1, HistoryUnchanged
<1>. QED
  BY <1>6, <1>7, <1>8, <1>9, <1>10
     DEF Next, AuthorizeAgent, RevokeAgent, SetProfileViewCost,
         vars, contractVars, chainVars

\* Each account's money is what it started with minus its charges plus its
\* shares and fees, in the wallet, the escrow, on its way or stranded, however
\* calls, deliveries and refunds interleave.
THEOREM NothingLostOrPaidTwice == Spec => []LedgerBalanced
<1>1. Init => LedgerBalanced
  <2> SUFFICES ASSUME Init, NEW a \in Account
               PROVE  wallet[a] + balance[a] + PendingTo(a) + stranded[a]
                              + ChargedTo(a) =
                          InitialWallet[a] + EarnedBy(a) + FeesTo(a)
    BY DEF LedgerBalanced
  <2>1. /\ wallet[a] = InitialWallet[a] /\ balance[a] = 0 /\ stranded[a] = 0
        /\ pending = {} /\ history = [b \in Account |-> <<>>]
    BY DEF Init
  <2>2. PendingTo(a) = 0
    <3>1. {t \in pending : t.to = a} = {}
      BY <2>1
    <3>. QED
      BY <3>1, TransitEmpty DEF PendingTo
  <2>3. InitialWallet[a] \in Nat
    BY EscrowAssumption
  <2>. QED
    BY <2>1, <2>2, <2>3, HistoryEmpty
<1>2. ReceiptsInv /\ LedgerBalanced /\ [Next]_vars => LedgerBalanced'
  BY LedgerInductive
<1>. QED
  BY <1>1, <1>2, ReceiptsInvariant, PTL DEF Spec

-----------------------------------------------------------------------------
\* The record pay_for_profile stores of a paid view, and the newest views of a
\* history as the stored list should hold them.

RecordOf(view) == [seeker_id |-> view.seeker_id, amount |-> view.amount]

NewestOf(h, records) ==
    /\ Len(records) = Min({Len(h), MaxRecords})
    /\ \A i \in 1 .. Len(records) :
           records[i] = RecordOf(h[Len(h) - Len(records) + i])

LEMMA MinOfTwo ==
    ASSUME NEW n \in Int, NEW m \in Int
    PROVE  Min({n, m}) = IF n <= m THEN n ELSE m
<1> DEFINE least == IF n <= m THEN n ELSE m
<1>1. least \in {n, m} /\ \A y \in {n, m} : least <= y
  OBVIOUS
<1>2. \A x \in {n, m} : (\A y \in {n, m} : x <= y) => x = least
  OBVIOUS
<1>. QED
  BY <1>1, <1>2 DEF Min

LEMMA NewestMeans ==
    ASSUME NEW h, NEW records, Len(h) \in Int
    PROVE  NewestOf(h, records) <=>
               /\ Len(records) =
                      IF Len(h) <= MaxRecords THEN Len(h) ELSE MaxRecords
               /\ \A i \in 1 .. Len(records) :
                      records[i] = RecordOf(h[Len(h) - Len(records) + i])
<1>1. Min({Len(h), MaxRecords}) =
          IF Len(h) <= MaxRecords THEN Len(h) ELSE MaxRecords
  BY EscrowAssumption, MinOfTwo
<1>. QED
  BY <1>1 DEF NewestOf

\* One view more, one record more: the oldest goes when the list is full.
LEMMA PushKeepsNewest ==
    ASSUME NEW h \in Seq(PaidViews), NEW view \in PaidViews,
           NEW records \in Seq([seeker_id : Account, amount : Nat]),
           NewestOf(h, records)
    PROVE  NewestOf(Append(h, view), PushBounded(records, RecordOf(view)))
<1> DEFINE n    == Len(h)
           k    == Len(records)
           next == PushBounded(records, RecordOf(view))
           more == Append(h, view)
<1>1. MaxRecords \in Nat \ {0} /\ n \in Nat /\ k \in Nat
  BY EscrowAssumption
<1>2. /\ Len(more) = n + 1 /\ more[n + 1] = view
      /\ \A j \in 1 .. n : more[j] = h[j]
  OBVIOUS
<1>3. /\ k = IF n <= MaxRecords THEN n ELSE MaxRecords
      /\ \A i \in 1 .. k : records[i] = RecordOf(h[n - k + i])
  BY <1>1, NewestMeans
<1>4. RecordOf(view) \in [seeker_id : Account, amount : Nat]
  BY DEF RecordOf, PaidViews
<1>5. CASE k >= MaxRecords
  <2> DEFINE rest == Tail(records)
  <2>1. k = MaxRecords /\ k > 0
    BY <1>1, <1>3, <1>5
  <2>2. /\ rest \in Seq([seeker_id : Account, amount : Nat])
        /\ Len(rest) = k - 1
        /\ \A i \in 1 .. k - 1 : rest[i] = records[i + 1]
    BY <2>1
  <2> HIDE DEF rest
  <2>3. next = Append(rest, RecordOf(view))
    BY <1>5 DEF PushBounded, rest
  <2>4. /\ Len(next) = k /\ next[k] = RecordOf(view)
        /\ \A i \in 1 .. k - 1 : next[i] = rest[i]
    BY <1>1, <1>4, <2>2, <2>3
  <2> HIDE DEF next, more, n, k
  <2>5. ASSUME NEW i \in 1 .. k
        PROVE  next[i] = RecordOf(more[n + 1 - k + i])
    <3>1. CASE i = k
      BY <1>1, <1>2, <2>4, <3>1
    <3>2. CASE i < k
      <4>0. i \in 1 .. k - 1 /\ i + 1 \in 1 .. k
        BY <1>1, <3>2
      <4>1. next[i] = records[i + 1] /\ i + 1 \in 1 .. k
        BY <2>2, <2>4, <4>0
      <4>2. n - k + (i + 1) \in 1 .. n
        BY <1>1, <1>3, <3>2
      <4>3. n + 1 - k + i = n - k + (i + 1)
        BY <1>1, <3>2
      <4>. QED
        BY <1>2, <1>3, <4>1, <4>2, <4>3
    <3>. QED
      BY <1>1, <3>1, <3>2
  <2>6. Len(next) = IF n + 1 <= MaxRecords THEN n + 1 ELSE MaxRecords
    BY <1>1, <1>3, <2>1, <2>4
  <2>7. Len(more) \in Int
    BY <1>1, <1>2
  <2>8. ASSUME NEW i \in 1 .. Len(next)
        PROVE  next[i] = RecordOf(more[Len(more) - Len(next) + i])
    <3>1. Len(next) = k /\ Len(more) = n + 1
      BY <1>2, <2>4
    <3>2. next[i] = RecordOf(more[n + 1 - k + i])
      BY <2>5, <3>1
    <3>3. Len(more) - Len(next) + i = n + 1 - k + i
      BY <1>1, <3>1
    <3>. QED
      BY <3>2, <3>3
  <2>9. Len(next) =
            IF Len(more) <= MaxRecords THEN Len(more) ELSE MaxRecords
    BY <1>2, <2>6
  <2>10. NewestOf(more, next)
    BY <2>7, <2>8, <2>9, NewestMeans
  <2>. QED
    BY <2>10 DEF next, more
<1>6. CASE k < MaxRecords
  <2>1. k = n /\ n + 1 <= MaxRecords
    BY <1>1, <1>3, <1>6
  <2>2. next = Append(records, RecordOf(view))
    BY <1>1, <1>6 DEF PushBounded
  <2>3. /\ Len(next) = k + 1 /\ next[k + 1] = RecordOf(view)
        /\ \A i \in 1 .. k : next[i] = records[i]
    BY <1>4, <2>2
  <2> HIDE DEF next, more, n, k
  <2>4. ASSUME NEW i \in 1 .. n + 1
        PROVE  next[i] = RecordOf(more[i])
    <3>1. CASE i = n + 1
      BY <1>2, <2>1, <2>3, <3>1
    <3>2. CASE i <= n
      <4>1. i \in 1 .. k /\ i \in 1 .. n /\ n - k + i = i
        BY <1>1, <2>1, <3>2
      <4>2. next[i] = records[i] /\ more[i] = h[i]
        BY <1>2, <2>3, <4>1
      <4>. QED
        BY <1>3, <4>1, <4>2
    <3>. QED
      BY <1>1, <3>1, <3>2
  <2>5. Len(more) \in Int /\ Len(next) = n + 1
    BY <1>1, <1>2, <2>1, <2>3
  <2>6. ASSUME NEW i \in 1 .. Len(next)
        PROVE  next[i] = RecordOf(more[Len(more) - Len(next) + i])
    <3>1. i \in 1 .. n + 1 /\ Len(more) - Len(next) + i = i
      BY <1>1, <1>2, <2>5
    <3>. QED
      BY <2>4, <3>1
  <2>7. NewestOf(more, next)
    BY <1>2, <2>1, <2>5, <2>6, NewestMeans
  <2>. QED
    BY <2>7 DEF next, more
<1>. QED
  BY <1>1, <1>5, <1>6

\* Only a view touches history or records, and it touches both.
LEMMA RecentInductive ==
    ASSUME TypeOK, AccessHistoryIsRecent, [Next]_vars
    PROVE  AccessHistoryIsRecent'
<1>1. \A e \in Account : NewestOf(history[e], access_records[e])
  BY DEF AccessHistoryIsRecent, NewestOf, RecordOf
<1>2. /\ history \in [Account -> Seq(PaidViews)]
      /\ access_records \in
             [Account -> Seq([seeker_id : Account, amount : Nat])]
      /\ profile_view_cost \in Nat
  BY DEF TypeOK, PaidViews
<1>3. ASSUME NEW c \in Account, NEW e \in Employer, NEW s \in Seeker,
             PayForProfile(c, e, s), NEW a \in Account
      PROVE  NewestOf(history'[a], access_records'[a])
  <2> DEFINE view == [seeker_id |-> s, amount |-> profile_view_cost,
                      payer |-> c]
  <2>1. view \in PaidViews /\ e \in Account
    BY <1>2, EscrowAssumption DEF PaidViews
  <2>2. RecordOf(view) = [seeker_id |-> s, amount |-> profile_view_cost]
    BY DEF RecordOf
  <2>3. /\ history' = [history EXCEPT ![e] = Append(@, view)]
        /\ access_records' = [access_records EXCEPT
               ![e] = PushBounded(@, RecordOf(view))]
    BY <1>3, <2>2 DEF PayForProfile
  <2> HIDE DEF view
  <2>4. CASE a = e
    <3>1. /\ history'[a] = Append(history[a], view)
          /\ access_records'[a] =
                 PushBounded(access_records[a], RecordOf(view))
      BY <1>2, <2>1, <2>3, <2>4
    <3>2. /\ history[a] \in Seq(PaidViews)
          /\ access_records[a] \in Seq([seeker_id : Account, amount : Nat])
      BY <1>2
    <3>. QED
      BY <1>1, <2>1, <3>1, <3>2, PushKeepsNewest
  <2>5. CASE a # e
    <3>1. history'[a] = history[a] /\ access_records'[a] = access_records[a]
      BY <1>2, <2>3, <2>5
    <3>. QED
      BY <1>1, <3>1
  <2>. QED
    BY <2>4, <2>5
<1>4. ASSUME UNCHANGED <<history, access_records>>, NEW a \in Account
      PROVE  NewestOf(history'[a], access_records'[a])
  BY <1>1, <1>4
<1>5. \A a \in Account : NewestOf(history'[a], access_records'[a])
  BY <1>1, <1>3, <1>4
     DEF Next, Deposit, Withdraw, AuthorizeAgent, RevokeAgent,
         SetProfileViewCost, Deliver, Bounce, vars, contractVars, chainVars
<1>. QED
  BY <1>5 DEF AccessHistoryIsRecent, NewestOf, RecordOf

\* The stored records of an employer are the newest paid views, as many as the
\* cap allows, whatever the cap is.
THEOREM RecordsAreNewestViews == Spec => []AccessHistoryIsRecent
<1>1. Init => AccessHistoryIsRecent
  <2> SUFFICES ASSUME Init, NEW e \in Account
               PROVE  NewestOf(history[e], access_records[e])
    BY DEF AccessHistoryIsRecent, NewestOf, RecordOf
  <2>1. history[e] = <<>> /\ access_records[e] = <<>>
    BY DEF Init
  <2>. QED
    BY <2>1, EscrowAssumption, MinOfTwo DEF NewestOf
<1>2. TypeOK /\ AccessHistoryIsRecent /\ [Next]_vars
          => AccessHistoryIsRecent'
  BY RecentInductive
<1>. QED
  BY <1>1, <1>2, TypeCorrect, PTL DEF Spec
=============================================================================
