--------------------------- MODULE EscrowContract ---------------------------
(***************************************************************************)
(* The escrow smart contract (contract/escrow/src/lib.rs) on its chain.    *)
(*                                                                         *)
(* Employers deposit NEAR, and each resume view moves profile_view_cost    *)
(* out of the employer's escrow: 80% to the seeker, the rest to the owner. *)
(* A contract call runs alone, to its end: a failed assert! leaves nothing *)
(* behind, so a call is one action guarded by its asserts.  What is not    *)
(* atomic is the payout.  Promise::new(..).transfer(..) only creates a     *)
(* receipt: the chain takes the amount from the contract's account at once *)
(* and delivers it in a later block, or sends it back to the contract when *)
(* the receiver cannot be credited.  The contract attaches no callback, so *)
(* it never learns of a refund.                                            *)
(*                                                                         *)
(* An operator whose name has an underscore, like PlatformShare_ByPercent,  *)
(* is a plausible bug in the definition after it: the checked properties   *)
(* must notice it in that definition's place.                              *)
(*                                                                         *)
(* Employer, Seeker and Agent say which accounts an instance uses in each   *)
(* role; the contract itself knows no roles, and they may overlap.         *)
(***************************************************************************)
EXTENDS Integers, Sequences, FiniteSets, FiniteSetsExt

CONSTANTS
    Account,        \* NEAR account ids
    Employer,       \* the accounts that use the employer's methods
    Seeker,         \* the accounts named as seekers of a paid view
    Agent,          \* the accounts employers authorise as agents
    Owner,          \* the account that deployed the contract
    Amount,         \* the amounts callers attach to a deposit or withdraw
    Cost,           \* the prices the owner may try to set
    DefaultCost,    \* DEFAULT_PROFILE_VIEW_COST
    MaxRecords,     \* MAX_RECORDS_PER_EMPLOYER
    U128Max,        \* the largest u128
    InitialWallet,  \* what each account holds outside the contract at first
    InitialNative,  \* the contract's own NEAR when it is deployed
    MaxReceipts     \* bound of the model: transfer receipts ever created

ASSUME EscrowAssumption ==
    /\ IsFiniteSet(Account)
    /\ Employer \subseteq Account
    /\ Seeker \subseteq Account
    /\ Agent \subseteq Account
    /\ Owner \in Account
    /\ Amount \subseteq Nat
    /\ Cost \subseteq Nat
    /\ DefaultCost \in Nat \ {0}
    /\ MaxRecords \in Nat \ {0}
    /\ U128Max \in Nat
    /\ InitialWallet \in [Account -> Nat]
    /\ InitialNative \in Nat
    /\ MaxReceipts \in Nat

VARIABLES
    profile_view_cost,
    accounts,        \* the accounts that have an escrow entry
    balance,         \* EscrowAccount.balance (0 where there is no entry)
    access_records,  \* per employer, the bounded list of paid views
    authorized_agents,
    seeker_earnings,
    native,          \* the NEAR on the contract's own account
    wallet,          \* the NEAR on every other account
    pending,         \* transfer receipts the chain has not settled yet
    nextReceipt,     \* the id of the next receipt
    stranded,        \* per receiver, what bounced back to the contract
    history          \* every paid view ever made, and who called for it

contractVars == <<profile_view_cost, accounts, balance, access_records,
                  authorized_agents, seeker_earnings>>
chainVars == <<native, wallet, pending, nextReceipt, stranded>>
vars == <<contractVars, chainVars, history>>

-----------------------------------------------------------------------------

SEEKER_SHARE_PERCENT == 80

FitsU128(n) == n \in 0 .. U128Max

\* The product that must fit a u128 before the division.
ShareProduct_BasisPoints(cost) == cost * 8000
ShareProduct(cost) == cost * SEEKER_SHARE_PERCENT

\* The seeker's part of a price; integer division rounds it down.
SeekerShare(cost) == ShareProduct(cost) \div 100

\* The owner's part is the remainder, so that nothing is lost to rounding.
PlatformShare_ByPercent(cost) == (cost * 20) \div 100
PlatformShare(cost) == cost - SeekerShare(cost)

IsAuthorizedAgent_AnyEmployer(employer, caller) ==
    \E e \in Account : caller \in authorized_agents[e]
IsAuthorizedAgent(employer, caller) == caller \in authorized_agents[employer]

\* An employer without an entry cannot spend, whatever the amount.
CanSpend_NoBalanceCheck(employer, amount) == employer \in accounts
CanSpend(employer, amount) ==
    /\ employer \in accounts
    /\ balance[employer] >= amount

\* accounts.insert(..) of the clone whose balance was lowered.
Debited_InsertForgotten(employer, amount) == balance
Debited(employer, amount) == [balance EXCEPT ![employer] = @ - amount]

\* One more view in a seeker's running totals.
Earn_Overwrites(earnings, share) ==
    [view_count |-> 1, total_earned |-> share]
Earn(earnings, share) ==
    [view_count   |-> earnings.view_count + 1,
     total_earned |-> earnings.total_earned + share]

\* A list that keeps the newest MaxRecords entries.
PushBounded_OneTooMany(records, record) ==
    IF Len(records) > MaxRecords THEN Append(Tail(records), record)
                                 ELSE Append(records, record)
PushBounded(records, record) ==
    IF Len(records) >= MaxRecords THEN Append(Tail(records), record)
                                  ELSE Append(records, record)

Transfer(id, to, amount, kind) ==
    [id |-> id, to |-> to, amount |-> amount, kind |-> kind]

Transfers ==
    [id : Nat, to : Account, amount : Nat,
     kind : {"share", "fee", "withdrawal"}]

-----------------------------------------------------------------------------

Init ==
    /\ profile_view_cost = DefaultCost
    /\ accounts = {}
    /\ balance = [a \in Account |-> 0]
    /\ access_records = [a \in Account |-> <<>>]
    /\ authorized_agents = [a \in Account |-> {}]
    /\ seeker_earnings =
           [a \in Account |-> [view_count |-> 0, total_earned |-> 0]]
    /\ native = InitialNative
    /\ wallet = InitialWallet
    /\ pending = {}
    /\ nextReceipt = 0
    /\ stranded = [a \in Account |-> 0]
    /\ history = [a \in Account |-> <<>>]

\* deposit: the attached NEAR moves from the caller to the contract.
Deposit(employer, amount) ==
    /\ amount <= wallet[employer]
    /\ amount > 0
    /\ FitsU128(balance[employer] + amount)
    /\ accounts' = accounts \cup {employer}
    /\ balance' = [balance EXCEPT ![employer] = @ + amount]
    /\ wallet' = [wallet EXCEPT ![employer] = @ - amount]
    /\ native' = native + amount
    /\ UNCHANGED <<profile_view_cost, access_records, authorized_agents,
                   seeker_earnings, pending, nextReceipt, stranded, history>>

\* pay_for_profile: charge the employer, issue the two transfers, book the
\* seeker's earnings and the access record.
PayForProfile(caller, employer, seeker) ==
    LET cost  == profile_view_cost
        share == SeekerShare(cost)
        fee   == PlatformShare(cost)
    IN  /\ nextReceipt + 2 <= MaxReceipts
        /\ caller = employer \/ IsAuthorizedAgent(employer, caller)
        /\ CanSpend(employer, cost)
        /\ FitsU128(ShareProduct(cost))
        /\ FitsU128(seeker_earnings[seeker].total_earned + share)
        /\ balance' = Debited(employer, cost)
        /\ pending' = pending \cup
               {Transfer(nextReceipt, seeker, share, "share"),
                Transfer(nextReceipt + 1, Owner, fee, "fee")}
        /\ nextReceipt' = nextReceipt + 2
        /\ native' = native - (share + fee)
        /\ seeker_earnings' = [seeker_earnings EXCEPT
               ![seeker] = Earn(@, share)]
        /\ access_records' = [access_records EXCEPT
               ![employer] = PushBounded(@, [seeker_id |-> seeker,
                                             amount |-> cost])]
        /\ history' = [history EXCEPT
               ![employer] = Append(@, [seeker_id |-> seeker,
                                        amount |-> cost,
                                        payer |-> caller])]
        /\ UNCHANGED <<profile_view_cost, accounts, authorized_agents,
                       wallet, stranded>>

\* withdraw: the balance goes down now, the transfer arrives later.
Withdraw(employer, amount) ==
    /\ nextReceipt < MaxReceipts
    /\ amount > 0
    /\ CanSpend(employer, amount)
    /\ balance' = Debited(employer, amount)
    /\ pending' = pending \cup
           {Transfer(nextReceipt, employer, amount, "withdrawal")}
    /\ nextReceipt' = nextReceipt + 1
    /\ native' = native - amount
    /\ UNCHANGED <<profile_view_cost, accounts, access_records,
                   authorized_agents, seeker_earnings, wallet, stranded,
                   history>>

AuthorizeAgent(employer, agent) ==
    /\ authorized_agents' =
           [authorized_agents EXCEPT ![employer] = @ \cup {agent}]
    /\ UNCHANGED <<profile_view_cost, accounts, balance, access_records,
                   seeker_earnings, chainVars, history>>

RevokeAgent(employer, agent) ==
    /\ authorized_agents' =
           [authorized_agents EXCEPT ![employer] = @ \ {agent}]
    /\ UNCHANGED <<profile_view_cost, accounts, balance, access_records,
                   seeker_earnings, chainVars, history>>

SetProfileViewCost(caller, cost) ==
    /\ caller = Owner
    /\ cost > 0
    /\ profile_view_cost' = cost
    /\ UNCHANGED <<accounts, balance, access_records, authorized_agents,
                   seeker_earnings, chainVars, history>>

\* The chain credits the receiver of a transfer.
Deliver(transfer) ==
    /\ pending' = pending \ {transfer}
    /\ wallet' = [wallet EXCEPT ![transfer.to] = @ + transfer.amount]
    /\ UNCHANGED <<contractVars, native, nextReceipt, stranded, history>>

\* The receiver does not exist: the chain refunds the contract's account,
\* and no contract method runs.
Bounce(transfer) ==
    /\ pending' = pending \ {transfer}
    /\ native' = native + transfer.amount
    /\ stranded' = [stranded EXCEPT ![transfer.to] = @ + transfer.amount]
    /\ UNCHANGED <<contractVars, wallet, nextReceipt, history>>

Next ==
    \/ \E e \in Employer, n \in Amount : Deposit(e, n) \/ Withdraw(e, n)
    \/ \E c \in Account, e \in Employer, s \in Seeker :
           PayForProfile(c, e, s)
    \/ \E e \in Employer, a \in Agent :
           AuthorizeAgent(e, a) \/ RevokeAgent(e, a)
    \/ \E c \in Account, n \in Cost : SetProfileViewCost(c, n)
    \/ \E t \in pending : Deliver(t) \/ Bounce(t)

Spec == Init /\ [][Next]_vars

-----------------------------------------------------------------------------
(***************************************************************************)
(* Properties.                                                             *)
(***************************************************************************)

TypeOK ==
    /\ profile_view_cost \in Nat \ {0}
    /\ accounts \subseteq Account
    /\ balance \in [Account -> Nat]
    /\ access_records \in
           [Account -> Seq([seeker_id : Account, amount : Nat])]
    /\ authorized_agents \in [Account -> SUBSET Account]
    /\ seeker_earnings \in
           [Account -> [view_count : Nat, total_earned : Nat]]
    /\ native \in Int
    /\ wallet \in [Account -> Nat]
    /\ pending \subseteq Transfers
    /\ nextReceipt \in Nat
    /\ stranded \in [Account -> Nat]
    /\ history \in
           [Account -> Seq([seeker_id : Account, amount : Nat,
                            payer : Account])]

-----------------------------------------------------------------------------
\* Sums the properties are stated with.

TotalOf(f) == SumFunctionOnSet(f, Account)

\* The NEAR in transfers, all of them or those to account a.
AmountOf(transfers) == [t \in transfers |-> t.amount]
InTransit(transfers) == SumFunctionOnSet(AmountOf(transfers), transfers)
PendingTo(a) == InTransit({t \in pending : t.to = a})

\* Of each paid view of history h, in order: the price, what account a earned
\* as a seeker, whether it is a view of a at all, and the owner's fee.
Prices(h) == [i \in DOMAIN h |-> h[i].amount]
Shares(h, a) ==
    [i \in DOMAIN h |->
        IF h[i].seeker_id = a THEN SeekerShare(h[i].amount) ELSE 0]
Counts(h, a) == [i \in DOMAIN h |-> IF h[i].seeker_id = a THEN 1 ELSE 0]
Fees(h) == [i \in DOMAIN h |-> PlatformShare(h[i].amount)]

\* What account a was charged as an employer, earned as a seeker and is due
\* as the owner, recomputed from the full history of paid views.
ChargedTo(a) == SumFunction(Prices(history[a]))
EarnedBy(a) ==
    TotalOf([e \in Account |-> SumFunction(Shares(history[e], a))])
ViewsOf(a) ==
    TotalOf([e \in Account |-> SumFunction(Counts(history[e], a))])
FeesTo(a) ==
    IF a = Owner
    THEN TotalOf([e \in Account |-> SumFunction(Fees(history[e]))]) ELSE 0

-----------------------------------------------------------------------------

\* Solvency (deposit, pay_for_profile, withdraw): whatever transfers are in
\* flight or came back, the contract's own NEAR is exactly what it was
\* deployed with, plus every employer's balance, plus the refunds no method
\* can hand out again.  So every withdrawal the asserts let through is
\* covered, and rounding the 80% share leaves no dust.
Solvent ==
    native = InitialNative + TotalOf(balance) + TotalOf(stranded)

\* Per account, nothing is paid twice or lost across escrow, receipts and
\* wallets: an account holds what it started with, minus the views it was
\* charged for, plus the shares and fees those views earned it
\* (pay_for_profile, withdraw and the chain's settlement of their receipts).
LedgerBalanced ==
    \A a \in Account :
        wallet[a] + balance[a] + PendingTo(a) + stranded[a] + ChargedTo(a)
            = InitialWallet[a] + EarnedBy(a) + FeesTo(a)

\* seeker_earnings, kept incrementally by pay_for_profile, agrees with the
\* history of views although prices change between them.
EarningsMatchHistory ==
    \A a \in Account :
        seeker_earnings[a] = [view_count |-> ViewsOf(a),
                              total_earned |-> EarnedBy(a)]

\* The FIFO cap of pay_for_profile drops only the oldest records: the stored
\* list is the newest MaxRecords views of the employer, in order.
AccessHistoryIsRecent ==
    \A e \in Account :
        LET n    == Len(history[e])
            kept == Len(access_records[e])
        IN  /\ kept = Min({n, MaxRecords})
            /\ \A i \in 1 .. kept :
                   LET p == history[e][n - kept + i]
                   IN  access_records[e][i] =
                           [seeker_id |-> p.seeker_id, amount |-> p.amount]

\* Overflow checks abort a call.  As long as all the NEAR there is, times the
\* share percentage, fits a u128, every deposit fits, and no employer who can
\* afford a view is refused by the multiplication in pay_for_profile.  The
\* addition to the seeker's earnings is a running total that nothing bounds
\* (the same NEAR may be earned again and again): it is refused for no seeker
\* who is still a whole supply away from the largest u128.
Supply == InitialNative + TotalOf(InitialWallet)
NoOverflowAbort ==
    FitsU128(Supply * SEEKER_SHARE_PERCENT) =>
        \A e \in Account :
            /\ FitsU128(balance[e] + wallet[e])
            /\ balance[e] >= profile_view_cost =>
                   /\ FitsU128(ShareProduct(profile_view_cost))
                   /\ \A s \in Account :
                          LET earned == seeker_earnings[s].total_earned
                          IN  FitsU128(earned + Supply) =>
                                  FitsU128(earned
                                           + SeekerShare(profile_view_cost))

\* A balance goes down only by a withdrawal to the employer itself, or by one
\* view at the current price, called for by the employer or by an agent that
\* is authorised at that moment (pay_for_profile, withdraw, revoke_agent).
SpendAuthorised ==
    [][\A e \in Account : balance'[e] < balance[e] =>
          \/ \E t \in pending' \ pending :
                 t.to = e /\ t.amount = balance[e] - balance'[e]
          \/ /\ balance[e] - balance'[e] = profile_view_cost
             /\ Len(history'[e]) = Len(history[e]) + 1
             /\ LET payer == history'[e][Len(history'[e])].payer
                IN  payer = e \/ payer \in authorized_agents[e]]_vars
=============================================================================
