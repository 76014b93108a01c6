----------------------------- MODULE EscrowPage -----------------------------
(***************************************************************************)
(* An employer's escrow page (frontend/src/app/escrow/page.tsx with         *)
(* lib/near.ts): the balance it shows of the contract, deposits, and the    *)
(* key by which the server's agent pays from the employer's account         *)
(* (backend/src/escrow).  What payments do to the contract is the module    *)
(* EscrowContract.  Opening the page again starts over.                     *)
(***************************************************************************)
EXTENDS Naturals, FiniteSets

CONSTANTS
    Key,        \* keys of the agent: without a seed each start makes a new one
    Call,       \* what may be under way at the same time
    MaxBalance, \* bound of the model
    MaxFaults,  \* bound of the model: lost requests and restarts
    Null

VARIABLES
    balance,  \* of the employer, in the contract
    keys,     \* the agent's keys on the employer's account
    agentKey, \* the server's key
    page,     \* escrow: [balance, agentKeySet] or Null, and agentPubKey
    calls,
    faults

vars == <<balance, keys, agentKey, page, calls, faults>>

Retries == 3

\* A request, with the balance that the page shows when it is made.
Shown == IF page.escrow = Null THEN 0 ELSE page.escrow.balance
Ask(kind) == [kind |-> kind, at |-> "sent", answer |-> Null, prev |-> Shown]
Put(c, r) == calls' = [calls EXCEPT ![c] = r]
Pending(kind) == \E c \in Call : calls[c] # Null /\ calls[c].kind = kind

\* Which of the account's keys lets the agent pay: this very one.
HasKey_Any(key) == keys # {}
HasKey(key) == key \in keys

Init ==
    /\ balance = 0
    /\ keys \in SUBSET Key
    /\ agentKey \in Key
    /\ page = [escrow |-> Null, agentPubKey |-> Null, loading |-> TRUE]
    /\ calls = [c \in Call |-> Null]
    /\ faults = 0

-----------------------------------------------------------------------------
\* What the page asks for.

Begin(c, kind) ==
    /\ calls[c] = Null
    /\ Put(c, Ask(kind))
    /\ UNCHANGED <<balance, keys, agentKey, page, faults>>

Load(c) == page.loading /\ ~Pending("load") /\ Begin(c, "load")

Deposits == Cardinality({c \in Call : calls[c] # Null /\ calls[c].kind = "deposit" /\ calls[c].at = "sent"})
Deposit(c) ==
    /\ ~page.loading /\ ~Pending("deposit")
    /\ balance + Deposits < MaxBalance
    /\ Begin(c, "deposit")

AddKey(c) ==
    /\ ~page.loading /\ ~Pending("addKey")
    /\ page.agentPubKey # Null
    /\ page.escrow # Null => ~page.escrow.agentKeySet
    /\ Begin(c, "addKey")

-----------------------------------------------------------------------------
\* The contract, the employer's account and the server.

Answered(c, answer) == Put(c, [calls[c] EXCEPT !.at = "back", !.answer = answer])

\* A request is done, or fails without an effect.  The server answers 0 for a
\* balance it cannot read.
Serve(c) ==
    /\ calls[c] # Null /\ calls[c].at = "sent"
    /\ LET kind == calls[c].kind
           read == {balance} \cup (IF faults < MaxFaults THEN {0} ELSE {})
       IN  \/ /\ kind = "load"
              /\ \E b \in read \cup {Null}, k \in {agentKey, Null} : Answered(c, [balance |-> b, key |-> k])
              /\ UNCHANGED <<balance, keys>>
           \/ /\ kind = "check"
              /\ Answered(c, HasKey(calls[c].key)) /\ UNCHANGED <<balance, keys>>
           \/ /\ kind = "refresh"
              /\ \E b \in read : Answered(c, b)
              /\ UNCHANGED <<balance, keys>>
           \/ /\ kind = "deposit"
              /\ balance' = balance + 1 /\ Answered(c, Null) /\ UNCHANGED keys
           \/ /\ kind = "addKey" /\ page.agentPubKey \notin keys
              /\ keys' = keys \cup {page.agentPubKey} /\ Answered(c, Null) /\ UNCHANGED balance
    /\ UNCHANGED <<agentKey, page, faults>>

\* The agent pays for a profile with its key.
Pay ==
    /\ agentKey \in keys /\ balance > 0
    /\ balance' = balance - 1
    /\ UNCHANGED <<keys, agentKey, page, calls, faults>>

Fault == faults < MaxFaults /\ faults' = faults + 1

Restart ==
    /\ Fault
    /\ agentKey' \in Key
    /\ UNCHANGED <<balance, keys, page, calls>>

\* A request fails, before or after it had its effect.
Lose(c) ==
    /\ calls[c] # Null
    /\ \/ Fault
       \/ calls[c].kind = "addKey" /\ page.agentPubKey \in keys /\ UNCHANGED faults
    /\ calls[c].at # "failed" /\ Put(c, [calls[c] EXCEPT !.at = "failed"])
    /\ UNCHANGED <<balance, keys, agentKey, page>>

-----------------------------------------------------------------------------
\* The page goes on.

Escrow(b) == [balance |-> b, agentKeySet |-> FALSE]
Show(escrow) == page' = [page EXCEPT !.escrow = escrow]

\* refreshBalance, with the balance of the click; it does not wait for it.
Refresh(prev) == [kind |-> "refresh", at |-> "sent", answer |-> Null, prev |-> prev, tries |-> 0]

Return(c) ==
    /\ calls[c] # Null /\ calls[c].at = "back"
    /\ LET kind == calls[c].kind  a == calls[c].answer  e == page.escrow
       IN  \/ /\ kind = "load"
              /\ page' = [escrow |-> IF a.balance = Null THEN e ELSE Escrow(a.balance),
                          agentPubKey |-> a.key, loading |-> FALSE]
              /\ Put(c, IF a.key = Null THEN Null
                        ELSE [kind |-> "check", at |-> "sent", answer |-> Null, key |-> a.key])
           \/ /\ kind = "check"
              /\ IF a /\ e # Null THEN Show([e EXCEPT !.agentKeySet = TRUE]) ELSE UNCHANGED page
              /\ Put(c, Null)
           \/ /\ kind = "addKey"
              /\ IF e # Null THEN Show([e EXCEPT !.agentKeySet = TRUE]) ELSE UNCHANGED page
              /\ Put(c, Null)
           \/ /\ kind = "deposit"
              /\ IF e # Null THEN Show([e EXCEPT !.balance = @ + 1]) ELSE UNCHANGED page
              /\ Put(c, Refresh(calls[c].prev))
           \/ /\ kind = "refresh"
              /\ IF a # calls[c].prev \/ calls[c].tries = Retries
                 THEN Show(Escrow(a)) /\ Put(c, Null)
                 ELSE UNCHANGED page /\ Put(c, [calls[c] EXCEPT !.at = "sent", !.tries = @ + 1])
    /\ UNCHANGED <<balance, keys, agentKey, faults>>

\* Without the server the balance is asked of the chain.
Catch(c) ==
    /\ calls[c] # Null /\ calls[c].at = "failed"
    /\ LET r == calls[c]  e == page.escrow
       IN  \/ /\ r.kind = "load"
              /\ page' = [page EXCEPT !.loading = FALSE] /\ Put(c, Null)
           \/ /\ r.kind \in {"check", "deposit", "addKey"}
              /\ UNCHANGED page /\ Put(c, Null)
           \/ /\ r.kind = "refresh" /\ r.tries < Retries
              /\ balance # r.prev
              /\ IF e # Null THEN Show([e EXCEPT !.balance = balance]) ELSE UNCHANGED page
              /\ Put(c, Null)
           \/ /\ r.kind = "refresh"
              /\ Put(c, IF r.tries = Retries THEN Null
                        ELSE [r EXCEPT !.at = "sent", !.tries = @ + 1])
              /\ UNCHANGED page
    /\ UNCHANGED <<balance, keys, agentKey, faults>>

-----------------------------------------------------------------------------

Next ==
    \/ Pay \/ Restart
    \/ \E c \in Call : \/ Load(c) \/ Deposit(c) \/ AddKey(c)
                       \/ Serve(c) \/ Lose(c) \/ Return(c) \/ Catch(c)

Spec == Init /\ [][Next]_vars

-----------------------------------------------------------------------------

\* "Agent Key: Configured" is shown only for the key that the page shows and
\* that the account has: keys of earlier starts of the server, late checks and
\* failed transactions never make it look configured (escrow/page.tsx).
KeyShownIsThere ==
    page.escrow # Null /\ page.escrow.agentKeySet => page.agentPubKey \in keys

-----------------------------------------------------------------------------
\* Why: the page loads once, before anything else, so the key it shows never
\* changes; a check asks for that key, and the account's keys are never removed.
IsCall(r) ==
    /\ r.kind \in {"load", "deposit", "addKey"} =>
         r = [kind |-> r.kind, at |-> r.at, answer |-> r.answer, prev |-> r.prev]
    /\ r.kind = "check" => r = [kind |-> r.kind, at |-> r.at, answer |-> r.answer, key |-> r.key]
    /\ r.kind = "refresh" => r = [kind |-> r.kind, at |-> r.at, answer |-> r.answer,
                                  prev |-> r.prev, tries |-> r.tries]
    /\ r.kind \in {"load", "deposit", "addKey", "check", "refresh"}
IsEscrow(e) == e = [balance |-> e.balance, agentKeySet |-> e.agentKeySet] /\ e.agentKeySet \in BOOLEAN
TypeOK ==
    /\ page = [escrow |-> page.escrow, agentPubKey |-> page.agentPubKey, loading |-> page.loading]
    /\ page.loading \in BOOLEAN
    /\ page.escrow # Null => IsEscrow(page.escrow)
    /\ calls = [c \in Call |-> calls[c]] /\ \A c \in Call : calls[c] # Null => IsCall(calls[c])

LoadsFirst ==
    /\ page.loading => page.escrow = Null
    /\ page.loading => \A c, d \in Call : calls[c] # Null /\ calls[d] # Null => c = d
    /\ \A c \in Call : calls[c] # Null => (calls[c].kind = "load" <=> page.loading)
Holds(r) ==
    /\ r.kind = "check" => /\ r.key = page.agentPubKey
                           /\ r.at = "back" => r.answer \in BOOLEAN /\ (r.answer => r.key \in keys)
    /\ r.kind = "addKey" /\ r.at = "back" => page.agentPubKey \in keys
AnswersAreTrue == \A c \in Call : calls[c] # Null => Holds(calls[c])

KeyShownInv == TypeOK /\ LoadsFirst /\ AnswersAreTrue /\ KeyShownIsThere
=============================================================================
