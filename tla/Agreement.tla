----------------------------- MODULE Agreement ------------------------------
(***************************************************************************)
(* Approving, rejecting and recording one agreement                        *)
(* (backend/src/agreement/agreement.service.ts) by concurrent API calls on *)
(* a PostgreSQL row at READ COMMITTED.                                     *)
(*                                                                         *)
(* approve runs in a transaction that locks the row first.  reject and     *)
(* confirmTx do not: they read the row, change the entity in memory and    *)
(* save it, which is a SELECT and an UPDATE (EntitySave).  An UPDATE waits *)
(* for the row lock, a SELECT does not.                                    *)
(*                                                                         *)
(* The agreement hash depends only on columns that never change here, so   *)
(* one value Hash stands for it.                                           *)
(*                                                                         *)
(* An operator whose name has an underscore is a plausible bug in the      *)
(* definition after it: the checked properties must notice it in that      *)
(* definition's place.                                                     *)
(***************************************************************************)
EXTENDS Naturals, EntitySave

CONSTANTS
    Seeker, Employer,  \* the two participants of the session
    Stranger,          \* any other signed-in user
    Call,              \* API calls that may be made
    TxHash,            \* hashes clients may report with confirm-tx
    Hash,              \* computeAgreementHash of this session
    Null               \* SQL NULL, and no call

ASSUME AgreementAssumption ==
    /\ Seeker # Employer
    /\ Stranger \notin {Seeker, Employer}
    /\ Null \notin Call \cup TxHash \cup {Hash}

VARIABLES
    row,       \* the agreement columns of the negotiation_session row
    lock,      \* the approve call whose transaction holds the row lock
    stage,     \* how far each call has come
    request,   \* what each call asks for
    entity,    \* the `session` object of each call
    seen,      \* what the SELECT of each call's save returned
    answer,    \* the response of each call
    emitted    \* AGREEMENT_UPDATE events emitted for each user so far

vars == <<row, lock, stage, request, entity, seen, answer, emitted>>

User == {Seeker, Employer, Stranger}

\* The row as executeRounds leaves it when the agents agree.
AgreedRow == [state |-> "AGREED",
              seekerApproved |-> FALSE, employerApproved |-> FALSE,
              agreementHash |-> Null, onChainTxHash |-> Null]

Request == [kind : {"approve", "reject"}, user : User, tx : {Null}]
             \cup [kind : {"confirm"}, user : User, tx : TxHash]
NoRequest == [kind |-> "none", user |-> Stranger, tx |-> Null]

\* Stages.  begun: routed to the service.  locked, committing: inside approve's
\* transaction.  saving, updating: around the SELECT of reject's or
\* confirmTx's save.

-----------------------------------------------------------------------------

Init ==
    /\ row = AgreedRow
    /\ lock = Null
    /\ stage = [c \in Call |-> "free"]
    /\ request = [c \in Call |-> NoRequest]
    /\ entity = [c \in Call |-> AgreedRow]
    /\ seen = [c \in Call |-> AgreedRow]
    /\ answer = [c \in Call |-> "none"]
    /\ emitted = [u \in User |-> 0]

IsParticipant(user) == user \in {Seeker, Employer}
Counterpart(user) == IF user = Seeker THEN Employer ELSE Seeker

\* The lock of findOne(.., pessimistic_write) and of any UPDATE.
RowFree_Ignored == TRUE
RowFree == lock = Null

MoveTo(c, s) == stage' = [stage EXCEPT ![c] = s]

Respond(c, a) ==
    /\ stage' = [stage EXCEPT ![c] = "answered"]
    /\ answer' = [answer EXCEPT ![c] = a]

\* AGREEMENT_UPDATE for one user.
Emit(user) == emitted' = [emitted EXCEPT ![user] = @ + 1]

\* Why approve or reject refuses a call, or none.
Refusal(session, user) ==
    CASE session.state # "AGREED" -> "409"
      [] ~ IsParticipant(user)    -> "403"
      [] OTHER                    -> "none"

Begin(c, r) ==
    /\ stage[c] = "free"
    /\ MoveTo(c, "begun")
    /\ request' = [request EXCEPT ![c] = r]
    /\ UNCHANGED <<row, lock, entity, seen, answer, emitted>>

-----------------------------------------------------------------------------
\* approve

BothApproved(session) == session.seekerApproved /\ session.employerApproved

Approved(session, user) ==
    [session EXCEPT !.seekerApproved   = @ \/ user = Seeker,
                    !.employerApproved = @ \/ user = Employer]

\* Both reads and the checks: the row cannot change between them.
ApproveLock(c) ==
    LET refusal == Refusal(row, request[c].user)
    IN  /\ stage[c] = "begun"
        /\ request[c].kind = "approve"
        /\ RowFree
        /\ \/ /\ refusal # "none"
              /\ Respond(c, refusal)
              /\ UNCHANGED <<lock, entity>>
           \/ /\ refusal = "none"
              /\ lock' = c
              /\ entity' = [entity EXCEPT
                     ![c] = Approved(row, request[c].user)]
              /\ MoveTo(c, "locked")
              /\ UNCHANGED answer
        /\ UNCHANGED <<row, request, seen, emitted>>

\* Sealed(session): the agreement hash, once both have approved.
Sealed_Forgotten(session) == session
Sealed(session) == IF BothApproved(session)
                   THEN [session EXCEPT !.agreementHash = Hash]
                   ELSE session

\* The saves inside the transaction.  The event for the other party goes out
\* before the commit, and only if that party has not approved yet.
ApproveSave(c) ==
    /\ stage[c] = "locked"
    /\ seen' = [seen EXCEPT ![c] = row]
    /\ entity' = [entity EXCEPT ![c] = Sealed(@)]
    /\ IF BothApproved(entity[c]) THEN UNCHANGED emitted
                                  ELSE Emit(Counterpart(request[c].user))
    /\ MoveTo(c, "committing")
    /\ UNCHANGED <<row, lock, request, answer>>

ApproveCommit(c) ==
    /\ stage[c] = "committing"
    /\ row' = Saved(row, seen[c], entity[c])
    /\ lock' = Null
    /\ Respond(c, IF BothApproved(entity[c]) THEN "both_approved"
                                             ELSE "waiting_for_other_party")
    /\ UNCHANGED <<request, entity, seen, emitted>>

-----------------------------------------------------------------------------
\* reject and confirmTx

RejectRead(c) ==
    LET refusal == Refusal(row, request[c].user)
    IN  /\ stage[c] = "begun"
        /\ request[c].kind = "reject"
        /\ \/ /\ refusal # "none"
              /\ Respond(c, refusal)
              /\ UNCHANGED entity
           \/ /\ refusal = "none"
              /\ entity' = [entity EXCEPT ![c] = [row EXCEPT !.state = "FAILED"]]
              /\ MoveTo(c, "saving")
              /\ UNCHANGED answer
        /\ UNCHANGED <<row, lock, request, seen, emitted>>

\* confirmTx needs the hash, but neither a participant nor an AGREED session.
MayRecord(session) == session.agreementHash # Null

ConfirmRead(c) ==
    /\ stage[c] = "begun"
    /\ request[c].kind = "confirm"
    /\ \/ /\ ~ MayRecord(row)
          /\ Respond(c, "409")
          /\ UNCHANGED entity
       \/ /\ MayRecord(row)
          /\ entity' = [entity EXCEPT
                 ![c] = [row EXCEPT !.onChainTxHash = request[c].tx]]
          /\ MoveTo(c, "saving")
          /\ UNCHANGED answer
    /\ UNCHANGED <<row, lock, request, seen, emitted>>

SaveSelect(c) ==
    /\ stage[c] = "saving"
    /\ seen' = [seen EXCEPT ![c] = row]
    /\ MoveTo(c, "updating")
    /\ UNCHANGED <<row, lock, request, entity, answer, emitted>>

\* The UPDATE waits for the row lock; without a changed column there is none.
SaveUpdate(c) ==
    /\ stage[c] = "updating"
    /\ RowFree \/ entity[c] = seen[c]
    /\ row' = Saved(row, seen[c], entity[c])
    /\ IF request[c].kind = "reject"
       THEN Respond(c, "rejected") /\ Emit(Counterpart(request[c].user))
       ELSE Respond(c, "recorded") /\ UNCHANGED emitted
    /\ UNCHANGED <<lock, request, entity, seen>>

-----------------------------------------------------------------------------

\* A database error or a restart ends the call; its transaction rolls back.
ReleasedBy_LockKept(c) == lock
ReleasedBy(c) == IF lock = c THEN Null ELSE lock

Abort(c) ==
    /\ stage[c] \notin {"free", "answered"}
    /\ lock' = ReleasedBy(c)
    /\ Respond(c, "500")
    /\ UNCHANGED <<row, request, entity, seen, emitted>>

Run(c) ==
    \/ ApproveLock(c) \/ ApproveSave(c) \/ ApproveCommit(c)
    \/ RejectRead(c) \/ ConfirmRead(c) \/ SaveSelect(c) \/ SaveUpdate(c)

Next ==
    \/ \E c \in Call, r \in Request : Begin(c, r)
    \/ \E c \in Call : Run(c) \/ Abort(c)

Spec == Init /\ [][Next]_vars

\* PostgreSQL grants a free lock and runs every statement, and Node runs
\* every continuation.  FOR UPDATE waiters are served in turn: with finitely
\* many calls weak fairness of each is enough.
Fairness == \A c \in Call : WF_vars(Run(c))
FairSpec == Spec /\ Fairness

-----------------------------------------------------------------------------
(***************************************************************************)
(* Properties.                                                             *)
(***************************************************************************)

AtMostOneRejection ==
    \A c, d \in Call :
        answer[c] = "rejected" /\ answer[d] = "rejected" => c = d

\* In an AGREED session the columns of the agreement never disagree, although
\* the unlocked saves of reject and confirmTx may overwrite them with what
\* they read earlier: the hash is there exactly when both participants have
\* approved, and a transaction only with it (approve, reject, confirmTx).
\* With two rejections it is not so: the save of the second may write old
\* columns into a session that a confirmTx has revived after the first.
AgreementIsWhole ==
    AtMostOneRejection /\ row.state = "AGREED" =>
        /\ BothApproved(row) <=> row.agreementHash = Hash
        /\ row.onChainTxHash # Null => row.agreementHash = Hash

\* An approval that was answered is never lost by whatever runs at the same
\* time, as long as the session is not rejected, or is rejected once and
\* revived by a confirmTx (approve, reject, confirmTx).
AnsweredApprovalKept ==
    \A c \in Call :
        /\ answer[c] \in {"waiting_for_other_party", "both_approved"}
        /\ AtMostOneRejection
        /\ row.state = "AGREED"
        => row = Approved(row, request[c].user)

\* When both participants were told that their approval is in, one of them
\* was given the transaction to sign, or the session was rejected: two
\* simultaneous approvals do not both wait for the other (approve).
SomeoneGetsTransaction ==
    \A c, d \in Call :
        /\ answer[c] = "waiting_for_other_party"
        /\ answer[d] = "waiting_for_other_party"
        /\ request[c].user # request[d].user
        => \/ row.state = "FAILED"
           \/ \E e \in Call : answer[e] = "both_approved"

\* No approval, however late, brings a rejected session back to AGREED: only
\* a confirmTx that read the session before the rejection does (approve,
\* reject, confirmTx).
OnlyConfirmRevives ==
    [][row.state = "FAILED" /\ row'.state # "FAILED" =>
          \E c \in Call : /\ request[c].kind = "confirm"
                          /\ stage[c] = "updating"
                          /\ stage'[c] = "answered"]_vars

\* No call waits for the row lock for ever, whatever calls fail while they
\* hold it (approve, reject, confirmTx).
EveryCallAnswered ==
    \A c \in Call : stage[c] = "begun" ~> stage[c] = "answered"

(***************************************************************************)
(* What a document says of the flow, and the code does not do.             *)
(***************************************************************************)

\* docs/superpowers/plans/hyunjeong/phase-12-post-negotiation-flow.md: a
\* rejection cannot be taken back.  confirmTx writes the state it has read
\* before the rejection.
RejectionIsFinal ==
    [][row.state = "FAILED" => row'.state = "FAILED"]_vars

\* docs/superpowers/plans/seungyeon/phase-6-agreement-onchain.md: the hash of
\* the transaction is recorded after both have approved and the agreement
\* hash was computed.  A second rejection, saved after a confirmTx revived the
\* session, takes approvals and hash out of an agreement that is recorded.
RecordedIsApproved ==
    row.state = "AGREED" /\ row.onChainTxHash # Null =>
        BothApproved(row) /\ row.agreementHash = Hash
=============================================================================
