-------------------------- MODULE Agreement_proofs --------------------------
(***************************************************************************)
(* Proofs about Agreement, for any number of concurrent calls and of       *)
(* transaction hashes.                                                     *)
(***************************************************************************)
EXTENDS Agreement, TLAPS

-----------------------------------------------------------------------------
\* What the variables hold.

Row == [state : {"AGREED", "FAILED"},
        seekerApproved : BOOLEAN, employerApproved : BOOLEAN,
        agreementHash : {Hash, Null}, onChainTxHash : TxHash \cup {Null}]

Stage == {"free", "begun", "locked", "committing", "saving", "updating",
          "answered"}

Answer == {"none", "409", "403", "500", "waiting_for_other_party",
           "both_approved", "rejected", "recorded"}

Types ==
    /\ row \in Row
    /\ lock \in Call \cup {Null}
    /\ stage \in [Call -> Stage]
    /\ request \in [Call -> Request \cup {NoRequest}]
    /\ entity \in [Call -> Row]
    /\ seen \in [Call -> Row]
    /\ answer \in [Call -> Answer]

\* Column by column, what a save leaves.
LEMMA SavedColumns ==
    ASSUME NEW current \in Row, NEW read \in Row, NEW object \in Row
    PROVE  /\ Saved(current, read, object) \in Row
           /\ \A c \in {"state", "seekerApproved", "employerApproved",
                        "agreementHash", "onChainTxHash"} :
                  Saved(current, read, object)[c] =
                      IF object[c] = read[c] THEN current[c] ELSE object[c]
<1> DEFINE Column == {"state", "seekerApproved", "employerApproved",
                      "agreementHash", "onChainTxHash"}
           new == Saved(current, read, object)
<1>1. DOMAIN object = Column
  BY DEF Row
<1>2. new = [c \in Column |-> IF object[c] = read[c] THEN current[c]
                                                     ELSE object[c]]
  BY <1>1 DEF Saved
<1>3. \A r \in Row : /\ r["state"] \in {"AGREED", "FAILED"}
                     /\ r["seekerApproved"] \in BOOLEAN
                     /\ r["employerApproved"] \in BOOLEAN
                     /\ r["agreementHash"] \in {Hash, Null}
                     /\ r["onChainTxHash"] \in TxHash \cup {Null}
  BY DEF Row
<1>4. /\ new["state"] \in {"AGREED", "FAILED"}
      /\ new["seekerApproved"] \in BOOLEAN
      /\ new["employerApproved"] \in BOOLEAN
      /\ new["agreementHash"] \in {Hash, Null}
      /\ new["onChainTxHash"] \in TxHash \cup {Null}
  BY <1>2, <1>3
<1>5. new = [state |-> new["state"],
             seekerApproved |-> new["seekerApproved"],
             employerApproved |-> new["employerApproved"],
             agreementHash |-> new["agreementHash"],
             onChainTxHash |-> new["onChainTxHash"]]
  BY <1>2
<1>. QED
  BY <1>2, <1>4, <1>5 DEF Row

\* An entity that is what the SELECT found writes nothing.
LEMMA SavedUnchanged ==
    ASSUME NEW current \in Row, NEW object \in Row
    PROVE  Saved(current, object, object) = current
<1>1. DOMAIN object = DOMAIN current
  BY DEF Row
<1>2. current = [c \in DOMAIN current |-> current[c]]
  BY DEF Row
<1>. QED
  BY <1>1, <1>2 DEF Saved

\* When nothing happened since the SELECT, the entity becomes the row.
LEMMA SavedOverRead ==
    ASSUME NEW current \in Row, NEW object \in Row
    PROVE  Saved(current, current, object) = object
<1>1. DOMAIN object = DOMAIN current
  BY DEF Row
<1>2. object = [c \in DOMAIN object |-> object[c]]
  BY DEF Row
<1>. QED
  BY <1>1, <1>2 DEF Saved

LEMMA ApprovedColumns ==
    ASSUME NEW r \in Row, NEW u
    PROVE  /\ Approved(r, u) \in Row
           /\ Approved(r, u).state = r.state
           /\ Approved(r, u).seekerApproved = (r.seekerApproved \/ u = Seeker)
           /\ Approved(r, u).employerApproved =
                  (r.employerApproved \/ u = Employer)
           /\ Approved(r, u).agreementHash = r.agreementHash
           /\ Approved(r, u).onChainTxHash = r.onChainTxHash
BY DEF Approved, Row

\* The approval of one user is in the row when approving changes nothing.
LEMMA ApprovedAlready ==
    ASSUME NEW r \in Row, NEW u
    PROVE  r = Approved(r, u) <=> /\ u = Seeker => r.seekerApproved
                                  /\ u = Employer => r.employerApproved
BY DEF Approved, Row

LEMMA SealedColumns ==
    ASSUME NEW r \in Row
    PROVE  /\ Sealed(r) \in Row
           /\ Sealed(r).state = r.state
           /\ Sealed(r).seekerApproved = r.seekerApproved
           /\ Sealed(r).employerApproved = r.employerApproved
           /\ Sealed(r).agreementHash =
                  IF BothApproved(r) THEN Hash ELSE r.agreementHash
           /\ Sealed(r).onChainTxHash = r.onChainTxHash
BY DEF Sealed, BothApproved, Row

LEMMA NotRefused ==
    ASSUME NEW r, NEW u
    PROVE  /\ Refusal(r, u) = "none" <=> r.state = "AGREED" /\ IsParticipant(u)
           /\ Refusal(r, u) \in {"none", "409", "403"}
BY DEF Refusal

-----------------------------------------------------------------------------
LEMMA InitTypes == Init => Types
BY DEF Init, Types, AgreedRow, Row, Stage, Answer

LEMMA TypesInductive == Types /\ [Next]_vars => Types'
<1> SUFFICES ASSUME Types, [Next]_vars PROVE Types'
  OBVIOUS
<1>1. ASSUME NEW c \in Call, NEW r \in Request, Begin(c, r)
      PROVE  Types'
  BY <1>1 DEF Types, Begin, MoveTo, Stage
<1>2. ASSUME NEW c \in Call, ApproveLock(c)
      PROVE  Types'
  <2>1. Approved(row, request[c].user) \in Row
    BY ApprovedColumns DEF Types
  <2>2. Refusal(row, request[c].user) \in {"none", "409", "403"}
    BY NotRefused
  <2>. QED
    BY <1>2, <2>1, <2>2 DEF Types, ApproveLock, MoveTo, Respond, Stage, Answer
<1>3. ASSUME NEW c \in Call, ApproveSave(c)
      PROVE  Types'
  <2>1. Sealed(entity[c]) \in Row
    BY SealedColumns DEF Types
  <2>. QED
    BY <1>3, <2>1 DEF Types, ApproveSave, MoveTo, Stage
<1>4. ASSUME NEW c \in Call, ApproveCommit(c)
      PROVE  Types'
  <2>1. Saved(row, seen[c], entity[c]) \in Row
    BY SavedColumns DEF Types
  <2>. QED
    BY <1>4, <2>1 DEF Types, ApproveCommit, Respond, Stage, Answer
<1>5. ASSUME NEW c \in Call, RejectRead(c)
      PROVE  Types'
  <2>1. [row EXCEPT !.state = "FAILED"] \in Row
    BY DEF Types, Row
  <2>2. Refusal(row, request[c].user) \in {"none", "409", "403"}
    BY NotRefused
  <2>. QED
    BY <1>5, <2>1, <2>2 DEF Types, RejectRead, MoveTo, Respond, Stage, Answer
<1>6. ASSUME NEW c \in Call, ConfirmRead(c)
      PROVE  Types'
  <2>1. request[c] \in Request \cup {NoRequest} /\ request[c].kind = "confirm"
    BY <1>6 DEF Types, ConfirmRead
  <2>2. request[c].tx \in TxHash
    BY <2>1 DEF Request, NoRequest
  <2>3. [row EXCEPT !.onChainTxHash = request[c].tx] \in Row
    BY <2>2 DEF Types, Row
  <2>. QED
    BY <1>6, <2>3 DEF Types, ConfirmRead, MoveTo, Respond, Stage, Answer
<1>7. ASSUME NEW c \in Call, SaveSelect(c)
      PROVE  Types'
  BY <1>7 DEF Types, SaveSelect, MoveTo, Stage
<1>8. ASSUME NEW c \in Call, SaveUpdate(c)
      PROVE  Types'
  <2>1. Saved(row, seen[c], entity[c]) \in Row
    BY SavedColumns DEF Types
  <2>. QED
    BY <1>8, <2>1 DEF Types, SaveUpdate, Respond, Stage, Answer
<1>9. ASSUME NEW c \in Call, Abort(c)
      PROVE  Types'
  BY <1>9 DEF Types, Abort, ReleasedBy, Respond, Stage, Answer
<1>10. CASE UNCHANGED vars
  BY <1>10 DEF Types, vars
<1>. QED
  BY <1>1, <1>2, <1>3, <1>4, <1>5, <1>6, <1>7, <1>8, <1>9, <1>10 DEF Next, Run

-----------------------------------------------------------------------------
\* The row lock, and how far the calls have come.

InTransaction(c) == stage[c] \in {"locked", "committing"}
InSave(c) == stage[c] \in {"saving", "updating"}
ToldApproved(c) == answer[c] \in {"waiting_for_other_party", "both_approved"}

\* A transaction holds the row lock, and as long as it does the row is what it
\* has read.
LockOf(c) ==
    /\ InTransaction(c) <=> lock = c
    /\ InTransaction(c) => /\ IsParticipant(request[c].user)
                           /\ row.state = "AGREED"
    /\ stage[c] = "locked" => entity[c] = Approved(row, request[c].user)
    /\ stage[c] = "committing" =>
           /\ seen[c] = row
           /\ entity[c] = Sealed(Approved(row, request[c].user))

\* What a call has read fits what it was asked to do.
OrderOf(c) ==
    /\ InSave(c) => request[c].kind \in {"reject", "confirm"}
    /\ InSave(c) /\ request[c].kind = "reject" => entity[c].state = "FAILED"
    /\ InSave(c) /\ request[c].kind = "confirm" => MayRecord(entity[c])
    /\ answer[c] # "none" => stage[c] = "answered"
    /\ ToldApproved(c) => IsParticipant(request[c].user)

Orderly == Types /\ \A c \in Call : LockOf(c) /\ OrderOf(c)

\* What is saved while a transaction holds the lock changes nothing.
LEMMA LockedRowStays ==
    ASSUME Orderly, NEW c \in Call, SaveUpdate(c), lock # Null
    PROVE  row' = row
<1>1. entity[c] = seen[c]
  BY DEF SaveUpdate, RowFree
<1>2. row \in Row /\ entity[c] \in Row
  BY DEF Orderly, Types
<1>. QED
  BY <1>1, <1>2, SavedUnchanged DEF SaveUpdate

\* A commit makes the transaction's entity the row.
LEMMA CommitStores ==
    ASSUME Orderly, NEW c \in Call, ApproveCommit(c)
    PROVE  /\ row.state = "AGREED"
           /\ IsParticipant(request[c].user)
           /\ entity[c] = Sealed(Approved(row, request[c].user))
           /\ row' = entity[c]
<1>1. /\ seen[c] = row /\ entity[c] = Sealed(Approved(row, request[c].user))
      /\ row.state = "AGREED" /\ IsParticipant(request[c].user)
  BY DEF Orderly, LockOf, InTransaction, ApproveCommit
<1>2. row \in Row /\ entity[c] \in Row
  BY DEF Orderly, Types
<1>. QED
  BY <1>1, <1>2, SavedOverRead DEF ApproveCommit

LEMMA LockInductive ==
    ASSUME Orderly, [Next]_vars, NEW d \in Call
    PROVE  LockOf(d)'
<1> USE AgreementAssumption DEF LockOf, InTransaction
<1>0. Types /\ LockOf(d)
  BY DEF Orderly
<1>1. ASSUME NEW c \in Call, NEW r \in Request, Begin(c, r)
      PROVE  LockOf(d)'
  BY <1>0, <1>1 DEF Types, Begin, MoveTo
<1>2. ASSUME NEW c \in Call, ApproveLock(c)
      PROVE  LockOf(d)'
  <2>1. CASE Refusal(row, request[c].user) # "none"
    BY <1>0, <1>2, <2>1 DEF Types, ApproveLock, Respond
  <2>2. CASE Refusal(row, request[c].user) = "none"
    <3>1. row.state = "AGREED" /\ IsParticipant(request[c].user)
      BY <2>2, NotRefused
    <3>. QED
      BY <1>0, <1>2, <2>2, <3>1 DEF Types, ApproveLock, MoveTo, RowFree
  <2>. QED
    BY <2>1, <2>2
<1>3. ASSUME NEW c \in Call, ApproveSave(c)
      PROVE  LockOf(d)'
  BY <1>0, <1>3 DEF Types, ApproveSave, MoveTo
<1>4. ASSUME NEW c \in Call, ApproveCommit(c)
      PROVE  LockOf(d)'
  <2>1. lock = c /\ (c # d => ~ InTransaction(d))
    BY <1>0, <1>4 DEF Orderly, ApproveCommit
  <2>2. /\ lock' = Null
        /\ stage' = [stage EXCEPT ![c] = "answered"]
    BY <1>4 DEF ApproveCommit, Respond
  <2>. QED
    BY <1>0, <2>1, <2>2 DEF Types
<1>5. ASSUME NEW c \in Call, RejectRead(c) \/ ConfirmRead(c)
      PROVE  LockOf(d)'
  BY <1>0, <1>5 DEF Types, RejectRead, ConfirmRead, MoveTo, Respond
<1>6. ASSUME NEW c \in Call, SaveSelect(c)
      PROVE  LockOf(d)'
  BY <1>0, <1>6 DEF Types, SaveSelect, MoveTo
<1>7. ASSUME NEW c \in Call, SaveUpdate(c)
      PROVE  LockOf(d)'
  <2>1. lock # Null => row' = row
    BY <1>7, LockedRowStays
  <2>2. /\ UNCHANGED <<lock, request, entity, seen>>
        /\ stage' = [stage EXCEPT ![c] = "answered"]
        /\ stage[c] = "updating"
    BY <1>7 DEF SaveUpdate, Respond
  <2>. QED
    BY <1>0, <2>1, <2>2 DEF Types
<1>8. ASSUME NEW c \in Call, Abort(c)
      PROVE  LockOf(d)'
  BY <1>0, <1>8 DEF Types, Abort, ReleasedBy, Respond
<1>9. CASE UNCHANGED vars
  BY <1>0, <1>9 DEF vars
<1>. QED
  BY <1>1, <1>2, <1>3, <1>4, <1>5, <1>6, <1>7, <1>8, <1>9 DEF Next, Run

LEMMA OrderInductive ==
    ASSUME Orderly, [Next]_vars, NEW d \in Call
    PROVE  OrderOf(d)'
<1> USE DEF OrderOf, InSave, ToldApproved
<1>0. Types /\ OrderOf(d)
  BY DEF Orderly
<1>1. ASSUME NEW c \in Call, NEW r \in Request, Begin(c, r)
      PROVE  OrderOf(d)'
  BY <1>0, <1>1 DEF Types, Begin, MoveTo
<1>2. ASSUME NEW c \in Call, ApproveLock(c)
      PROVE  OrderOf(d)'
  <2>1. Refusal(row, request[c].user) \in {"none", "409", "403"}
    BY NotRefused
  <2>. QED
    BY <1>0, <1>2, <2>1 DEF Types, ApproveLock, MoveTo, Respond
<1>3. ASSUME NEW c \in Call, ApproveSave(c)
      PROVE  OrderOf(d)'
  BY <1>0, <1>3 DEF Types, ApproveSave, MoveTo
<1>4. ASSUME NEW c \in Call, ApproveCommit(c)
      PROVE  OrderOf(d)'
  <2>1. IsParticipant(request[c].user)
    BY <1>4, CommitStores
  <2>. QED
    BY <1>0, <1>4, <2>1 DEF Types, ApproveCommit, Respond
<1>5. ASSUME NEW c \in Call, RejectRead(c)
      PROVE  OrderOf(d)'
  <2>1. Refusal(row, request[c].user) \in {"none", "409", "403"}
    BY NotRefused
  <2>2. [row EXCEPT !.state = "FAILED"].state = "FAILED"
    BY <1>0 DEF Types, Row
  <2>. QED
    BY <1>0, <1>5, <2>1, <2>2, ZenonT(30)
       DEF Types, RejectRead, MoveTo, Respond
<1>6. ASSUME NEW c \in Call, ConfirmRead(c)
      PROVE  OrderOf(d)'
  <2>1. [row EXCEPT !.onChainTxHash = request[c].tx].agreementHash =
            row.agreementHash
    BY <1>0 DEF Types, Row
  <2>. QED
    BY <1>0, <1>6, <2>1, ZenonT(30)
       DEF Types, ConfirmRead, MoveTo, Respond, MayRecord
<1>7. ASSUME NEW c \in Call, SaveSelect(c)
      PROVE  OrderOf(d)'
  BY <1>0, <1>7 DEF Types, SaveSelect, MoveTo, MayRecord
<1>8. ASSUME NEW c \in Call, SaveUpdate(c)
      PROVE  OrderOf(d)'
  BY <1>0, <1>8 DEF Types, SaveUpdate, Respond, MayRecord
<1>9. ASSUME NEW c \in Call, Abort(c)
      PROVE  OrderOf(d)'
  BY <1>0, <1>9 DEF Types, Abort, Respond, MayRecord
<1>10. CASE UNCHANGED vars
  BY <1>0, <1>10 DEF vars, MayRecord
<1>. QED
  BY <1>1, <1>2, <1>3, <1>4, <1>5, <1>6, <1>7, <1>8, <1>9, <1>10
     DEF Next, Run

LEMMA OrderlyInvariant == Spec => []Orderly
<1>1. Init => Orderly
  BY InitTypes, AgreementAssumption
     DEF Init, Orderly, LockOf, OrderOf, InTransaction, InSave, ToldApproved
<1>2. Orderly /\ [Next]_vars => Orderly'
  BY TypesInductive, LockInductive, OrderInductive DEF Orderly
<1>. QED
  BY <1>1, <1>2, PTL DEF Spec

-----------------------------------------------------------------------------
\* A confirmTx that read the session before the rejection is all that brings it
\* back to AGREED: an approval holds the lock from its check to its commit, and
\* a rejection writes FAILED or leaves the state alone.
THEOREM OnlyConfirmTxRevives == Spec => OnlyConfirmRevives
<1> DEFINE Revived == row.state = "FAILED" /\ row'.state # "FAILED"
           ByConfirm == \E c \in Call : /\ request[c].kind = "confirm"
                                        /\ stage[c] = "updating"
                                        /\ stage'[c] = "answered"
<1>1. ASSUME Orderly, Next, Revived
      PROVE  ByConfirm
  <2>1. ASSUME NEW c \in Call, ApproveCommit(c)
        PROVE  FALSE
    BY <1>1, <2>1, CommitStores
  <2>2. ASSUME NEW c \in Call, SaveUpdate(c)
        PROVE  ByConfirm
    <3>1. stage[c] = "updating" /\ stage'[c] = "answered"
      BY <1>1, <2>2 DEF Orderly, Types, SaveUpdate, Respond
    <3>2. row' = Saved(row, seen[c], entity[c])
      BY <2>2 DEF SaveUpdate
    <3>3. row \in Row /\ seen[c] \in Row /\ entity[c] \in Row
      BY <1>1 DEF Orderly, Types
    <3>4. row'.state = IF entity[c].state = seen[c].state
                       THEN row.state ELSE entity[c].state
      BY <3>2, <3>3, SavedColumns
    <3>5. request[c].kind # "reject"
      BY <1>1, <3>1, <3>4 DEF Orderly, OrderOf, InSave
    <3>6. request[c].kind = "confirm"
      BY <1>1, <3>1, <3>5 DEF Orderly, OrderOf, InSave
    <3>. QED
      BY <3>1, <3>6
  <2>. QED
    BY <1>1, <2>1, <2>2
       DEF Next, Run, Begin, ApproveLock, ApproveSave, RejectRead,
           ConfirmRead, SaveSelect, Abort
<1>2. Orderly /\ [Next]_vars => [Revived => ByConfirm]_vars
  BY <1>1
<1>. QED
  BY <1>2, OrderlyInvariant, PTL DEF Spec, OnlyConfirmRevives

-----------------------------------------------------------------------------
\* While nobody has rejected the session.

IsFull(r) == BothApproved(r) /\ r.agreementHash = Hash

Consistent(r) ==
    /\ BothApproved(r) <=> r.agreementHash = Hash
    /\ r.onChainTxHash # Null => r.agreementHash = Hash

Confirming(c) == InSave(c) /\ request[c].kind = "confirm"

HasApproval(r, u) == /\ u = Seeker => r.seekerApproved
                     /\ u = Employer => r.employerApproved

NoRejection == \A c \in Call : answer[c] # "rejected"

\* The row only gains: every confirmTx on its way has read a full agreement,
\* no save on its way has seen a rejected session, and all approvals that were
\* answered are in.
OngoingOf(c) ==
    /\ Confirming(c) => /\ IsFull(row)
                        /\ IsFull(entity[c]) /\ entity[c].state = "AGREED"
    /\ Confirming(c) /\ stage[c] = "updating" => IsFull(seen[c])
    /\ stage[c] = "updating" => seen[c].state = "AGREED"
    /\ ToldApproved(c) => HasApproval(row, request[c].user)

Ongoing ==
    NoRejection => /\ row.state = "AGREED"
                   /\ Consistent(row)
                   /\ \A c \in Call : OngoingOf(c)

\* An answer is given once.
LEMMA AnswersStay ==
    ASSUME Orderly, [Next]_vars, NEW d \in Call, answer[d] # "none"
    PROVE  answer'[d] = answer[d] /\ stage'[d] = "answered"
<1>1. stage[d] = "answered" /\ Types
  BY DEF Orderly, OrderOf
<1>. QED
  BY <1>1
     DEF Types, Next, Run, Begin, ApproveLock, ApproveSave, ApproveCommit,
         RejectRead, ConfirmRead, SaveSelect, SaveUpdate, Abort, MoveTo,
         Respond, vars

\* Sealing what one more user has approved keeps the columns in agreement.
LEMMA CommitIsConsistent ==
    ASSUME NEW r \in Row, NEW u, Consistent(r)
    PROVE  /\ Consistent(Sealed(Approved(r, u)))
           /\ HasApproval(Sealed(Approved(r, u)), u)
           /\ IsFull(r) => IsFull(Sealed(Approved(r, u)))
           /\ \A v : HasApproval(r, v) =>
                         HasApproval(Sealed(Approved(r, u)), v)
<1> DEFINE a == Approved(r, u)
           s == Sealed(a)
<1>1. /\ a \in Row
      /\ a.seekerApproved = (r.seekerApproved \/ u = Seeker)
      /\ a.employerApproved = (r.employerApproved \/ u = Employer)
      /\ a.agreementHash = r.agreementHash
      /\ a.onChainTxHash = r.onChainTxHash
  BY ApprovedColumns
<1> HIDE DEF a
<1>2. /\ s.seekerApproved = a.seekerApproved
      /\ s.employerApproved = a.employerApproved
      /\ s.agreementHash = IF BothApproved(a) THEN Hash ELSE a.agreementHash
      /\ s.onChainTxHash = a.onChainTxHash
  BY <1>1, SealedColumns
<1> HIDE DEF s
<1>3. r.agreementHash \in {Hash, Null} /\ Hash # Null
  BY AgreementAssumption DEF Row
<1>4. /\ Consistent(s) /\ HasApproval(s, u) /\ (IsFull(r) => IsFull(s))
      /\ \A v : HasApproval(r, v) => HasApproval(s, v)
  BY <1>1, <1>2, <1>3 DEF Consistent, HasApproval, IsFull, BothApproved
<1>. QED
  BY <1>4 DEF s, a

\* A save of one full agreement over another touches no approval and no hash.
LEMMA FullSave ==
    ASSUME NEW current \in Row, NEW read \in Row, NEW object \in Row,
           IsFull(read), IsFull(object), IsFull(current)
    PROVE  IsFull(Saved(current, read, object))
BY SavedColumns DEF IsFull, BothApproved

LEMMA OngoingInductive ==
    ASSUME Orderly, Ongoing, [Next]_vars
    PROVE  Ongoing'
<1> USE AgreementAssumption
<1> SUFFICES ASSUME NoRejection'
             PROVE  /\ row'.state = "AGREED"
                    /\ Consistent(row)'
                    /\ \A d \in Call : OngoingOf(d)'
  BY DEF Ongoing
<1>0. /\ NoRejection /\ row.state = "AGREED" /\ Consistent(row)
      /\ \A d \in Call : OngoingOf(d)
  BY AnswersStay DEF NoRejection, Ongoing
<1>t. Types
  BY DEF Orderly
<1> USE DEF OngoingOf, Confirming, InSave, ToldApproved
<1>1. ASSUME NEW c \in Call, NEW r \in Request, Begin(c, r)
      PROVE  /\ row' = row
             /\ \A d \in Call : OngoingOf(d)'
  <2>1. answer[c] = "none"
    BY <1>1 DEF Orderly, OrderOf, Begin
  <2>. QED
    BY <1>0, <1>1, <1>t, <2>1 DEF Types, Begin, MoveTo
<1>2. ASSUME NEW c \in Call, ApproveLock(c)
      PROVE  /\ row' = row
             /\ \A d \in Call : OngoingOf(d)'
  <2>1. Refusal(row, request[c].user) \in {"none", "409", "403"}
    BY NotRefused
  <2>. QED
    BY <1>0, <1>2, <1>t, <2>1 DEF Types, ApproveLock, MoveTo, Respond
<1>3. ASSUME NEW c \in Call, ApproveSave(c)
      PROVE  /\ row' = row
             /\ \A d \in Call : OngoingOf(d)'
  BY <1>0, <1>3, <1>t DEF Types, ApproveSave, MoveTo
<1>4. ASSUME NEW c \in Call, ApproveCommit(c)
      PROVE  /\ row'.state = "AGREED" /\ Consistent(row)'
             /\ \A d \in Call : OngoingOf(d)'
  <2>1. /\ row' = Sealed(Approved(row, request[c].user))
        /\ row.state = "AGREED" /\ IsParticipant(request[c].user)
    BY <1>4, CommitStores
  <2>2. /\ Consistent(row')
        /\ HasApproval(row', request[c].user)
        /\ IsFull(row) => IsFull(row')
        /\ \A v : HasApproval(row, v) => HasApproval(row', v)
    BY <1>0, <1>t, <2>1, CommitIsConsistent DEF Types
  <2>3. row'.state = "AGREED"
    <3>1. Approved(row, request[c].user) \in Row
      BY <1>t, ApprovedColumns DEF Types
    <3>. QED
      BY <1>t, <2>1, <3>1, ApprovedColumns, SealedColumns DEF Types
  <2>4. ASSUME NEW d \in Call
        PROVE  OngoingOf(d)'
    <3>1. ToldApproved(d)' => HasApproval(row', request'[d].user)
      <4>1. CASE d = c
        BY <1>4, <2>2, <4>1 DEF ApproveCommit
      <4>2. CASE d # c
        BY <1>0, <1>4, <1>t, <2>2, <4>2 DEF Types, ApproveCommit, Respond
      <4>. QED
        BY <4>1, <4>2
    <3>2. Confirming(d)' =>
              /\ IsFull(row') /\ IsFull(entity'[d])
              /\ entity'[d].state = "AGREED"
              /\ stage'[d] = "updating" => IsFull(seen'[d])
      BY <1>0, <1>4, <1>t, <2>2 DEF Types, ApproveCommit, Respond
    <3>3. stage'[d] = "updating" => seen'[d].state = "AGREED"
      BY <1>0, <1>4, <1>t DEF Types, ApproveCommit, Respond
    <3>. QED
      BY <3>1, <3>2, <3>3 DEF HasApproval, IsFull, BothApproved
  <2>. QED
    BY <2>2, <2>3, <2>4 DEF Consistent, BothApproved
<1>5. ASSUME NEW c \in Call, RejectRead(c)
      PROVE  /\ row' = row
             /\ \A d \in Call : OngoingOf(d)'
  <2>1. Refusal(row, request[c].user) \in {"none", "409", "403"}
    BY NotRefused
  <2>. QED
    BY <1>0, <1>5, <1>t, <2>1 DEF Types, RejectRead, MoveTo, Respond
<1>6. ASSUME NEW c \in Call, ConfirmRead(c)
      PROVE  /\ row' = row
             /\ \A d \in Call : OngoingOf(d)'
  <2>1. CASE ~ MayRecord(row)
    BY <1>0, <1>6, <1>t, <2>1 DEF Types, ConfirmRead, Respond
  <2>2. CASE MayRecord(row)
    <3> DEFINE object == [row EXCEPT !.onChainTxHash = request[c].tx]
    <3>1. /\ object.state = row.state
          /\ object.seekerApproved = row.seekerApproved
          /\ object.employerApproved = row.employerApproved
          /\ object.agreementHash = row.agreementHash
      BY <1>t DEF Types, Row
    <3>2. IsFull(row)
      BY <1>0, <1>t, <2>2
         DEF MayRecord, IsFull, Consistent, Types, Row
    <3>3. IsFull(object) /\ object.state = "AGREED"
      BY <1>0, <3>1, <3>2 DEF IsFull, BothApproved
    <3>4. /\ entity' = [entity EXCEPT ![c] = object]
          /\ stage' = [stage EXCEPT ![c] = "saving"]
          /\ UNCHANGED <<row, request, seen, answer>>
      BY <1>6, <2>2 DEF ConfirmRead, MoveTo
    <3> HIDE DEF object
    <3>. QED
      BY <1>0, <1>t, <3>2, <3>3, <3>4 DEF Types
  <2>. QED
    BY <2>1, <2>2
<1>7. ASSUME NEW c \in Call, SaveSelect(c)
      PROVE  /\ row' = row
             /\ \A d \in Call : OngoingOf(d)'
  BY <1>0, <1>7, <1>t DEF Types, SaveSelect, MoveTo
<1>8. ASSUME NEW c \in Call, SaveUpdate(c)
      PROVE  /\ row'.state = "AGREED" /\ Consistent(row)'
             /\ \A d \in Call : OngoingOf(d)'
  <2>1. /\ row' = Saved(row, seen[c], entity[c])
        /\ stage[c] = "updating" /\ stage' = [stage EXCEPT ![c] = "answered"]
        /\ UNCHANGED <<request, entity, seen>>
    BY <1>8 DEF SaveUpdate, Respond
  <2>2. /\ answer' = [answer EXCEPT ![c] = "recorded"]
        /\ Confirming(c)
    <3>1. request[c].kind \in {"reject", "confirm"}
      BY <2>1 DEF Orderly, OrderOf
    <3>2. request[c].kind # "reject"
      BY <1>8, <1>t DEF SaveUpdate, Respond, NoRejection, Types
    <3>. QED
      BY <1>8, <2>1, <3>1, <3>2 DEF SaveUpdate, Respond
  <2>3. row \in Row /\ seen[c] \in Row /\ entity[c] \in Row
    BY <1>t DEF Types
  <2>4. /\ IsFull(row) /\ IsFull(entity[c]) /\ IsFull(seen[c])
        /\ entity[c].state = "AGREED" /\ seen[c].state = "AGREED"
    BY <1>0, <2>1, <2>2
  <2>5. IsFull(row')
    BY <2>1, <2>3, <2>4, FullSave
  <2>6. row'.state = "AGREED"
    BY <1>0, <2>1, <2>3, <2>4, SavedColumns
  <2>7. Consistent(row')
    BY <2>5 DEF IsFull, Consistent
  <2>8. ASSUME NEW d \in Call
        PROVE  OngoingOf(d)'
    <3>1. HasApproval(row', request[d].user)
      BY <2>5 DEF IsFull, BothApproved, HasApproval
    <3>. QED
      BY <1>0, <1>t, <2>1, <2>5, <3>1
         DEF Types, HasApproval, IsFull, BothApproved
  <2>. QED
    BY <2>6, <2>7, <2>8 DEF Consistent, BothApproved
<1>9. ASSUME NEW c \in Call, Abort(c)
      PROVE  /\ row' = row
             /\ \A d \in Call : OngoingOf(d)'
  BY <1>0, <1>9, <1>t DEF Types, Abort, Respond
<1>10. CASE UNCHANGED vars
  BY <1>0, <1>10 DEF vars
<1>. QED
  BY <1>0, <1>1, <1>2, <1>3, <1>4, <1>5, <1>6, <1>7, <1>8, <1>9, <1>10
     DEF Next, Run, Consistent, BothApproved

-----------------------------------------------------------------------------
\* After one rejection.  The row then has one of two contents, and the state
\* tells which: the full agreement, or the columns F the rejection left.  A
\* save that changes the state changes the other columns with it.

Columns(r) == <<r.seekerApproved, r.employerApproved, r.agreementHash>>

Fits(r, F) == IF r.state = "AGREED" THEN IsFull(r) ELSE Columns(r) = F

FrozenAt(F) ==
    /\ Fits(row, F)
    /\ \A c \in Call : Confirming(c) =>
           /\ Fits(entity[c], F)
           /\ stage[c] = "updating" => Fits(seen[c], F)

Frozen ==
    ~ NoRejection /\ AtMostOneRejection => \E F : FrozenAt(F)

LEMMA FittingSave ==
    ASSUME NEW F, NEW current \in Row, NEW read \in Row, NEW object \in Row,
           Fits(current, F), Fits(read, F), Fits(object, F)
    PROVE  Fits(Saved(current, read, object), F)
<1> DEFINE new == Saved(current, read, object)
<1>1. /\ new.state = IF object.state = read.state THEN current.state
                                                  ELSE object.state
      /\ new.seekerApproved =
             IF object.seekerApproved = read.seekerApproved
             THEN current.seekerApproved ELSE object.seekerApproved
      /\ new.employerApproved =
             IF object.employerApproved = read.employerApproved
             THEN current.employerApproved ELSE object.employerApproved
      /\ new.agreementHash =
             IF object.agreementHash = read.agreementHash
             THEN current.agreementHash ELSE object.agreementHash
  BY SavedColumns
<1>2. \A r \in Row : /\ r.state \in {"AGREED", "FAILED"}
                     /\ r.seekerApproved \in BOOLEAN
                     /\ r.employerApproved \in BOOLEAN
  BY DEF Row
<1> HIDE DEF new
<1>3. \A r \in Row : r.state = "AGREED" /\ Fits(r, F) =>
                         Columns(r) = <<TRUE, TRUE, Hash>>
  BY <1>2 DEF Fits, IsFull, BothApproved, Columns
<1>4. CASE object.state = read.state
  <2>1. Columns(object) = Columns(read)
    BY <1>2, <1>3, <1>4 DEF Fits
  <2>2. Columns(new) = Columns(current) /\ new.state = current.state
    BY <1>1, <1>4, <2>1 DEF Columns
  <2>. QED
    BY <2>2 DEF Fits, Columns, IsFull, BothApproved, new
<1>5. CASE object.state # read.state
  <2>1. Columns(current) \in {Columns(object), Columns(read)}
    BY <1>2, <1>3, <1>5 DEF Fits
  <2>2. Columns(new) = Columns(object) /\ new.state = object.state
    BY <1>1, <1>5, <2>1 DEF Columns
  <2>. QED
    BY <2>2 DEF Fits, Columns, IsFull, BothApproved, new
<1>. QED
  BY <1>4, <1>5

\* The first rejection finds no transaction and no saved rejection before it,
\* so its save makes the row FAILED.
LEMMA FirstRejection ==
    ASSUME Orderly, Ongoing, NoRejection, [Next]_vars, ~ NoRejection'
    PROVE  /\ row'.state = "FAILED"
           /\ UNCHANGED <<entity, seen, request>>
           /\ \A d \in Call : stage'[d] = stage[d] \/ stage'[d] = "answered"
<1>1. Types /\ (\A c \in Call : OngoingOf(c)) /\ row.state = "AGREED"
  BY DEF Orderly, Ongoing
<1>2. ASSUME NEW c \in Call, SaveUpdate(c), answer'[c] = "rejected"
      PROVE  /\ row'.state = "FAILED"
             /\ UNCHANGED <<entity, seen, request>>
             /\ \A d \in Call : stage'[d] = stage[d] \/ stage'[d] = "answered"
  <2>1. /\ stage[c] = "updating" /\ row' = Saved(row, seen[c], entity[c])
        /\ UNCHANGED <<entity, seen, request>>
        /\ stage' = [stage EXCEPT ![c] = "answered"]
    BY <1>2 DEF SaveUpdate, Respond
  <2>2. request[c].kind = "reject"
    BY <1>1, <1>2 DEF SaveUpdate, Respond, Types
  <2>3. entity[c].state = "FAILED" /\ seen[c].state = "AGREED"
    BY <1>1, <2>1, <2>2 DEF Orderly, OrderOf, InSave, OngoingOf
  <2>4. row \in Row /\ seen[c] \in Row /\ entity[c] \in Row
    BY <1>1 DEF Types
  <2>5. row'.state = "FAILED"
    BY <2>1, <2>3, <2>4, SavedColumns
  <2>. QED
    BY <1>1, <2>1, <2>5 DEF Types
<1>3. PICK d \in Call : answer'[d] = "rejected" /\ answer[d] # "rejected"
  BY DEF NoRejection
<1>4. \A r, u : Refusal(r, u) # "rejected"
  BY NotRefused
<1>5. SaveUpdate(d)
  BY <1>1, <1>3, <1>4
     DEF Types, Next, Run, Begin, ApproveLock, ApproveSave, ApproveCommit,
         RejectRead, ConfirmRead, SaveSelect, SaveUpdate, Abort, MoveTo,
         Respond, vars
<1>. QED
  BY <1>2, <1>3, <1>5

\* Once frozen, the row stays so until there is a second rejection.
LEMMA FrozenStays ==
    ASSUME Orderly, [Next]_vars, NEW F, FrozenAt(F),
           ~ NoRejection, AtMostOneRejection'
    PROVE  FrozenAt(F)'
<1> USE AgreementAssumption DEF Confirming, InSave
<1>0. Types
  BY DEF Orderly
<1>1. ASSUME NEW c \in Call, NEW r \in Request, Begin(c, r)
      PROVE  FrozenAt(F)'
  BY <1>0, <1>1 DEF FrozenAt, Types, Begin, MoveTo
<1>2. ASSUME NEW c \in Call, ApproveLock(c)
      PROVE  FrozenAt(F)'
  BY <1>0, <1>2 DEF FrozenAt, Types, ApproveLock, MoveTo, Respond
<1>3. ASSUME NEW c \in Call, ApproveSave(c)
      PROVE  FrozenAt(F)'
  BY <1>0, <1>3 DEF FrozenAt, Types, ApproveSave, MoveTo
<1>4. ASSUME NEW c \in Call, ApproveCommit(c)
      PROVE  FrozenAt(F)'
  <2>1. row' = Sealed(Approved(row, request[c].user)) /\ row.state = "AGREED"
    BY <1>4, CommitStores
  <2>2. IsFull(row)
    BY <2>1 DEF FrozenAt, Fits
  <2>3. IsFull(row')
    <3>1. Consistent(row)
      BY <2>2 DEF IsFull, Consistent
    <3>. QED
      BY <1>0, <2>1, <2>2, <3>1, CommitIsConsistent DEF Types
  <2>4. row'.state = "AGREED"
    <3>1. Approved(row, request[c].user) \in Row
      BY <1>0, ApprovedColumns DEF Types
    <3>. QED
      BY <1>0, <2>1, <3>1, ApprovedColumns, SealedColumns DEF Types
  <2>. QED
    BY <1>0, <1>4, <2>3, <2>4
       DEF FrozenAt, Fits, Types, ApproveCommit, Respond
<1>5. ASSUME NEW c \in Call, RejectRead(c)
      PROVE  FrozenAt(F)'
  BY <1>0, <1>5 DEF FrozenAt, Types, RejectRead, MoveTo, Respond
<1>6. ASSUME NEW c \in Call, ConfirmRead(c)
      PROVE  FrozenAt(F)'
  <2> DEFINE object == [row EXCEPT !.onChainTxHash = request[c].tx]
  <2>1. /\ object.state = row.state
        /\ object.seekerApproved = row.seekerApproved
        /\ object.employerApproved = row.employerApproved
        /\ object.agreementHash = row.agreementHash
    BY <1>0 DEF Types, Row
  <2>2. Fits(object, F)
    BY <2>1 DEF FrozenAt, Fits, IsFull, BothApproved, Columns
  <2>3. /\ \/ entity' = [entity EXCEPT ![c] = object]
           \/ entity' = entity /\ stage' = [stage EXCEPT ![c] = "answered"]
        /\ \/ stage' = [stage EXCEPT ![c] = "answered"]
           \/ stage' = [stage EXCEPT ![c] = "saving"]
        /\ UNCHANGED <<row, request, seen>>
    BY <1>6 DEF ConfirmRead, MoveTo, Respond
  <2> HIDE DEF object
  <2>. QED
    BY <1>0, <2>2, <2>3 DEF FrozenAt, Types
<1>7. ASSUME NEW c \in Call, SaveSelect(c)
      PROVE  FrozenAt(F)'
  BY <1>0, <1>7 DEF FrozenAt, Types, SaveSelect, MoveTo
<1>8. ASSUME NEW c \in Call, SaveUpdate(c)
      PROVE  FrozenAt(F)'
  <2>1. /\ row' = Saved(row, seen[c], entity[c])
        /\ stage[c] = "updating" /\ stage' = [stage EXCEPT ![c] = "answered"]
        /\ UNCHANGED <<request, entity, seen>>
    BY <1>8 DEF SaveUpdate, Respond
  <2>2. Confirming(c)
    <3>1. request[c].kind \in {"reject", "confirm"}
      BY <2>1 DEF Orderly, OrderOf
    <3>2. PICK d \in Call : answer[d] = "rejected"
      BY DEF NoRejection
    <3>3. d # c /\ answer'[d] = "rejected"
      BY <1>8, <2>1, <3>2, AnswersStay DEF Orderly, OrderOf
    <3>4. request[c].kind # "reject"
      BY <1>0, <1>8, <3>3 DEF SaveUpdate, Respond, AtMostOneRejection, Types
    <3>. QED
      BY <2>1, <3>1, <3>4
  <2>3. row \in Row /\ seen[c] \in Row /\ entity[c] \in Row
    BY <1>0 DEF Types
  <2>4. Fits(row', F)
    BY <2>1, <2>2, <2>3, FittingSave DEF FrozenAt
  <2>. QED
    BY <1>0, <2>1, <2>4 DEF FrozenAt, Types
<1>9. ASSUME NEW c \in Call, Abort(c)
      PROVE  FrozenAt(F)'
  BY <1>0, <1>9 DEF FrozenAt, Types, Abort, Respond
<1>10. CASE UNCHANGED vars
  BY <1>10 DEF FrozenAt, vars
<1>. QED
  BY <1>1, <1>2, <1>3, <1>4, <1>5, <1>6, <1>7, <1>8, <1>9, <1>10
     DEF Next, Run

LEMMA FrozenInductive ==
    ASSUME Orderly, Ongoing, Frozen, [Next]_vars
    PROVE  Frozen'
<1> SUFFICES ASSUME ~ NoRejection', AtMostOneRejection'
             PROVE  \E F : FrozenAt(F)'
  BY DEF Frozen
<1>1. CASE NoRejection
  <2>1. /\ row'.state = "FAILED"
        /\ UNCHANGED <<entity, seen, request>>
        /\ \A d \in Call : stage'[d] = stage[d] \/ stage'[d] = "answered"
    BY <1>1, FirstRejection
  <2>2. ASSUME NEW c \in Call, Confirming(c)'
        PROVE  /\ entity[c].state = "AGREED" /\ IsFull(entity[c])
               /\ stage'[c] = "updating" =>
                      seen[c].state = "AGREED" /\ IsFull(seen[c])
    <3>1. Confirming(c) /\ stage'[c] = stage[c]
      BY <2>1, <2>2 DEF Confirming, InSave
    <3>2. OngoingOf(c)
      BY <1>1 DEF Ongoing
    <3>. QED
      BY <3>1, <3>2 DEF OngoingOf
  <2>3. PICK F : F = Columns(row')
    OBVIOUS
  <2>4. FrozenAt(F)'
    BY <2>1, <2>2, <2>3
       DEF FrozenAt, Fits, Confirming, InSave, IsFull, BothApproved, Columns
  <2>. QED
    BY <2>4
<1>2. CASE ~ NoRejection
  <2>1. AtMostOneRejection
    BY AnswersStay DEF AtMostOneRejection
  <2>2. PICK F : FrozenAt(F)
    BY <1>2, <2>1 DEF Frozen
  <2>. QED
    BY <1>2, <2>2, FrozenStays
<1>. QED
  BY <1>1, <1>2

AgreementInv == Orderly /\ Ongoing /\ Frozen

LEMMA AgreementInvariant == Spec => []AgreementInv
<1>1. Init => Ongoing /\ Frozen
  BY AgreementAssumption
     DEF Init, Ongoing, OngoingOf, Confirming, InSave, ToldApproved, Frozen,
         NoRejection, AgreedRow, Consistent, BothApproved
<1>2. AgreementInv /\ [Next]_vars => Ongoing' /\ Frozen'
  BY OngoingInductive, FrozenInductive DEF AgreementInv
<1>. QED
  BY <1>1, <1>2, OrderlyInvariant, PTL DEF Spec, AgreementInv

\* As long as no two rejections are saved, an agreement that stands is whole,
\* whatever saves overlap and fail.
THEOREM StandingAgreementIsWhole == Spec => []AgreementIsWhole
<1>1. AgreementInv => AgreementIsWhole
  <2> SUFFICES ASSUME AgreementInv, AtMostOneRejection, row.state = "AGREED"
               PROVE  Consistent(row)
    BY DEF AgreementIsWhole, Consistent
  <2>1. CASE NoRejection
    BY <2>1 DEF AgreementInv, Ongoing
  <2>2. CASE ~ NoRejection
    BY <2>2 DEF AgreementInv, Frozen, FrozenAt, Fits, IsFull, Consistent
  <2>. QED
    BY <2>1, <2>2
<1>. QED
  BY <1>1, AgreementInvariant, PTL

\* Under the same condition no approval that was answered is lost.
THEOREM ApprovalsAreKept == Spec => []AnsweredApprovalKept
<1>1. AgreementInv => AnsweredApprovalKept
  <2> SUFFICES ASSUME AgreementInv, NEW c \in Call, ToldApproved(c),
                      AtMostOneRejection, row.state = "AGREED"
               PROVE  HasApproval(row, request[c].user)
    BY ApprovedAlready
       DEF AnsweredApprovalKept, ToldApproved, HasApproval, AgreementInv,
           Orderly, Types
  <2>1. CASE NoRejection
    BY <2>1 DEF AgreementInv, Ongoing, OngoingOf
  <2>2. CASE ~ NoRejection
    BY <2>2 DEF AgreementInv, Frozen, FrozenAt, Fits, IsFull, BothApproved,
                HasApproval
  <2>. QED
    BY <2>1, <2>2
<1>. QED
  BY <1>1, AgreementInvariant, PTL

-----------------------------------------------------------------------------
\* Before anybody was given the transaction to sign there is no hash, neither
\* in the row nor in what a rejection would write, no confirmTx gets past its
\* check, and nothing can bring a rejected session back.

Told == \E c \in Call : answer[c] = "both_approved"

Hashless ==
    /\ row.agreementHash = Null
    /\ \A c \in Call : InSave(c) => /\ request[c].kind = "reject"
                                    /\ entity[c].agreementHash = Null
    /\ NoRejection \/ row.state = "FAILED"

LEMMA HashlessUntilTold ==
    ASSUME AgreementInv, ~ Told => Hashless, [Next]_vars, ~ Told'
    PROVE  Hashless'
<1> USE AgreementAssumption DEF InSave, NoRejection
<1>0. Orderly /\ Ongoing /\ Types
  BY DEF AgreementInv, Orderly
<1>h. Hashless
  BY <1>0, AnswersStay DEF Told
<1>1. ASSUME NEW c \in Call, NEW r \in Request, Begin(c, r)
      PROVE  Hashless'
  BY <1>0, <1>h, <1>1 DEF Hashless, Types, Begin, MoveTo
<1>2. ASSUME NEW c \in Call, ApproveLock(c)
      PROVE  Hashless'
  <2>1. Refusal(row, request[c].user) \in {"none", "409", "403"}
    BY NotRefused
  <2>. QED
    BY <1>0, <1>h, <1>2, <2>1 DEF Hashless, Types, ApproveLock, MoveTo, Respond
<1>3. ASSUME NEW c \in Call, ApproveSave(c)
      PROVE  Hashless'
  BY <1>0, <1>h, <1>3 DEF Hashless, Types, ApproveSave, MoveTo
<1>4. ASSUME NEW c \in Call, ApproveCommit(c)
      PROVE  Hashless'
  <2> DEFINE a == Approved(row, request[c].user)
  <2>1. /\ row.state = "AGREED" /\ entity[c] = Sealed(a) /\ row' = entity[c]
    BY <1>0, <1>4, CommitStores
  <2>2. a \in Row /\ a.agreementHash = Null
    BY <1>0, <1>h, ApprovedColumns DEF Types, Hashless
  <2> HIDE DEF a
  <2>3. /\ entity[c].seekerApproved = a.seekerApproved
        /\ entity[c].employerApproved = a.employerApproved
        /\ entity[c].agreementHash = IF BothApproved(a) THEN Hash ELSE Null
    BY <2>1, <2>2, SealedColumns
  <2>4. ~ BothApproved(entity[c])
    BY <1>0, <1>4 DEF Types, ApproveCommit, Respond, Told
  <2>5. row'.agreementHash = Null
    BY <2>1, <2>3, <2>4 DEF BothApproved
  <2>6. NoRejection
    BY <1>h, <2>1 DEF Hashless
  <2>. QED
    BY <1>0, <1>h, <1>4, <2>5, <2>6
       DEF Hashless, Types, ApproveCommit, Respond
<1>5. ASSUME NEW c \in Call, RejectRead(c)
      PROVE  Hashless'
  <2>1. Refusal(row, request[c].user) \in {"none", "409", "403"}
    BY NotRefused
  <2>2. [row EXCEPT !.state = "FAILED"].agreementHash = Null
    BY <1>0, <1>h DEF Types, Row, Hashless
  <2>. QED
    BY <1>0, <1>h, <1>5, <2>1, <2>2
       DEF Hashless, Types, RejectRead, MoveTo, Respond
<1>6. ASSUME NEW c \in Call, ConfirmRead(c)
      PROVE  Hashless'
  BY <1>0, <1>h, <1>6 DEF Hashless, Types, ConfirmRead, MayRecord, Respond
<1>7. ASSUME NEW c \in Call, SaveSelect(c)
      PROVE  Hashless'
  BY <1>0, <1>h, <1>7 DEF Hashless, Types, SaveSelect, MoveTo
<1>8. ASSUME NEW c \in Call, SaveUpdate(c)
      PROVE  Hashless'
  <2>1. /\ row' = Saved(row, seen[c], entity[c])
        /\ stage[c] = "updating" /\ stage' = [stage EXCEPT ![c] = "answered"]
        /\ UNCHANGED <<request, entity, seen>>
    BY <1>8 DEF SaveUpdate, Respond
  <2>2. row \in Row /\ seen[c] \in Row /\ entity[c] \in Row
    BY <1>0 DEF Types
  <2>3. request[c].kind = "reject" /\ entity[c].agreementHash = Null
    BY <1>h, <2>1 DEF Hashless
  <2>4. row'.agreementHash = Null
    BY <1>h, <2>1, <2>2, <2>3, SavedColumns DEF Hashless
  <2>5. entity[c].state = "FAILED"
    BY <2>1, <2>3, <1>0 DEF Orderly, OrderOf
  <2>6. row'.state = "FAILED"
    <3>1. CASE NoRejection
      <4>1. seen[c].state = "AGREED"
        BY <1>0, <2>1, <3>1 DEF Ongoing, OngoingOf
      <4>. QED
        BY <2>1, <2>2, <2>5, <4>1, SavedColumns
    <3>2. CASE row.state = "FAILED"
      BY <2>1, <2>2, <2>5, <3>2, SavedColumns
    <3>. QED
      BY <1>h, <3>1, <3>2 DEF Hashless
  <2>. QED
    BY <1>0, <1>h, <2>1, <2>4, <2>6 DEF Hashless, Types
<1>9. ASSUME NEW c \in Call, Abort(c)
      PROVE  Hashless'
  BY <1>0, <1>h, <1>9 DEF Hashless, Types, Abort, Respond
<1>10. CASE UNCHANGED vars
  BY <1>h, <1>10 DEF Hashless, vars
<1>. QED
  BY <1>1, <1>2, <1>3, <1>4, <1>5, <1>6, <1>7, <1>8, <1>9, <1>10
     DEF Next, Run

\* Two simultaneous approvals do not both wait for the other: unless the session
\* was rejected, one of the parties has the transaction to sign.
THEOREM NobodyWaitsForBoth == Spec => []SomeoneGetsTransaction
<1> DEFINE HashlessFirst == ~ Told => Hashless
<1>1. Init => HashlessFirst
  BY DEF Init, Hashless, AgreedRow, InSave, NoRejection
<1>2. AgreementInv /\ HashlessFirst /\ [Next]_vars => HashlessFirst'
  BY HashlessUntilTold
<1>3. AgreementInv /\ HashlessFirst => SomeoneGetsTransaction
  <2> SUFFICES ASSUME AgreementInv, HashlessFirst,
                      NEW c \in Call, NEW d \in Call,
                      answer[c] = "waiting_for_other_party",
                      answer[d] = "waiting_for_other_party",
                      request[c].user # request[d].user,
                      row.state # "FAILED", ~ Told
               PROVE  FALSE
    BY DEF SomeoneGetsTransaction, Told
  <2>1. Hashless /\ NoRejection
    BY DEF Hashless
  <2>2. /\ HasApproval(row, request[c].user)
        /\ HasApproval(row, request[d].user)
        /\ Consistent(row)
    BY <2>1 DEF AgreementInv, Ongoing, OngoingOf, ToldApproved
  <2>3. /\ IsParticipant(request[c].user) /\ IsParticipant(request[d].user)
    BY DEF AgreementInv, Orderly, OrderOf, ToldApproved
  <2>4. BothApproved(row)
    BY <2>2, <2>3 DEF HasApproval, IsParticipant, BothApproved
  <2>. QED
    BY <2>1, <2>2, <2>4, AgreementAssumption DEF Hashless, Consistent
<1>. QED
  BY <1>1, <1>2, <1>3, AgreementInvariant, PTL DEF Spec
=============================================================================
