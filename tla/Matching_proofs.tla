-------------------------- MODULE Matching_proofs --------------------------
(***************************************************************************)
(* Proofs about Matching, for any numbers of seekers, jobs, employers,     *)
(* calls and faults, any limit and any bounds.                             *)
(*                                                                         *)
(* The inductive invariants, each resting on the ones before:              *)
(*   Ordered         always: what a call has in hand fits the tables;      *)
(*   LimitNearly     always: who may still open a session has a place;     *)
(*   Alone           as long as calls do not overlap: what a call checked  *)
(*                   is still so when it acts on it;                       *)
(*   PaidInOrder and NegotiatedInOrder   as long as, besides, nothing      *)
(*                   fails: the call that pays grants, and the call that   *)
(*                   opens a session records it.                           *)
(***************************************************************************)
EXTENDS Matching, FiniteSetTheorems, TLAPS

-----------------------------------------------------------------------------
\* What the variables hold.

Pair == Seeker \X Job
Row == [seeker : Seeker, job : Job, seekerAgreed : BOOLEAN,
        employerAgreed : BOOLEAN, session : Nat \cup {Null}]
Negotiation == [seeker : Seeker, job : Job,
                state : {"INITIATED", "STARTED", "FAILED"}, matched : BOOLEAN]
Entity == [id : Nat, row : Row]
Stage == {"idle", "find", "insert", "next", "selectScore", "updateScore",
          "selectFlag", "updateFlag"} \cup Handoff
CallState ==
    [stage : Stage, kind : {"match", "retry", "agree", "access"},
     todo : Seq(Pair), mine : Seq(Entity), entity : Entity \cup {Null},
     seen : Row \cup {Null}, deal : Deal \cup {Null}]

Types ==
    /\ matches \in Seq(Row)
    /\ grants \in [Deal -> Nat] /\ payments \in [Deal -> Nat]
    /\ sessions \in Seq(Negotiation)
    /\ call \in [Call -> CallState]
    /\ faults \in Nat
    /\ overlapped \in BOOLEAN

-----------------------------------------------------------------------------
\* Sequences, and the operators that make them.

LEMMA TailFacts ==
    ASSUME NEW S, NEW s \in Seq(S), s # <<>>
    PROVE  /\ Head(s) \in S /\ Head(s) = s[1] /\ 1 \in DOMAIN s
           /\ Len(s) \in Nat \ {0} /\ DOMAIN s = 1 .. Len(s)
           /\ Tail(s) \in Seq(S) /\ DOMAIN Tail(s) = 1 .. Len(s) - 1
           /\ \A i \in 1 .. Len(s) - 1 :
                  Tail(s)[i] = s[i + 1] /\ i + 1 \in DOMAIN s /\ i + 1 # 1
OBVIOUS

LEMMA AppendFacts ==
    ASSUME NEW S, NEW s \in Seq(S), NEW e \in S
    PROVE  /\ Append(s, e) \in Seq(S) /\ Len(s) \in Nat
           /\ DOMAIN s = 1 .. Len(s)
           /\ DOMAIN Append(s, e) = 1 .. Len(s) + 1
           /\ \A i \in 1 .. Len(s) : Append(s, e)[i] = s[i]
           /\ Append(s, e)[Len(s) + 1] = e
OBVIOUS

\* A batch lists pairs that passed the filters; the answer of the reranker may
\* name one of them again.
LEMMA RankedFacts ==
    ASSUME NEW pairs, NEW batch \in Ranked(pairs)
    PROVE  batch \in Seq(pairs)
<1>1. PICK m \in 0 .. RerankLimit : batch \in [1 .. m -> pairs]
  BY DEF Ranked, BoundedSeq, SeqOf
<1>2. m \in Nat
  BY <1>1, MatchingAssumption
<1>. QED
  BY <1>1, <1>2

LEMMA RepeatedFacts ==
    ASSUME NEW batch, NEW i \in DOMAIN batch, NEW n \in DOMAIN batch,
           i # n, batch[i] = batch[n]
    PROVE  batch[i] \in Repeated(batch)
BY DEF Repeated

LEMMA SidesAgree ==
    ASSUME NEW s \in Seeker, NEW j \in Job
    PROVE  PassesForJob(s, j) <=> PassesForSeeker(s, j)
<1>1. {Posting[j].min, Posting[j].max, Resume[s].min, Resume[s].max}
          = {Resume[s].min, Resume[s].max, Posting[j].min, Posting[j].max}
  OBVIOUS
<1>2. SalaryOverlaps(Posting[j], Resume[s])
          <=> SalaryOverlaps(Resume[s], Posting[j])
  BY <1>1 DEF SalaryOverlaps
<1>. QED
  BY <1>2 DEF PassesForJob, PassesForSeeker

LEMMA BatchFacts ==
    ASSUME NEW batch,
           \/ \E s \in Seeker : batch \in BatchesForSeeker(s)
           \/ \E j \in Job : batch \in BatchesForJob(j)
    PROVE  /\ batch \in Seq(Pair)
           /\ \A i \in DOMAIN batch : PassesForSeeker(batch[i][1], batch[i][2])
<1>1. ASSUME NEW pairs \in SUBSET Pair, batch \in Ranked(pairs),
             \A p \in pairs : PassesForSeeker(p[1], p[2])
      PROVE  /\ batch \in Seq(Pair)
             /\ \A i \in DOMAIN batch :
                    PassesForSeeker(batch[i][1], batch[i][2])
  <2>1. batch \in Seq(pairs)
    BY <1>1, RankedFacts
  <2>2. batch \in Seq(Pair) /\ \A i \in DOMAIN batch : batch[i] \in pairs
    BY <2>1
  <2>. QED
    BY <1>1, <2>2
<1>2. ASSUME NEW s \in Seeker, batch \in BatchesForSeeker(s)
      PROVE  \E pairs \in SUBSET Pair :
                 /\ batch \in Ranked(pairs)
                 /\ \A p \in pairs : PassesForSeeker(p[1], p[2])
  <2>. DEFINE pairs == {s} \X JobsFor(s)
  <2>1. pairs \in SUBSET Pair /\ \A p \in pairs : PassesForSeeker(p[1], p[2])
    BY DEF Pair, JobsFor
  <2>. QED
    BY <1>2, <2>1 DEF BatchesForSeeker
<1>3. ASSUME NEW j \in Job, batch \in BatchesForJob(j)
      PROVE  \E pairs \in SUBSET Pair :
                 /\ batch \in Ranked(pairs)
                 /\ \A p \in pairs : PassesForSeeker(p[1], p[2])
  <2>. DEFINE pairs == SeekersFor(j) \X {j}
  <2>1. pairs \in SUBSET Pair /\ \A p \in pairs : PassesForSeeker(p[1], p[2])
    BY SidesAgree DEF Pair, SeekersFor
  <2>. QED
    BY <1>3, <2>1 DEF BatchesForJob
<1>. QED
  BY <1>1, <1>2, <1>3

\* The rows a retry reads.
LEMMA PendingFacts ==
    ASSUME matches \in Seq(Row), NEW s
    PROVE  LET ids == SetToSeq(Pending(s))
               mine == [n \in DOMAIN ids |->
                           [id |-> ids[n], row |-> matches[ids[n]]]]
           IN  /\ mine \in Seq(Entity)
               /\ \A n \in DOMAIN mine :
                      /\ mine[n].id \in DOMAIN matches
                      /\ mine[n].row = matches[mine[n].id]
                      /\ mine[n].row.session = Null
               /\ \A i, n \in DOMAIN mine : i # n => mine[i].id # mine[n].id
<1> DEFINE P == Pending(s)
           ids == SetToSeq(P)
           mine == [n \in DOMAIN ids |->
                       [id |-> ids[n], row |-> matches[ids[n]]]]
<1>1. P \subseteq DOMAIN matches /\ \A m \in P : matches[m].session = Null
  BY DEF Pending
<1>2. IsFiniteSet(DOMAIN matches)
  <2>1. DOMAIN matches = 1 .. Len(matches) /\ Len(matches) \in Int
    OBVIOUS
  <2>. QED
    BY <2>1, FS_Interval
<1>3. IsFiniteSet(P)
  BY <1>1, <1>2, FS_Subset
<1>4. /\ Cardinality(P) \in Nat
      /\ \E f \in [1 .. Cardinality(P) -> P] : IsInjective(f)
  BY <1>3, FS_CardinalityType DEF ExistsBijection, Bijection, Injection
<1>5. ids \in [1 .. Cardinality(P) -> P] /\ IsInjective(ids)
  BY <1>4 DEF SetToSeq
<1>. HIDE DEF P, ids
<1>6. \A m \in DOMAIN matches : m \in Nat /\ matches[m] \in Row
  OBVIOUS
<1>7. /\ DOMAIN mine = 1 .. Cardinality(P)
      /\ \A n \in 1 .. Cardinality(P) :
             /\ ids[n] \in P /\ mine[n] \in Entity
             /\ mine[n].id = ids[n] /\ mine[n].row = matches[ids[n]]
  BY <1>1, <1>5, <1>6 DEF Entity
<1>8. mine \in Seq(Entity)
  BY <1>4, <1>7
<1>9. \A i, n \in DOMAIN mine : i # n => mine[i].id # mine[n].id
  BY <1>5, <1>7 DEF IsInjective
<1>. QED
  BY <1>1, <1>7, <1>8, <1>9 DEF ids, P

\* What a save leaves in each column.
LEMMA SavedRow ==
    ASSUME NEW current \in Row, NEW seen \in Row, NEW object \in Row
    PROVE  LET new == Saved(current, seen, object)
           IN  /\ new \in Row
               /\ new.seeker \in {current.seeker, object.seeker}
               /\ new.job \in {current.job, object.job}
               /\ seen = current => new = object
<1> DEFINE Column == {"seeker", "job", "seekerAgreed", "employerAgreed",
                      "session"}
           new == Saved(current, seen, object)
<1>1. DOMAIN object = Column
  BY DEF Row
<1>2. new = [c \in Column |-> IF object[c] = seen[c] THEN current[c]
                                                     ELSE object[c]]
  BY <1>1 DEF Saved
<1>3. \A r \in Row : /\ r["seeker"] \in Seeker /\ r["job"] \in Job
                     /\ r["seekerAgreed"] \in BOOLEAN
                     /\ r["employerAgreed"] \in BOOLEAN
                     /\ r["session"] \in Nat \cup {Null}
  BY DEF Row
<1>4. /\ new["seeker"] \in {current["seeker"], object["seeker"]}
      /\ new["job"] \in {current["job"], object["job"]}
      /\ new["seekerAgreed"] \in BOOLEAN
      /\ new["employerAgreed"] \in BOOLEAN
      /\ new["session"] \in Nat \cup {Null}
  BY <1>2, <1>3
<1>5. new = [seeker |-> new["seeker"], job |-> new["job"],
             seekerAgreed |-> new["seekerAgreed"],
             employerAgreed |-> new["employerAgreed"],
             session |-> new["session"]]
  BY <1>2
<1>6. new \in Row
  BY <1>3, <1>4, <1>5 DEF Row
<1>7. seen = current => new = object
  <2>1. object = [c \in DOMAIN object |-> object[c]]
    BY DEF Row
  <2>. QED
    BY <1>1, <1>2, <2>1
<1>. QED
  BY <1>4, <1>6, <1>7

-----------------------------------------------------------------------------
(***************************************************************************)
(* However calls overlap: what a call has in hand fits the tables, and     *)
(* every grant row, stored or about to be, has a payment of its own.       *)
(***************************************************************************)

PairOf(row) == <<row.seeker, row.job>>

\* An object that was read from the table or stored in it.
Copy(e) == e.id \in DOMAIN matches /\ PairOf(e.row) = PairOf(matches[e.id])

\* The call has such an object in work.
HasEntity(c) ==
    \/ call[c].stage \in {"selectScore", "updateScore", "selectFlag",
                          "updateFlag"}
    \/ call[c].stage \in Handoff /\ call[c].kind # "access"

InOrder(c) ==
    LET k == call[c]
    IN  /\ \A n \in DOMAIN k.todo :
               PassesForSeeker(k.todo[n][1], k.todo[n][2])
        /\ k.stage \in {"insert", "selectScore", "updateScore"} =>
               k.todo # <<>>
        /\ \A n \in DOMAIN k.mine : Copy(k.mine[n])
        /\ HasEntity(c) => k.entity \in Entity /\ Copy(k.entity)
        /\ k.stage \in {"updateScore", "updateFlag", "updateRecord"} =>
               k.seen \in Row
        /\ k.stage \in Handoff => k.deal \in Deal
        /\ k.kind = "access" => k.stage \in {"access", "pay", "grant"}
        /\ HasEntity(c) /\ k.stage \in Handoff => k.deal = Dealt(k.entity.row)
        /\ k.stage = "open" => grants[k.deal] > 0
        /\ k.stage = "start" => k.entity.row.session \in DOMAIN sessions

Granting(d) == {c \in Call : call[c].stage = "grant" /\ call[c].deal = d}

\* Payments cover the grants there are and those about to be stored.
Covered(d) == /\ IsFiniteSet(Granting(d))
              /\ grants[d] + Cardinality(Granting(d)) <= payments[d]

RowsPass == \A m \in DOMAIN matches :
                PassesForSeeker(matches[m].seeker, matches[m].job)

SessionsGranted ==
    \A n \in DOMAIN sessions : sessions[n].matched =>
        grants[<<EmployerOf[sessions[n].job], sessions[n].seeker>>] > 0

Ordered ==
    /\ Types
    /\ \A c \in Call : InOrder(c)
    /\ RowsPass
    /\ \A d \in Deal : Covered(d)
    /\ SessionsGranted

-----------------------------------------------------------------------------
\* The steps of a call, one by one.

LEMMA IdleState ==
    /\ Idle \in CallState /\ Idle.stage = "idle" /\ Idle.kind = "match"
    /\ Idle.todo = <<>> /\ Idle.mine = <<>>
BY DEF Idle, CallState, Stage

LEMMA PutStep ==
    ASSUME Types, NEW c \in Call, NEW r \in CallState,
           call' = [call EXCEPT ![c] = IF r.stage = "idle" THEN Idle ELSE r]
    PROVE  /\ call' \in [Call -> CallState]
           /\ call'[c] = IF r.stage = "idle" THEN Idle ELSE r
           /\ \A d \in Call \ {c} : call'[d] = call[d]
BY IdleState DEF Types

LEMMA GotoStep ==
    ASSUME Types, NEW c \in Call, NEW s \in Stage, Goto(c, s)
    PROVE  /\ call' \in [Call -> CallState]
           /\ \A d \in Call \ {c} : call'[d] = call[d]
           /\ s = "idle" => call'[c] = Idle
           /\ s # "idle" => /\ call'[c] = [call[c] EXCEPT !.stage = s]
                            /\ call'[c].stage = s
                            /\ call'[c].kind = call[c].kind
                            /\ call'[c].todo = call[c].todo
                            /\ call'[c].mine = call[c].mine
                            /\ call'[c].entity = call[c].entity
                            /\ call'[c].seen = call[c].seen
                            /\ call'[c].deal = call[c].deal
<1> DEFINE r == [call[c] EXCEPT !.stage = s]
<1>1. /\ r \in CallState /\ r.stage = s
      /\ r.kind = call[c].kind /\ r.todo = call[c].todo
      /\ r.mine = call[c].mine /\ r.entity = call[c].entity
      /\ r.seen = call[c].seen /\ r.deal = call[c].deal
  BY DEF Types, CallState
<1>2. call' = [call EXCEPT ![c] = IF r.stage = "idle" THEN Idle ELSE r]
  BY DEF Goto, Put
<1>. HIDE DEF r
<1>. QED
  BY <1>1, <1>2, PutStep DEF r

\* Rows are added and never change whose they are.
Grown ==
    /\ \A m \in DOMAIN matches :
           m \in DOMAIN matches' /\ PairOf(matches'[m]) = PairOf(matches[m])
    /\ \A d \in Deal : grants'[d] >= grants[d]
    /\ DOMAIN sessions \subseteq DOMAIN sessions'

LEMMA IdleInOrder ==
    ASSUME NEW c \in Call, call'[c] = Idle
    PROVE  InOrder(c)'
BY DEF InOrder, HasEntity, Idle, Handoff

LEMMA Undisturbed ==
    ASSUME Types, Types', Grown, NEW d \in Call, call'[d] = call[d], InOrder(d)
    PROVE  InOrder(d)'
<1> DEFINE k == call[d]
<1>1. ASSUME NEW e, Copy(e) PROVE e.id \in DOMAIN matches'
                                  /\ PairOf(e.row) = PairOf(matches'[e.id])
  BY <1>1 DEF Copy, Grown
<1>2. k \in CallState
  BY DEF Types
<1>3. k.stage = "open" => grants'[k.deal] > 0
  <2>. SUFFICES ASSUME k.stage = "open" PROVE grants'[k.deal] > 0
    OBVIOUS
  <2>1. k.deal \in Deal /\ grants[k.deal] > 0
    BY DEF InOrder, Handoff
  <2>2. grants[k.deal] \in Nat /\ grants'[k.deal] \in Nat
        /\ grants'[k.deal] >= grants[k.deal]
    BY <2>1 DEF Types, Grown
  <2>. QED
    BY <2>1, <2>2
<1>4. k.stage = "start" => k.entity.row.session \in DOMAIN sessions'
  BY DEF InOrder, Grown
<1>5. HasEntity(d)' <=> HasEntity(d)
  BY DEF HasEntity
<1>. QED
  BY <1>1, <1>3, <1>4, <1>5 DEF InOrder, Copy

LEMMA OrderedStep ==
    ASSUME Ordered, Types', Grown, NEW c \in Call,
           \A d \in Call \ {c} : call'[d] = call[d],
           InOrder(c)', RowsPass', SessionsGranted',
           \A d \in Deal : Covered(d)'
    PROVE  Ordered'
<1>1. \A d \in Call : InOrder(d)'
  BY Undisturbed DEF Ordered
<1>. QED
  BY <1>1 DEF Ordered

\* A step that touches no table.
LEMMA OnlyCallStep ==
    ASSUME Ordered, NEW c \in Call, Types',
           UNCHANGED <<matches, grants, payments, sessions>>,
           \A d \in Call \ {c} : call'[d] = call[d],
           InOrder(c)', call[c].stage # "grant", call'[c].stage # "grant"
    PROVE  Ordered'
<1>1. Grown
  BY DEF Grown, Ordered, Types
<1>2. \A d \in Deal : Granting(d)' = Granting(d)
  BY DEF Granting
<1>3. \A d \in Deal : Covered(d)'
  BY <1>2 DEF Covered, Ordered
<1>4. RowsPass' /\ SessionsGranted'
  BY DEF Ordered, RowsPass, SessionsGranted
<1>. QED
  BY <1>1, <1>3, <1>4, OrderedStep

LEMMA BeginStep ==
    ASSUME Ordered, NEW c \in Call, NEW r \in CallState, Begin(c, r),
           r.stage \notin {"idle", "grant"},
           call'[c] = r => InOrder(c)'
    PROVE  Ordered'
<1>1. /\ call[c].stage = "idle"
      /\ call' = [call EXCEPT ![c] = IF r.stage = "idle" THEN Idle ELSE r]
      /\ overlapped' \in BOOLEAN
      /\ UNCHANGED <<matches, grants, payments, sessions, faults>>
  BY DEF Begin, Requested, At, Put, Ordered, Types
<1>2. /\ call' \in [Call -> CallState] /\ call'[c] = r
      /\ \A d \in Call \ {c} : call'[d] = call[d]
  BY <1>1, PutStep DEF Ordered
<1>3. Types'
  BY <1>1, <1>2 DEF Ordered, Types
<1>. QED
  BY <1>1, <1>2, <1>3, OnlyCallStep

\* Storing a match: one more row, or a row whose pair stays what it was.
LEMMA MatchesStep ==
    ASSUME Ordered, NEW c \in Call, call' \in [Call -> CallState],
           UNCHANGED <<grants, payments, sessions, faults, overlapped>>,
           \A d \in Call \ {c} : call'[d] = call[d],
           matches' \in Seq(Row),
           \A m \in DOMAIN matches : m \in DOMAIN matches'
               /\ PairOf(matches'[m]) = PairOf(matches[m]),
           RowsPass',
           InOrder(c)', call[c].stage # "grant", call'[c].stage # "grant"
    PROVE  Ordered'
<1>0. Types'
  BY DEF Ordered, Types
<1>1. Grown
  BY DEF Grown, Ordered, Types
<1>2. \A d \in Deal : Granting(d)' = Granting(d)
  BY DEF Granting
<1>3. \A d \in Deal : Covered(d)'
  BY <1>2 DEF Covered, Ordered
<1>4. SessionsGranted'
  BY DEF Ordered, SessionsGranted
<1>. QED
  BY <1>0, <1>1, <1>3, <1>4, OrderedStep

\* The UPDATE of a save: the row keeps its pair, and the saved object is a
\* copy of it.
LEMMA UpdateFacts ==
    ASSUME Ordered, NEW c \in Call, HasEntity(c), Update(c),
           call[c].stage \in {"updateScore", "updateFlag", "updateRecord"}
    PROVE  /\ matches' \in Seq(Row) /\ DOMAIN matches' = DOMAIN matches
           /\ call[c].entity.id \in DOMAIN matches
           /\ \A m \in DOMAIN matches : PairOf(matches'[m]) = PairOf(matches[m])
           /\ \A m \in DOMAIN matches \ {call[c].entity.id} :
                  matches'[m] = matches[m]
           /\ call[c].seen = matches[call[c].entity.id] =>
                  matches'[call[c].entity.id] = call[c].entity.row
           /\ RowsPass'
           /\ UNCHANGED <<grants, payments, sessions, faults, overlapped, twice>>
<1> DEFINE e == call[c].entity
           new == Saved(matches[e.id], call[c].seen, e.row)
<1>1. /\ e \in Entity /\ Copy(e) /\ call[c].seen \in Row
  BY DEF Ordered, InOrder
<1>2. /\ e.id \in DOMAIN matches /\ e.row \in Row /\ matches \in Seq(Row)
      /\ matches[e.id] \in Row /\ PairOf(e.row) = PairOf(matches[e.id])
  BY <1>1 DEF Copy, Entity, Ordered, Types
<1>3. /\ matches' = [matches EXCEPT ![e.id] = new]
      /\ UNCHANGED <<grants, payments, sessions, faults, overlapped, twice>>
  BY DEF Update
<1>4. /\ new \in Row
      /\ new.seeker \in {matches[e.id].seeker, e.row.seeker}
      /\ new.job \in {matches[e.id].job, e.row.job}
      /\ call[c].seen = matches[e.id] => new = e.row
  BY <1>1, <1>2, SavedRow
<1>. HIDE DEF e, new
<1>5. PairOf(new) = PairOf(matches[e.id])
  BY <1>2, <1>4 DEF PairOf
<1>6. /\ matches' \in Seq(Row) /\ DOMAIN matches' = DOMAIN matches
      /\ matches'[e.id] = new
      /\ \A m \in DOMAIN matches \ {e.id} : matches'[m] = matches[m]
  BY <1>2, <1>3, <1>4
<1>7. \A m \in DOMAIN matches : PairOf(matches'[m]) = PairOf(matches[m])
  BY <1>5, <1>6
<1>8. RowsPass'
  BY <1>6, <1>7 DEF Ordered, RowsPass, PairOf
<1>. QED
  BY <1>2, <1>3, <1>4, <1>6, <1>7, <1>8 DEF e

-----------------------------------------------------------------------------
\* A new call.

Begins(c) ==
    \/ \E s \in Seeker : MatchForSeeker(c, s) \/ Retry(c, s)
    \/ \E j \in Job : MatchForJob(c, j)
    \/ \E m \in DOMAIN matches, u \in User : Agree(c, m, u)
    \/ \E d \in Deal : RequestAccess(c, d)

\* What it starts with.
NewCall(r) ==
    \/ /\ r.stage = "find" /\ r.kind = "match" /\ r.mine = <<>>
       /\ \A n \in DOMAIN r.todo : PassesForSeeker(r.todo[n][1], r.todo[n][2])
    \/ /\ r.stage = "next" /\ r.kind = "retry" /\ r.todo = <<>>
       /\ \A n \in DOMAIN r.mine : /\ r.mine[n].id \in DOMAIN matches
                                   /\ r.mine[n].row = matches[r.mine[n].id]
                                   /\ r.mine[n].row.session = Null
       /\ \A i, n \in DOMAIN r.mine : i # n => r.mine[i].id # r.mine[n].id
    \/ /\ r.stage = "selectFlag" /\ r.kind = "agree"
       /\ r.todo = <<>> /\ r.mine = <<>>
       /\ r.entity \in Entity /\ Copy(r.entity)
       /\ r.entity.row.session = matches[r.entity.id].session
    \/ /\ r.stage = "access" /\ r.kind = "access"
       /\ r.todo = <<>> /\ r.mine = <<>> /\ r.deal \in Deal

LEMMA MatchBegins ==
    ASSUME Ordered, NEW c \in Call, NEW batch,
           \/ \E s \in Seeker : batch \in BatchesForSeeker(s)
           \/ \E j \in Job : batch \in BatchesForJob(j),
           Begin(c, [Idle EXCEPT !.stage = "find", !.todo = batch])
    PROVE  \E r \in CallState : Begin(c, r) /\ NewCall(r)
<1>1. PICK r : r = [Idle EXCEPT !.stage = "find", !.todo = batch]
  OBVIOUS
<1>2. /\ batch \in Seq(Pair)
      /\ \A n \in DOMAIN batch : PassesForSeeker(batch[n][1], batch[n][2])
  BY BatchFacts
<1>3. /\ r \in CallState /\ r.stage = "find" /\ r.kind = "match"
      /\ r.todo = batch /\ r.mine = <<>>
  BY <1>1, <1>2, IdleState DEF CallState, Stage
<1>4. NewCall(r)
  BY <1>2, <1>3 DEF NewCall
<1>5. Begin(c, r)
  BY <1>1
<1>. QED
  BY <1>3, <1>4, <1>5

LEMMA RetryBegins ==
    ASSUME Ordered, NEW c \in Call, NEW s \in Seeker, Retry(c, s)
    PROVE  \E r \in CallState : Begin(c, r) /\ NewCall(r)
<1> DEFINE ids == SetToSeq(Pending(s))
<1>1. PICK mine : mine = [n \in DOMAIN ids |->
                             [id |-> ids[n], row |-> matches[ids[n]]]]
  OBVIOUS
<1>2. /\ mine \in Seq(Entity)
      /\ \A n \in DOMAIN mine : /\ mine[n].id \in DOMAIN matches
                                /\ mine[n].row = matches[mine[n].id]
                                /\ mine[n].row.session = Null
      /\ \A i, n \in DOMAIN mine : i # n => mine[i].id # mine[n].id
  BY <1>1, PendingFacts DEF Ordered, Types
<1>3. PICK r : r = [Idle EXCEPT !.stage = "next", !.kind = "retry",
                                !.mine = mine]
  OBVIOUS
<1>4. /\ r.stage = "next" /\ r.kind = "retry"
      /\ r.todo = <<>> /\ r.mine = mine
  BY <1>3, IdleState DEF CallState
<1>5. r \in CallState
  BY <1>2, <1>3, IdleState DEF CallState, Stage
<1>6. Begin(c, r)
  BY <1>1, <1>3 DEF Retry
<1>7. NewCall(r)
  BY <1>2, <1>4 DEF NewCall
<1>. QED
  BY <1>5, <1>6, <1>7

LEMMA AgreedRow ==
    ASSUME NEW r \in Row, NEW u
    PROVE  LET row == [r EXCEPT !.seekerAgreed = @ \/ u \in Seeker,
                                !.employerAgreed = @ \/ u \in Employer]
           IN  row \in Row /\ PairOf(row) = PairOf(r) /\ row.session = r.session
BY DEF Row, PairOf

LEMMA AgreeBegins ==
    ASSUME Ordered, NEW c \in Call, NEW m \in DOMAIN matches, NEW u,
           Agree(c, m, u)
    PROVE  \E r \in CallState : Begin(c, r) /\ NewCall(r)
<1>1. PICK row : row = [matches[m] EXCEPT
                           !.seekerAgreed = @ \/ u \in Seeker,
                           !.employerAgreed = @ \/ u \in Employer]
  OBVIOUS
<1>2. matches[m] \in Row /\ m \in Nat
  BY DEF Ordered, Types
<1>3. /\ row \in Row /\ PairOf(row) = PairOf(matches[m])
      /\ row.session = matches[m].session
  BY <1>1, <1>2, AgreedRow
<1>4. PICK e : e = [id |-> m, row |-> row]
  OBVIOUS
<1>5. e \in Entity /\ e.id = m /\ e.row = row
  BY <1>2, <1>3, <1>4 DEF Entity
<1>6. PICK r : r = [Idle EXCEPT !.stage = "selectFlag", !.kind = "agree",
                                !.entity = e]
  OBVIOUS
<1>7. /\ r.stage = "selectFlag" /\ r.kind = "agree"
      /\ r.todo = <<>> /\ r.mine = <<>> /\ r.entity = e
  BY <1>6, IdleState DEF CallState
<1>8. r \in CallState
  BY <1>5, <1>6, IdleState DEF CallState, Stage
<1>9. Begin(c, r)
  BY <1>1, <1>4, <1>6 DEF Agree
<1>10. NewCall(r)
  BY <1>3, <1>5, <1>7 DEF NewCall, Copy
<1>. QED
  BY <1>8, <1>9, <1>10

LEMMA AccessBegins ==
    ASSUME Ordered, NEW c \in Call, NEW d \in Deal, RequestAccess(c, d)
    PROVE  \E r \in CallState : Begin(c, r) /\ NewCall(r)
<1>1. PICK r : r = [Idle EXCEPT !.stage = "access", !.kind = "access",
                                !.deal = d]
  OBVIOUS
<1>2. /\ r.stage = "access" /\ r.kind = "access"
      /\ r.todo = <<>> /\ r.mine = <<>> /\ r.deal = d
  BY <1>1, IdleState DEF CallState
<1>3. r \in CallState
  BY <1>1, IdleState DEF CallState, Stage, Handoff
<1>4. Begin(c, r)
  BY <1>1 DEF RequestAccess
<1>5. NewCall(r)
  BY <1>2 DEF NewCall
<1>. QED
  BY <1>3, <1>4, <1>5

LEMMA CallBegins ==
    ASSUME Ordered, NEW c \in Call, Begins(c)
    PROVE  \E r \in CallState : Begin(c, r) /\ NewCall(r)
<1>1. ASSUME NEW s \in Seeker, MatchForSeeker(c, s)
      PROVE  \E r \in CallState : Begin(c, r) /\ NewCall(r)
  BY <1>1, MatchBegins DEF MatchForSeeker
<1>2. ASSUME NEW j \in Job, MatchForJob(c, j)
      PROVE  \E r \in CallState : Begin(c, r) /\ NewCall(r)
  BY <1>2, MatchBegins DEF MatchForJob
<1>. QED
  BY <1>1, <1>2, RetryBegins, AgreeBegins, AccessBegins DEF Begins

LEMMA BeginsKeeps ==
    ASSUME Ordered, NEW c \in Call, Begins(c)
    PROVE  Ordered'
<1>1. PICK r \in CallState : Begin(c, r) /\ NewCall(r)
  BY CallBegins
<1>2. UNCHANGED matches
  BY <1>1 DEF Begin
<1>a. r.stage \notin {"idle", "grant"}
  BY <1>1 DEF NewCall
<1>3. /\ r.stage \in {"find", "next", "selectFlag", "access"}
      /\ \A n \in DOMAIN r.todo : PassesForSeeker(r.todo[n][1], r.todo[n][2])
      /\ r.stage = "selectFlag" => r.entity \in Entity /\ Copy(r.entity)
      /\ r.stage = "access" <=> r.kind = "access"
      /\ r.stage = "access" => r.deal \in Deal
  BY <1>1 DEF NewCall
<1>4. \A n \in DOMAIN r.mine : Copy(r.mine[n])
  BY <1>1 DEF NewCall, Copy
<1>5. /\ \A n \in DOMAIN r.mine : Copy(r.mine[n])'
      /\ r.stage = "selectFlag" => Copy(r.entity)'
  BY <1>2, <1>3, <1>4 DEF Copy
<1>6. call'[c] = r => InOrder(c)'
  BY <1>3, <1>5 DEF InOrder, HasEntity, Handoff
<1>. QED
  BY <1>1, <1>a, <1>6, BeginStep

-----------------------------------------------------------------------------
\* Storing the matches, one statement after the other.

LEMMA FindStep ==
    ASSUME Ordered, NEW c \in Call, Find(c)
    PROVE  LET k == call[c]
               new == call'[c]
           IN  /\ call' \in [Call -> CallState]
               /\ \A d \in Call \ {c} : call'[d] = call[d]
               /\ new.kind = k.kind /\ new.todo = k.todo /\ new.mine = k.mine
               /\ \/ new.stage = "next"
                  \/ /\ new.stage = "insert" /\ k.todo # <<>>
                     /\ Existing(Head(k.todo)) = {}
                  \/ /\ new.stage = "selectScore" /\ k.todo # <<>>
                     /\ \E m \in Existing(Head(k.todo)) :
                            /\ m \in DOMAIN matches /\ new.entity \in Entity
                            /\ new.entity.id = m
                            /\ new.entity.row = matches[m]
<1>0. PICK k : k = call[c]
  OBVIOUS
<1>1. k.stage = "find" /\ k \in CallState
  BY <1>0 DEF Find, At, Ordered, Types
<1>2. ASSUME NEW s \in {"next", "insert"}, Goto(c, s)
      PROVE  /\ call' \in [Call -> CallState]
             /\ \A d \in Call \ {c} : call'[d] = call[d]
             /\ call'[c].stage = s /\ call'[c].kind = k.kind
             /\ call'[c].todo = k.todo /\ call'[c].mine = k.mine
  <2>1. s \in Stage /\ s # "idle"
    BY DEF Stage
  <2>. QED
    BY <1>0, <1>2, <2>1, GotoStep DEF Ordered
<1>3. ASSUME NEW m \in Existing(Head(k.todo)),
             Put(c, [k EXCEPT !.stage = "selectScore",
                              !.entity = [id |-> m, row |-> matches[m]]])
      PROVE  /\ call' \in [Call -> CallState]
             /\ \A d \in Call \ {c} : call'[d] = call[d]
             /\ call'[c].stage = "selectScore" /\ call'[c].kind = k.kind
             /\ call'[c].todo = k.todo /\ call'[c].mine = k.mine
             /\ m \in DOMAIN matches /\ call'[c].entity \in Entity
             /\ call'[c].entity.id = m /\ call'[c].entity.row = matches[m]
  <2>1. m \in DOMAIN matches /\ matches[m] \in Row /\ m \in Nat
    BY DEF Existing, Ordered, Types
  <2>2. PICK e : e = [id |-> m, row |-> matches[m]]
    OBVIOUS
  <2>3. e \in Entity /\ e.id = m /\ e.row = matches[m]
    BY <2>1, <2>2 DEF Entity
  <2>4. PICK r : r = [k EXCEPT !.stage = "selectScore", !.entity = e]
    OBVIOUS
  <2>5. /\ r \in CallState /\ r.stage = "selectScore" /\ r.kind = k.kind
        /\ r.todo = k.todo /\ r.mine = k.mine /\ r.entity = e
    BY <1>1, <2>3, <2>4 DEF CallState, Stage
  <2>6. call' = [call EXCEPT ![c] = IF r.stage = "idle" THEN Idle ELSE r]
    BY <1>3, <2>2, <2>4 DEF Put
  <2>7. /\ call' \in [Call -> CallState] /\ call'[c] = r
        /\ \A d \in Call \ {c} : call'[d] = call[d]
    BY <2>5, <2>6, PutStep DEF Ordered
  <2>. QED
    BY <2>1, <2>3, <2>5, <2>7
<1>. QED
  BY <1>0, <1>2, <1>3, Zenon DEF Find

LEMMA FindKeeps ==
    ASSUME Ordered, NEW c \in Call, Find(c)
    PROVE  Ordered'
<1>0. PICK k : k = call[c]
  OBVIOUS
<1>1. PICK new : new = call'[c]
  OBVIOUS
<1>2. /\ k.stage = "find" /\ k \in CallState /\ InOrder(c)
      /\ UNCHANGED <<matches, grants, payments, sessions, faults, overlapped>>
  BY <1>0 DEF Find, At, OnlyCall, Ordered, Types
<1>3. /\ call' \in [Call -> CallState]
      /\ \A d \in Call \ {c} : call'[d] = call[d]
      /\ new.kind = k.kind /\ new.todo = k.todo /\ new.mine = k.mine
      /\ new.stage \in {"next", "insert", "selectScore"}
      /\ new.stage \in {"insert", "selectScore"} => k.todo # <<>>
      /\ new.stage = "selectScore" =>
             /\ new.entity \in Entity /\ new.entity.id \in DOMAIN matches
             /\ new.entity.row = matches[new.entity.id]
  BY <1>0, <1>1, FindStep
<1>4. /\ k.kind # "access"
      /\ \A n \in DOMAIN k.todo : PassesForSeeker(k.todo[n][1], k.todo[n][2])
      /\ \A n \in DOMAIN k.mine : Copy(k.mine[n])
  BY <1>0, <1>2 DEF InOrder
<1>5. /\ \A n \in DOMAIN k.mine : Copy(k.mine[n])'
      /\ new.stage = "selectScore" => Copy(new.entity)'
  BY <1>2, <1>3, <1>4 DEF Copy
<1>6. InOrder(c)'
  BY <1>1, <1>3, <1>4, <1>5 DEF InOrder, HasEntity, Handoff
<1>7. Types'
  BY <1>2, <1>3 DEF Ordered, Types
<1>. QED
  BY <1>0, <1>1, <1>2, <1>3, <1>6, <1>7, OnlyCallStep

\* The pairs that are left, and the entities so far.
LEMMA StoredStep ==
    ASSUME Types, NEW c \in Call, NEW e \in Entity, call[c].todo # <<>>,
           Stored(c, e)
    PROVE  /\ call' \in [Call -> CallState]
           /\ \A d \in Call \ {c} : call'[d] = call[d]
           /\ call'[c].stage = "find" /\ call'[c].kind = call[c].kind
           /\ call'[c].todo = Tail(call[c].todo)
           /\ call'[c].mine = Append(call[c].mine, e)
<1> DEFINE k == call[c]
           r == [k EXCEPT !.stage = "find", !.todo = Tail(@),
                          !.mine = Append(@, e)]
<1>1. k \in CallState /\ k.todo \in Seq(Pair) /\ k.mine \in Seq(Entity)
  BY DEF Types, CallState
<1>2. Tail(k.todo) \in Seq(Pair) /\ Append(k.mine, e) \in Seq(Entity)
  BY <1>1, TailFacts, AppendFacts
<1>3. /\ r \in CallState /\ r.stage = "find" /\ r.kind = k.kind
      /\ r.todo = Tail(k.todo) /\ r.mine = Append(k.mine, e)
  BY <1>1, <1>2 DEF CallState, Stage
<1>4. call' = [call EXCEPT ![c] = IF r.stage = "idle" THEN Idle ELSE r]
  BY DEF Stored, Put
<1>. HIDE DEF r
<1>. QED
  BY <1>3, <1>4, PutStep

LEMMA StoredInOrder ==
    ASSUME Ordered, NEW c \in Call, NEW e \in Entity, call[c].todo # <<>>,
           Stored(c, e), Copy(e)', call[c].kind # "access",
           \A m \in DOMAIN matches : m \in DOMAIN matches'
               /\ PairOf(matches'[m]) = PairOf(matches[m])
    PROVE  InOrder(c)'
<1>0. PICK k : k = call[c]
  OBVIOUS
<1>1. k.todo \in Seq(Pair) /\ k.mine \in Seq(Entity) /\ InOrder(c)
  BY <1>0 DEF Ordered, Types, CallState
<1>2. /\ call'[c].stage = "find" /\ call'[c].kind = k.kind
      /\ call'[c].todo = Tail(k.todo) /\ call'[c].mine = Append(k.mine, e)
  BY <1>0, StoredStep DEF Ordered
<1>3. \A n \in DOMAIN Tail(k.todo) :
          PassesForSeeker(Tail(k.todo)[n][1], Tail(k.todo)[n][2])
  BY <1>0, <1>1, TailFacts DEF InOrder
<1>4. \A n \in DOMAIN Append(k.mine, e) : Copy(Append(k.mine, e)[n])'
  <2>1. \A n \in DOMAIN k.mine : Copy(k.mine[n])
    BY <1>0, <1>1 DEF InOrder
  <2>2. \A n \in DOMAIN k.mine : Copy(k.mine[n])'
    BY <2>1 DEF Copy
  <2>. SUFFICES ASSUME NEW n \in DOMAIN Append(k.mine, e)
                PROVE  Copy(Append(k.mine, e)[n])'
    OBVIOUS
  <2>3. CASE n \in DOMAIN k.mine
    <3>1. Append(k.mine, e)[n] = k.mine[n]
      BY <1>1, <2>3, AppendFacts
    <3>. QED
      BY <2>2, <2>3, <3>1 DEF Copy
  <2>4. CASE n = Len(k.mine) + 1
    <3>1. Append(k.mine, e)[n] = e
      BY <1>1, <2>4, AppendFacts
    <3>. QED
      BY <3>1 DEF Copy
  <2>5. n \in DOMAIN k.mine \/ n = Len(k.mine) + 1
    BY <1>1, AppendFacts
  <2>. QED
    BY <2>3, <2>4, <2>5
<1>. QED
  BY <1>0, <1>2, <1>3, <1>4 DEF InOrder, HasEntity, Handoff

LEMMA InsertKeeps ==
    ASSUME Ordered, NEW c \in Call, Insert(c)
    PROVE  Ordered'
<1>0. /\ call[c].stage = "insert" /\ call[c] \in CallState /\ InOrder(c)
      /\ UNCHANGED <<grants, payments, sessions, faults, overlapped>>
  BY DEF Insert, At, Ordered, Types
<1>1. /\ call[c].todo # <<>> /\ call[c].todo \in Seq(Pair)
      /\ call[c].kind # "access"
  BY <1>0 DEF InOrder, CallState
<1>2. PICK p : p = Head(call[c].todo)
  OBVIOUS
<1>3. /\ p \in Pair /\ p[1] \in Seeker /\ p[2] \in Job
      /\ PassesForSeeker(p[1], p[2])
  BY <1>0, <1>1, <1>2, TailFacts DEF Pair, InOrder
<1>4. PICK row : row = NewRow(p[1], p[2])
  OBVIOUS
<1>5. row \in Row /\ row.seeker = p[1] /\ row.job = p[2]
  BY <1>3, <1>4 DEF NewRow, Row
<1>6. matches \in Seq(Row) /\ Len(matches) \in Nat
  BY DEF Ordered, Types
<1>7. PICK e : e = [id |-> Len(matches) + 1, row |-> row]
  OBVIOUS
<1>8. e \in Entity /\ e.id = Len(matches) + 1 /\ e.row = row
  BY <1>5, <1>6, <1>7 DEF Entity
<1>9. matches' = Append(matches, row) /\ Stored(c, e)
  BY <1>2, <1>4, <1>7 DEF Insert
<1>10. /\ matches' \in Seq(Row) /\ DOMAIN matches' = 1 .. Len(matches) + 1
       /\ DOMAIN matches = 1 .. Len(matches)
       /\ \A m \in DOMAIN matches : matches'[m] = matches[m]
       /\ matches'[Len(matches) + 1] = row
  BY <1>5, <1>6, <1>9, AppendFacts
<1>11. \A m \in DOMAIN matches : m \in DOMAIN matches'
           /\ PairOf(matches'[m]) = PairOf(matches[m])
  BY <1>6, <1>10
<1>12. RowsPass'
  BY <1>3, <1>5, <1>6, <1>10 DEF RowsPass, Ordered
<1>13. Copy(e)'
  BY <1>6, <1>8, <1>10 DEF Copy
<1>14. InOrder(c)'
  BY <1>1, <1>8, <1>9, <1>11, <1>13, StoredInOrder
<1>15. /\ call' \in [Call -> CallState]
       /\ \A d \in Call \ {c} : call'[d] = call[d]
       /\ call'[c].stage = "find"
  BY <1>1, <1>8, <1>9, StoredStep DEF Ordered
<1>. QED
  BY <1>0, <1>10, <1>11, <1>12, <1>14, <1>15, MatchesStep

LEMMA SaveSelectStep ==
    ASSUME Ordered, NEW c \in Call, SaveSelect(c)
    PROVE  LET k == call[c]
               new == call'[c]
           IN  /\ call' \in [Call -> CallState]
               /\ \A d \in Call \ {c} : call'[d] = call[d]
               /\ new.stage \in {"updateScore", "updateFlag", "updateRecord"}
               /\ new.stage = "updateScore" <=> k.stage = "selectScore"
               /\ new.stage = "updateFlag" <=> k.stage = "selectFlag"
               /\ new.stage = "updateRecord" <=> k.stage = "selectRecord"
               /\ new.kind = k.kind /\ new.todo = k.todo /\ new.mine = k.mine
               /\ new.entity = k.entity /\ new.deal = k.deal
               /\ new.seen \in Row /\ new.seen = matches[k.entity.id]
               /\ HasEntity(c) /\ k.entity \in Entity /\ Copy(k.entity)
<1>0. PICK k : k = call[c]
  OBVIOUS
<1>1. /\ k.stage \in {"selectScore", "selectFlag", "selectRecord"}
      /\ k \in CallState /\ InOrder(c)
  BY <1>0 DEF SaveSelect, Ordered, Types
<1>2. HasEntity(c) /\ k.entity \in Entity /\ Copy(k.entity)
  BY <1>0, <1>1 DEF HasEntity, InOrder, Handoff
<1>3. PICK row : row = matches[k.entity.id]
  OBVIOUS
<1>4. row \in Row
  BY <1>2, <1>3 DEF Copy, Ordered, Types
<1>5. PICK s : s = CASE k.stage = "selectScore" -> "updateScore"
                     [] k.stage = "selectFlag"  -> "updateFlag"
                     [] OTHER                   -> "updateRecord"
  OBVIOUS
<1>6. /\ s \in {"updateScore", "updateFlag", "updateRecord"}
      /\ s = "updateScore" <=> k.stage = "selectScore"
      /\ s = "updateFlag" <=> k.stage = "selectFlag"
      /\ s = "updateRecord" <=> k.stage = "selectRecord"
  BY <1>1, <1>5
<1>7. PICK r : r = [k EXCEPT !.seen = row, !.stage = s]
  OBVIOUS
<1>8. /\ r \in CallState /\ r.stage = s /\ r.kind = k.kind
      /\ r.todo = k.todo /\ r.mine = k.mine /\ r.entity = k.entity
      /\ r.seen = row /\ r.deal = k.deal
  BY <1>1, <1>4, <1>6, <1>7 DEF CallState, Stage, Handoff
<1>9. call' = [call EXCEPT ![c] = IF r.stage = "idle" THEN Idle ELSE r]
  BY <1>0, <1>3, <1>5, <1>7 DEF SaveSelect, Put
<1>10. /\ call' \in [Call -> CallState] /\ call'[c] = r
       /\ \A d \in Call \ {c} : call'[d] = call[d]
  BY <1>6, <1>8, <1>9, PutStep DEF Ordered
<1>. QED
  BY <1>0, <1>2, <1>3, <1>4, <1>6, <1>8, <1>10

LEMMA SaveSelectKeeps ==
    ASSUME Ordered, NEW c \in Call, SaveSelect(c)
    PROVE  Ordered'
<1>0. PICK k : k = call[c]
  OBVIOUS
<1>1. PICK new : new = call'[c]
  OBVIOUS
<1>2. /\ k.stage \in {"selectScore", "selectFlag", "selectRecord"}
      /\ InOrder(c)
      /\ UNCHANGED <<matches, grants, payments, sessions, faults, overlapped>>
  BY <1>0 DEF SaveSelect, OnlyCall, Ordered
<1>3. /\ call' \in [Call -> CallState]
      /\ \A d \in Call \ {c} : call'[d] = call[d]
      /\ new.stage \in {"updateScore", "updateFlag", "updateRecord"}
      /\ new.stage = "updateScore" <=> k.stage = "selectScore"
      /\ new.stage = "updateRecord" <=> k.stage = "selectRecord"
      /\ new.kind = k.kind /\ new.todo = k.todo /\ new.mine = k.mine
      /\ new.entity = k.entity /\ new.deal = k.deal /\ new.seen \in Row
      /\ HasEntity(c) /\ k.entity \in Entity /\ Copy(k.entity)
  BY <1>0, <1>1, SaveSelectStep
<1>4. InOrder(c)'
  <2>1. \A n \in DOMAIN k.mine : Copy(k.mine[n])
    BY <1>0, <1>2 DEF InOrder
  <2>2. Copy(k.entity)' /\ \A n \in DOMAIN k.mine : Copy(k.mine[n])'
    BY <1>2, <1>3, <2>1 DEF Copy
  <2>3. /\ \A n \in DOMAIN k.todo :
               PassesForSeeker(k.todo[n][1], k.todo[n][2])
        /\ new.stage = "updateScore" => k.todo # <<>>
        /\ new.stage = "updateRecord" => k.deal \in Deal
                                         /\ k.deal = Dealt(k.entity.row)
        /\ k.kind # "access"
    BY <1>0, <1>2, <1>3 DEF InOrder, HasEntity, Handoff
  <2>. QED
    BY <1>1, <1>3, <2>2, <2>3 DEF InOrder, HasEntity, Handoff
<1>5. Types'
  BY <1>2, <1>3 DEF Ordered, Types
<1>. QED
  BY <1>0, <1>1, <1>2, <1>3, <1>4, <1>5, OnlyCallStep

LEMMA UpdateScoreKeeps ==
    ASSUME Ordered, NEW c \in Call, UpdateScore(c)
    PROVE  Ordered'
<1>1. /\ call[c].stage = "updateScore" /\ Update(c) /\ InOrder(c)
      /\ HasEntity(c) /\ call[c] \in CallState
  BY DEF UpdateScore, At, HasEntity, Ordered, Types
<1>2. PICK e : e = call[c].entity
  OBVIOUS
<1>3. Stored(c, e)
  BY <1>2 DEF UpdateScore
<1>4. e \in Entity /\ Copy(e) /\ call[c].todo # <<>>
      /\ call[c].kind # "access"
  BY <1>1, <1>2 DEF InOrder
<1>5. /\ matches' \in Seq(Row) /\ DOMAIN matches' = DOMAIN matches
      /\ \A m \in DOMAIN matches : PairOf(matches'[m]) = PairOf(matches[m])
      /\ RowsPass'
      /\ UNCHANGED <<grants, payments, sessions, faults, overlapped>>
  BY <1>1, UpdateFacts
<1>6. Copy(e)'
  BY <1>4, <1>5 DEF Copy
<1>7. InOrder(c)'
  BY <1>3, <1>4, <1>5, <1>6, StoredInOrder
<1>8. /\ call' \in [Call -> CallState]
      /\ \A d \in Call \ {c} : call'[d] = call[d]
      /\ call'[c].stage = "find"
  BY <1>3, <1>4, StoredStep DEF Ordered
<1>. QED
  BY <1>1, <1>5, <1>7, <1>8, MatchesStep

-----------------------------------------------------------------------------
\* Deciding to negotiate.

LEMMA NextMatchStep ==
    ASSUME Ordered, NEW c \in Call, NextMatch(c)
    PROVE  LET k == call[c]
               new == call'[c]
           IN  /\ call' \in [Call -> CallState]
               /\ \A d \in Call \ {c} : call'[d] = call[d]
               /\ \/ new = Idle
                  \/ /\ new.kind = k.kind /\ new.todo = k.todo
                     /\ k.mine # <<>> /\ new.mine = Tail(k.mine)
                     /\ \/ new.stage = "next"
                        \/ /\ new.stage = "limit"
                           /\ Head(k.mine).row.session = Null
                           /\ new.entity \in Entity
                           /\ new.entity.id = Head(k.mine).id
                           /\ PairOf(new.entity.row) = PairOf(Head(k.mine).row)
                           /\ new.entity.row.session = Null
                           /\ new.deal = Dealt(new.entity.row)
                           /\ new.deal \in Deal
<1>0. PICK k : k = call[c]
  OBVIOUS
<1>1. k.stage = "next" /\ k \in CallState /\ k.mine \in Seq(Entity)
  BY <1>0 DEF NextMatch, At, Ordered, Types, CallState
<1>2. CASE k.mine = <<>> /\ Goto(c, "idle")
  BY <1>2, GotoStep DEF Ordered, Stage
<1>3. ASSUME k.mine # <<>>
      PROVE  Tail(k.mine) \in Seq(Entity) /\ Head(k.mine) \in Entity
  BY <1>1, <1>3, TailFacts
<1>4. CASE k.mine # <<>> /\ Put(c, [k EXCEPT !.mine = Tail(k.mine)])
  <2>1. PICK r : r = [k EXCEPT !.mine = Tail(k.mine)]
    OBVIOUS
  <2>2. /\ r \in CallState /\ r.stage = "next" /\ r.kind = k.kind
        /\ r.todo = k.todo /\ r.mine = Tail(k.mine)
    BY <1>1, <1>3, <1>4, <2>1 DEF CallState
  <2>3. call' = [call EXCEPT ![c] = IF r.stage = "idle" THEN Idle ELSE r]
    BY <1>4, <2>1 DEF Put
  <2>4. /\ call' \in [Call -> CallState] /\ call'[c] = r
        /\ \A d \in Call \ {c} : call'[d] = call[d]
    BY <2>2, <2>3, PutStep DEF Ordered
  <2>. QED
    BY <1>0, <1>4, <2>2, <2>4
<1>5. CASE /\ k.mine # <<>> /\ Head(k.mine).row.session = Null
           /\ Put(c, [k EXCEPT !.mine = Tail(k.mine), !.stage = "limit",
                    !.deal = Dealt(Head(k.mine).row),
                    !.entity = [id |-> Head(k.mine).id, row |->
                        [Head(k.mine).row EXCEPT !.seekerAgreed = TRUE,
                                                 !.employerAgreed = TRUE]]])
  <2>1. PICK row : row = [Head(k.mine).row EXCEPT !.seekerAgreed = TRUE,
                                                  !.employerAgreed = TRUE]
    OBVIOUS
  <2>2. Head(k.mine).row \in Row /\ Head(k.mine).id \in Nat
    BY <1>3, <1>5 DEF Entity
  <2>3. row \in Row /\ PairOf(row) = PairOf(Head(k.mine).row)
        /\ row.session = Null
    BY <1>5, <2>1, <2>2 DEF Row, PairOf
  <2>4. PICK e : e = [id |-> Head(k.mine).id, row |-> row]
    OBVIOUS
  <2>5. e \in Entity /\ e.id = Head(k.mine).id /\ e.row = row
    BY <2>2, <2>3, <2>4 DEF Entity
  <2>6. /\ Dealt(Head(k.mine).row) = Dealt(row) /\ Dealt(row) \in Deal
    <3>1. row.seeker = Head(k.mine).row.seeker /\ row.job = Head(k.mine).row.job
      BY <2>3 DEF PairOf
    <3>2. row.seeker \in Seeker /\ row.job \in Job
      BY <2>3 DEF Row
    <3>. QED
      BY <3>1, <3>2, MatchingAssumption DEF Dealt, Deal
  <2>7. PICK r : r = [k EXCEPT !.mine = Tail(k.mine), !.stage = "limit",
                               !.deal = Dealt(row), !.entity = e]
    OBVIOUS
  <2>8. /\ r \in CallState /\ r.stage = "limit" /\ r.kind = k.kind
        /\ r.todo = k.todo /\ r.mine = Tail(k.mine) /\ r.entity = e
        /\ r.deal = Dealt(row)
    BY <1>1, <1>3, <1>5, <2>5, <2>6, <2>7 DEF CallState, Stage, Handoff
  <2>9. call' = [call EXCEPT ![c] = IF r.stage = "idle" THEN Idle ELSE r]
    BY <1>5, <2>1, <2>4, <2>6, <2>7 DEF Put
  <2>10. /\ call' \in [Call -> CallState] /\ call'[c] = r
         /\ \A d \in Call \ {c} : call'[d] = call[d]
    BY <2>8, <2>9, PutStep DEF Ordered
  <2>. QED
    BY <1>0, <1>5, <2>3, <2>5, <2>6, <2>8, <2>10
<1>. QED
  BY <1>0, <1>2, <1>4, <1>5 DEF NextMatch, NotNegotiated

LEMMA NextMatchKeeps ==
    ASSUME Ordered, NEW c \in Call, NextMatch(c)
    PROVE  Ordered'
<1>0. PICK k : k = call[c]
  OBVIOUS
<1>1. PICK new : new = call'[c]
  OBVIOUS
<1>2. /\ k.stage = "next" /\ InOrder(c)
      /\ k.mine \in Seq(Entity) /\ k.kind # "access"
      /\ \A n \in DOMAIN k.mine : Copy(k.mine[n])
      /\ \A n \in DOMAIN k.todo : PassesForSeeker(k.todo[n][1], k.todo[n][2])
      /\ UNCHANGED <<matches, grants, payments, sessions, faults, overlapped>>
  BY <1>0 DEF NextMatch, At, OnlyCall, Ordered, Types, CallState, InOrder
<1>3. /\ call' \in [Call -> CallState]
      /\ \A d \in Call \ {c} : call'[d] = call[d]
      /\ \/ new = Idle
         \/ /\ new.kind = k.kind /\ new.todo = k.todo
            /\ k.mine # <<>> /\ new.mine = Tail(k.mine)
            /\ new.stage \in {"next", "limit"}
            /\ new.stage = "limit" =>
                   /\ new.entity \in Entity
                   /\ new.entity.id = Head(k.mine).id
                   /\ PairOf(new.entity.row) = PairOf(Head(k.mine).row)
                   /\ new.deal = Dealt(new.entity.row) /\ new.deal \in Deal
  BY <1>0, <1>1, NextMatchStep
<1>4. Types'
  BY <1>2, <1>3 DEF Ordered, Types
<1>5. CASE new = Idle
  BY <1>0, <1>1, <1>2, <1>3, <1>4, <1>5, IdleInOrder, IdleState, OnlyCallStep
<1>6. CASE new # Idle
  <2>1. /\ \A n \in DOMAIN Tail(k.mine) :
               \E i \in DOMAIN k.mine : Tail(k.mine)[n] = k.mine[i]
        /\ Head(k.mine) = k.mine[1] /\ 1 \in DOMAIN k.mine
    BY <1>2, <1>3, <1>6, TailFacts
  <2>2. /\ \A n \in DOMAIN Tail(k.mine) : Copy(Tail(k.mine)[n])
        /\ Copy(Head(k.mine))
    BY <1>2, <2>1
  <2>3. /\ \A n \in DOMAIN Tail(k.mine) : Copy(Tail(k.mine)[n])'
        /\ new.stage = "limit" => Copy(new.entity)'
    BY <1>2, <1>3, <1>6, <2>2 DEF Copy
  <2>4. InOrder(c)'
    BY <1>1, <1>2, <1>3, <1>6, <2>3 DEF InOrder, HasEntity, Handoff
  <2>. QED
    BY <1>0, <1>1, <1>2, <1>3, <1>4, <1>6, <2>4, OnlyCallStep
<1>. QED
  BY <1>5, <1>6

LEMMA UpdateFlagStep ==
    ASSUME Ordered, NEW c \in Call, UpdateFlag(c)
    PROVE  LET k == call[c]
               new == call'[c]
           IN  /\ call' \in [Call -> CallState]
               /\ \A d \in Call \ {c} : call'[d] = call[d]
               /\ \/ new = Idle
                  \/ /\ new.stage = "limit" /\ new.kind = k.kind
                     /\ new.todo = k.todo /\ new.mine = k.mine
                     /\ new.entity = k.entity /\ k.entity.row.session = Null
                     /\ new.deal = Dealt(k.entity.row) /\ new.deal \in Deal
<1>0. PICK k : k = call[c]
  OBVIOUS
<1>1. /\ k.stage = "updateFlag" /\ InOrder(c) /\ k \in CallState
      /\ HasEntity(c)
  BY <1>0 DEF UpdateFlag, At, HasEntity, Ordered, Types
<1>2. CASE Goto(c, "idle")
  BY <1>2, GotoStep DEF Ordered, Stage
<1>3. CASE /\ k.entity.row.session = Null
           /\ Put(c, [k EXCEPT !.stage = "limit", !.deal = Dealt(k.entity.row)])
  <2>1. Dealt(k.entity.row) \in Deal
    <3>1. k.entity \in Entity
      BY <1>0, <1>1 DEF InOrder
    <3>2. k.entity.row.seeker \in Seeker /\ k.entity.row.job \in Job
      BY <3>1 DEF Entity, Row
    <3>. QED
      BY <3>2, MatchingAssumption DEF Dealt, Deal
  <2>2. PICK r : r = [k EXCEPT !.stage = "limit", !.deal = Dealt(k.entity.row)]
    OBVIOUS
  <2>3. /\ r \in CallState /\ r.stage = "limit" /\ r.kind = k.kind
        /\ r.todo = k.todo /\ r.mine = k.mine /\ r.entity = k.entity
        /\ r.deal = Dealt(k.entity.row)
    BY <1>1, <2>1, <2>2 DEF CallState, Stage, Handoff
  <2>4. call' = [call EXCEPT ![c] = IF r.stage = "idle" THEN Idle ELSE r]
    BY <1>3, <2>2 DEF Put
  <2>5. /\ call' \in [Call -> CallState] /\ call'[c] = r
        /\ \A d \in Call \ {c} : call'[d] = call[d]
    BY <2>3, <2>4, PutStep DEF Ordered
  <2>. QED
    BY <1>0, <1>3, <2>1, <2>3, <2>5
<1>. QED
  BY <1>0, <1>2, <1>3 DEF UpdateFlag, NotNegotiated

LEMMA UpdateFlagKeeps ==
    ASSUME Ordered, NEW c \in Call, UpdateFlag(c)
    PROVE  Ordered'
<1>0. PICK k : k = call[c]
  OBVIOUS
<1>1. /\ k.stage = "updateFlag" /\ Update(c) /\ InOrder(c) /\ HasEntity(c)
  BY <1>0 DEF UpdateFlag, At, HasEntity, Ordered
<1>2. /\ matches' \in Seq(Row) /\ DOMAIN matches' = DOMAIN matches
      /\ \A m \in DOMAIN matches : PairOf(matches'[m]) = PairOf(matches[m])
      /\ RowsPass'
      /\ UNCHANGED <<grants, payments, sessions, faults, overlapped>>
  BY <1>0, <1>1, UpdateFacts
<1>3. PICK new : new = call'[c]
  OBVIOUS
<1>4. /\ call' \in [Call -> CallState]
      /\ \A d \in Call \ {c} : call'[d] = call[d]
      /\ \/ new = Idle
         \/ /\ new.stage = "limit" /\ new.kind = k.kind
            /\ new.todo = k.todo /\ new.mine = k.mine
            /\ new.entity = k.entity
            /\ new.deal = Dealt(k.entity.row) /\ new.deal \in Deal
  BY <1>0, <1>3, UpdateFlagStep
<1>5. CASE new = Idle
  BY <1>0, <1>1, <1>2, <1>3, <1>4, <1>5, IdleInOrder, IdleState, MatchesStep
<1>6. CASE new # Idle
  <2>1. /\ k.entity \in Entity /\ Copy(k.entity) /\ k.kind # "access"
        /\ \A n \in DOMAIN k.mine : Copy(k.mine[n])
        /\ \A n \in DOMAIN k.todo :
               PassesForSeeker(k.todo[n][1], k.todo[n][2])
    BY <1>0, <1>1 DEF InOrder
  <2>2. Copy(k.entity)' /\ \A n \in DOMAIN k.mine : Copy(k.mine[n])'
    BY <1>2, <2>1 DEF Copy
  <2>3. InOrder(c)'
    BY <1>3, <1>4, <1>6, <2>1, <2>2 DEF InOrder, HasEntity, Handoff
  <2>. QED
    BY <1>0, <1>1, <1>2, <1>3, <1>4, <1>6, <2>3, MatchesStep
<1>. QED
  BY <1>5, <1>6

-----------------------------------------------------------------------------
\* The handoff.

\* An exception ends the handoff of a run or the whole call.
LEMMA ThrowStep ==
    ASSUME Ordered, NEW c \in Call, Throw(c), Grown
    PROVE  /\ call' \in [Call -> CallState]
           /\ \A d \in Call \ {c} : call'[d] = call[d]
           /\ call'[c].stage \in {"next", "idle"}
           /\ \/ call'[c] = Idle
              \/ call'[c] = [call[c] EXCEPT !.stage = "next"]
           /\ InOrder(c)'
<1>0. PICK k : k = call[c]
  OBVIOUS
<1>1. k \in CallState /\ InOrder(c)
  BY <1>0 DEF Ordered, Types
<1>2. CASE Goto(c, "idle")
  <2>1. /\ call' \in [Call -> CallState] /\ call'[c] = Idle
        /\ \A d \in Call \ {c} : call'[d] = call[d]
    BY <1>2, GotoStep DEF Ordered, Stage
  <2>. QED
    BY <2>1, IdleInOrder, IdleState
<1>3. CASE Goto(c, "next") /\ k.kind \in {"match", "retry"}
  <2>1. /\ call' \in [Call -> CallState]
        /\ \A d \in Call \ {c} : call'[d] = call[d]
        /\ call'[c] = [k EXCEPT !.stage = "next"]
        /\ call'[c].stage = "next" /\ call'[c].kind = k.kind
        /\ call'[c].todo = k.todo /\ call'[c].mine = k.mine
    BY <1>0, <1>3, GotoStep DEF Ordered, Stage
  <2>2. /\ \A n \in DOMAIN k.mine : Copy(k.mine[n])
        /\ \A n \in DOMAIN k.todo :
               PassesForSeeker(k.todo[n][1], k.todo[n][2])
    BY <1>0, <1>1 DEF InOrder
  <2>3. \A n \in DOMAIN k.mine : Copy(k.mine[n])'
    BY <2>2 DEF Copy, Grown
  <2>4. InOrder(c)'
    BY <1>3, <2>1, <2>2, <2>3 DEF InOrder, HasEntity, Handoff
  <2>. QED
    BY <1>0, <2>1, <2>4
<1>. QED
  BY <1>0, <1>2, <1>3 DEF Throw

\* On to the next stage of the handoff.
LEMMA HandoffGoto ==
    ASSUME Ordered, NEW c \in Call, NEW s \in Handoff, Goto(c, s), Grown,
           call[c].stage \in Handoff,
           call[c].kind = "access" => s \in {"access", "pay", "grant"},
           s = "open" => grants'[call[c].deal] > 0,
           s # "start", s # "updateRecord"
    PROVE  /\ call' \in [Call -> CallState]
           /\ \A d \in Call \ {c} : call'[d] = call[d]
           /\ call'[c] = [call[c] EXCEPT !.stage = s]
           /\ call'[c].stage = s
           /\ call'[c].deal = call[c].deal
           /\ InOrder(c)'
<1>0. PICK k : k = call[c]
  OBVIOUS
<1>1. k \in CallState /\ InOrder(c) /\ s \in Stage /\ s # "idle"
  BY <1>0 DEF Ordered, Types, Stage, Handoff
<1>2. /\ call' \in [Call -> CallState]
      /\ \A d \in Call \ {c} : call'[d] = call[d]
      /\ call'[c] = [k EXCEPT !.stage = s]
      /\ call'[c].stage = s /\ call'[c].kind = k.kind
      /\ call'[c].todo = k.todo /\ call'[c].mine = k.mine
      /\ call'[c].entity = k.entity /\ call'[c].deal = k.deal
  BY <1>0, <1>1, GotoStep DEF Ordered
<1>3. /\ \A n \in DOMAIN k.mine : Copy(k.mine[n])
      /\ \A n \in DOMAIN k.todo : PassesForSeeker(k.todo[n][1], k.todo[n][2])
      /\ k.deal \in Deal
      /\ k.kind # "access" => /\ k.entity \in Entity /\ Copy(k.entity)
                              /\ k.deal = Dealt(k.entity.row)
  BY <1>0, <1>1 DEF InOrder, HasEntity
<1>4. /\ \A n \in DOMAIN k.mine : Copy(k.mine[n])'
      /\ k.kind # "access" => Copy(k.entity)'
  BY <1>3 DEF Copy, Grown
<1>5. s = "open" => grants'[k.deal] > 0
  BY <1>0
<1>6. k.kind = "access" => s \in {"access", "pay", "grant"}
  BY <1>0
<1>7. InOrder(c)'
  BY <1>2, <1>3, <1>4, <1>5, <1>6 DEF InOrder, HasEntity, Handoff
<1>. QED
  BY <1>0, <1>2, <1>7

LEMMA CheckLimitKeeps ==
    ASSUME Ordered, NEW c \in Call, CheckLimit(c)
    PROVE  Ordered'
<1>1. /\ call[c].stage = "limit" /\ InOrder(c) /\ call[c].kind # "access"
      /\ UNCHANGED <<matches, grants, payments, sessions, faults, overlapped>>
      /\ call[c].stage \in Handoff
  BY DEF CheckLimit, At, OnlyCall, Ordered, InOrder, Handoff
<1>2. Grown
  BY <1>1 DEF Grown, Ordered, Types
<1>3. CASE Throw(c)
  <2>1. Types'
    BY <1>1, <1>2, <1>3, ThrowStep DEF Ordered, Types
  <2>. QED
    BY <1>1, <1>2, <1>3, <2>1, ThrowStep, OnlyCallStep
<1>4. CASE Goto(c, "access")
  <2>1. "access" \in Handoff
    BY DEF Handoff
  <2>2. /\ call' \in [Call -> CallState]
        /\ \A d \in Call \ {c} : call'[d] = call[d]
        /\ call'[c].stage = "access" /\ InOrder(c)'
    BY <1>1, <1>2, <1>4, <2>1, HandoffGoto
  <2>3. Types'
    BY <1>1, <2>2 DEF Ordered, Types
  <2>. QED
    BY <1>1, <2>2, <2>3, OnlyCallStep
<1>. QED
  BY <1>3, <1>4 DEF CheckLimit

\* With the grant there, the purchase is over.
LEMMA BoughtStep ==
    ASSUME Ordered, NEW c \in Call, Bought(c), Grown,
           call[c].stage \in Handoff, grants'[call[c].deal] > 0
    PROVE  /\ call' \in [Call -> CallState]
           /\ \A d \in Call \ {c} : call'[d] = call[d]
           /\ \/ call'[c] = Idle
              \/ /\ call'[c] = [call[c] EXCEPT !.stage = "open"]
                 /\ call'[c].stage = "open" /\ call[c].kind # "access"
           /\ InOrder(c)'
<1>1. CASE Goto(c, "idle")
  <2>1. /\ call' \in [Call -> CallState] /\ call'[c] = Idle
        /\ \A d \in Call \ {c} : call'[d] = call[d]
    BY <1>1, GotoStep DEF Ordered, Stage
  <2>. QED
    BY <2>1, IdleInOrder
<1>2. CASE Goto(c, "open") /\ call[c].kind # "access"
  <2>1. "open" \in Handoff
    BY DEF Handoff
  <2>. QED
    BY <1>2, <2>1, HandoffGoto
<1>. QED
  BY <1>1, <1>2 DEF Bought

LEMMA AccessKeeps ==
    ASSUME Ordered, NEW c \in Call, Access(c)
    PROVE  Ordered'
<1>1. /\ call[c].stage = "access" /\ InOrder(c)
      /\ UNCHANGED <<matches, grants, payments, sessions, faults, overlapped>>
      /\ call[c].stage \in Handoff
  BY DEF Access, At, OnlyCall, Ordered, Handoff
<1>2. Grown
  BY <1>1 DEF Grown, Ordered, Types
<1>3. CASE HasGrant(call[c].deal) /\ Bought(c)
  <2>1. grants'[call[c].deal] > 0
    BY <1>1, <1>3 DEF HasGrant
  <2>2. /\ call' \in [Call -> CallState]
        /\ \A d \in Call \ {c} : call'[d] = call[d]
        /\ call'[c].stage # "grant" /\ InOrder(c)'
    BY <1>1, <1>2, <1>3, <2>1, BoughtStep, IdleState
  <2>3. Types'
    BY <1>1, <2>2 DEF Ordered, Types
  <2>. QED
    BY <1>1, <2>2, <2>3, OnlyCallStep
<1>4. CASE Goto(c, "pay")
  <2>1. "pay" \in Handoff
    BY DEF Handoff
  <2>2. /\ call' \in [Call -> CallState]
        /\ \A d \in Call \ {c} : call'[d] = call[d]
        /\ call'[c].stage = "pay" /\ InOrder(c)'
    BY <1>1, <1>2, <1>4, <2>1, HandoffGoto
  <2>3. Types'
    BY <1>1, <2>2 DEF Ordered, Types
  <2>. QED
    BY <1>1, <2>2, <2>3, OnlyCallStep
<1>. QED
  BY <1>3, <1>4 DEF Access

\* One more view of the deal is paid.
LEMMA PaidStep ==
    ASSUME Types, NEW c \in Call, Paid(c), call[c].deal \in Deal
    PROVE  /\ payments' \in [Deal -> Nat]
           /\ payments'[call[c].deal] = payments[call[c].deal] + 1
           /\ \A d \in Deal \ {call[c].deal} : payments'[d] = payments[d]
BY DEF Types, Paid

LEMMA PayKeeps ==
    ASSUME Ordered, NEW c \in Call, Pay(c)
    PROVE  Ordered'
<1>0. PICK p : p = call[c].deal
  OBVIOUS
<1>1. /\ call[c].stage = "pay" /\ InOrder(c) /\ call[c].stage \in Handoff
      /\ Paid(c) /\ Goto(c, "grant")
      /\ UNCHANGED <<matches, grants, sessions, faults, overlapped>>
  BY DEF Pay, At, Ordered, Handoff
<1>2. Grown
  BY <1>1 DEF Grown, Ordered, Types
<1>3. p \in Deal /\ "grant" \in Handoff
  BY <1>0, <1>1 DEF InOrder, Handoff
<1>4. /\ call' \in [Call -> CallState]
      /\ \A d \in Call \ {c} : call'[d] = call[d]
      /\ call'[c].stage = "grant" /\ call'[c].deal = p /\ InOrder(c)'
  BY <1>0, <1>1, <1>2, <1>3, HandoffGoto
<1>5. /\ payments' \in [Deal -> Nat] /\ payments'[p] = payments[p] + 1
      /\ \A d \in Deal \ {p} : payments'[d] = payments[d]
  BY <1>0, <1>1, <1>3, PaidStep DEF Ordered
<1>6. Types'
  BY <1>1, <1>4, <1>5 DEF Ordered, Types
<1>7. ASSUME NEW d \in Deal PROVE Covered(d)'
  <2>1. /\ IsFiniteSet(Granting(d))
        /\ grants[d] + Cardinality(Granting(d)) <= payments[d]
        /\ grants[d] \in Nat /\ payments[d] \in Nat
        /\ Cardinality(Granting(d)) \in Nat
    BY FS_CardinalityType DEF Ordered, Covered, Types
  <2>2. CASE d = p
    <3>1. Granting(d)' = Granting(d) \cup {c} /\ c \notin Granting(d)
      BY <1>1, <1>4, <2>2 DEF Granting
    <3>2. /\ IsFiniteSet(Granting(d)')
          /\ Cardinality(Granting(d)') = Cardinality(Granting(d)) + 1
      BY <2>1, <3>1, FS_AddElement
    <3>3. payments'[d] = payments[d] + 1 /\ grants' = grants
      BY <1>1, <1>5, <2>2
    <3>. QED
      BY <2>1, <3>2, <3>3 DEF Covered
  <2>3. CASE d # p
    <3>1. Granting(d)' = Granting(d)
      BY <1>1, <1>4, <2>3 DEF Granting
    <3>. QED
      BY <1>1, <1>5, <2>1, <2>3, <3>1 DEF Covered
  <2>. QED
    BY <2>2, <2>3
<1>8. RowsPass' /\ SessionsGranted'
  BY <1>1 DEF Ordered, RowsPass, SessionsGranted
<1>. QED
  BY <1>2, <1>4, <1>6, <1>7, <1>8, OrderedStep

\* A call that was about to store a grant is not any more.
LEMMA NoLongerGranting ==
    ASSUME Ordered, NEW c \in Call, call[c].stage = "grant",
           call'[c].stage # "grant",
           \A d \in Call \ {c} : call'[d] = call[d], NEW d \in Deal
    PROVE  /\ IsFiniteSet(Granting(d)')
           /\ Cardinality(Granting(d)') =
                  IF d = call[c].deal THEN Cardinality(Granting(d)) - 1
                                      ELSE Cardinality(Granting(d))
<1>1. IsFiniteSet(Granting(d))
  BY DEF Ordered, Covered
<1>2. CASE d = call[c].deal
  <2>1. Granting(d)' = Granting(d) \ {c} /\ c \in Granting(d)
    BY <1>2 DEF Granting
  <2>. QED
    BY <1>1, <1>2, <2>1, FS_RemoveElement
<1>3. CASE d # call[c].deal
  <2>1. Granting(d)' = Granting(d)
    BY <1>3 DEF Granting
  <2>. QED
    BY <1>1, <1>3, <2>1
<1>. QED
  BY <1>2, <1>3

\* A grant is stored, and the purchase is over, or its hash does not fit.
GrantsGrow(c) ==
    LET p == call[c].deal
    IN  /\ p \in Deal /\ grants' \in [Deal -> Nat]
        /\ \A d \in Deal : grants'[d] >= grants[d]
        /\ \A d \in Deal \ {p} : grants'[d] = grants[d]
        /\ \/ grants' = grants /\ Throw(c) /\ ~TxHashFits(p)
           \/ /\ grants'[p] = grants[p] + 1 /\ grants'[p] > 0
              /\ Bought(c) /\ TxHashFits(p)

LEMMA GrantsStep ==
    ASSUME Ordered, NEW c \in Call, Grant(c)
    PROVE  GrantsGrow(c)
<1>0. PICK p : p = call[c].deal
  OBVIOUS
<1>1. /\ p \in Deal /\ grants \in [Deal -> Nat]
      /\ \A d \in Deal : grants[d] \in Nat
  BY <1>0 DEF Grant, At, Ordered, Handoff, InOrder, Types
<1>2. CASE grants' = grants /\ Throw(c) /\ ~TxHashFits(p)
  <2>1. \A d \in Deal : grants'[d] >= grants[d]
    BY <1>1, <1>2
  <2>. QED
    BY <1>0, <1>1, <1>2, <2>1 DEF GrantsGrow
<1>3. CASE /\ grants' = [grants EXCEPT ![p] = grants[p] + 1]
           /\ Bought(c) /\ TxHashFits(p)
  <2>1. /\ grants' \in [Deal -> Nat] /\ grants'[p] = grants[p] + 1
        /\ \A d \in Deal \ {p} : grants'[d] = grants[d]
    BY <1>1, <1>3
  <2>2. grants'[p] > 0 /\ \A d \in Deal : grants'[d] >= grants[d]
    BY <1>1, <2>1
  <2>. QED
    BY <1>0, <1>1, <1>3, <2>1, <2>2 DEF GrantsGrow
<1>. QED
  BY <1>0, <1>2, <1>3 DEF Grant

LEMMA GrantKeeps ==
    ASSUME Ordered, NEW c \in Call, Grant(c)
    PROVE  Ordered'
<1>0. PICK p : p = call[c].deal
  OBVIOUS
<1>1. /\ call[c].stage = "grant" /\ InOrder(c) /\ call[c].stage \in Handoff
      /\ UNCHANGED <<matches, payments, sessions, faults, overlapped>>
      /\ p \in Deal
  BY <1>0 DEF Grant, At, Ordered, Handoff, InOrder
<1>2. \A d \in Deal : /\ grants[d] \in Nat /\ payments[d] \in Nat
                      /\ Cardinality(Granting(d)) \in Nat
                      /\ grants[d] + Cardinality(Granting(d)) <= payments[d]
  BY FS_CardinalityType DEF Ordered, Covered, Types
<1>3. /\ grants' \in [Deal -> Nat]
      /\ \A d \in Deal : /\ grants'[d] >= grants[d]
                         /\ grants'[d] <= IF d = p THEN grants[d] + 1
                                                   ELSE grants[d]
      /\ Throw(c) \/ (Bought(c) /\ grants'[p] > 0)
  <2>1. /\ grants' \in [Deal -> Nat]
        /\ \A d \in Deal : grants'[d] >= grants[d]
        /\ \A d \in Deal \ {p} : grants'[d] = grants[d]
        /\ \/ grants' = grants /\ Throw(c)
           \/ grants'[p] = grants[p] + 1 /\ grants'[p] > 0 /\ Bought(c)
    BY <1>0, GrantsStep DEF GrantsGrow
  <2>. QED
    BY <1>1, <1>2, <2>1
<1>4. Grown
  BY <1>1, <1>3 DEF Grown
<1>5. /\ call' \in [Call -> CallState]
      /\ \A d \in Call \ {c} : call'[d] = call[d]
      /\ call'[c].stage # "grant" /\ InOrder(c)'
  <2>1. CASE Throw(c)
    BY <1>4, <2>1, ThrowStep
  <2>2. CASE Bought(c) /\ grants'[p] > 0
    BY <1>0, <1>1, <1>4, <2>2, BoughtStep, IdleState
  <2>. QED
    BY <1>3, <2>1, <2>2
<1>6. Types'
  BY <1>1, <1>3, <1>5 DEF Ordered, Types
<1>7. ASSUME NEW d \in Deal PROVE Covered(d)'
  <2>1. /\ IsFiniteSet(Granting(d)')
        /\ Cardinality(Granting(d)') =
               IF d = p THEN Cardinality(Granting(d)) - 1
                        ELSE Cardinality(Granting(d))
    BY <1>0, <1>1, <1>5, NoLongerGranting
  <2>2. grants'[d] \in Nat /\ payments'[d] = payments[d]
    BY <1>1, <1>3
  <2>. QED
    BY <1>2, <1>3, <2>1, <2>2 DEF Covered
<1>8. RowsPass'
  BY <1>1 DEF Ordered, RowsPass
<1>9. SessionsGranted'
  <2>. SUFFICES ASSUME NEW n \in DOMAIN sessions, sessions[n].matched
                PROVE  grants'[<<EmployerOf[sessions[n].job],
                                 sessions[n].seeker>>] > 0
    BY <1>1 DEF SessionsGranted
  <2>1. PICK d : d = <<EmployerOf[sessions[n].job], sessions[n].seeker>>
    OBVIOUS
  <2>2. d \in Deal
    <3>1. sessions[n] \in Negotiation
      BY DEF Ordered, Types
    <3>2. sessions[n].job \in Job /\ sessions[n].seeker \in Seeker
      BY <3>1 DEF Negotiation
    <3>. QED
      BY <2>1, <3>2, MatchingAssumption DEF Deal
  <2>3. grants[d] > 0
    BY <2>1 DEF Ordered, SessionsGranted
  <2>4. grants'[d] >= grants[d] /\ grants'[d] \in Nat /\ grants[d] \in Nat
    BY <1>2, <1>3, <2>2
  <2>. QED
    BY <2>1, <2>3, <2>4
<1>. QED
  BY <1>4, <1>5, <1>6, <1>7, <1>8, <1>9, OrderedStep

\* Neither the payments nor the grants change, and nobody's grant is near.
LEMMA StillCovered ==
    ASSUME Ordered, NEW c \in Call, UNCHANGED <<grants, payments>>,
           \A d \in Call \ {c} : call'[d] = call[d],
           call[c].stage # "grant", call'[c].stage # "grant"
    PROVE  \A d \in Deal : Covered(d)'
<1>1. \A d \in Deal : Granting(d)' = Granting(d)
  BY DEF Granting
<1>. QED
  BY <1>1 DEF Covered, Ordered

LEMMA OpenStep ==
    ASSUME Ordered, NEW c \in Call, Open(c)
    PROVE  LET k == call[c]
               new == call'[c]
           IN  /\ k.entity.row \in Row /\ Len(sessions) \in Nat
               /\ sessions' \in Seq(Negotiation)
               /\ DOMAIN sessions = 1 .. Len(sessions)
               /\ DOMAIN sessions' = 1 .. Len(sessions) + 1
               /\ \A n \in DOMAIN sessions : sessions'[n] = sessions[n]
               /\ sessions'[Len(sessions) + 1]
                      = Opened(k.entity.row.seeker, k.entity.row.job, TRUE)
               /\ call' \in [Call -> CallState]
               /\ \A d \in Call \ {c} : call'[d] = call[d]
               /\ new.stage = "start" /\ new.kind = k.kind
               /\ new.todo = k.todo /\ new.mine = k.mine /\ new.deal = k.deal
               /\ new.entity \in Entity /\ new.entity.id = k.entity.id
               /\ PairOf(new.entity.row) = PairOf(k.entity.row)
               /\ new.entity.row.session = Len(sessions) + 1
<1>0. PICK k : k = call[c]
  OBVIOUS
<1>1. /\ k.stage = "open" /\ k \in CallState /\ InOrder(c)
      /\ sessions \in Seq(Negotiation)
  BY <1>0 DEF Open, At, Ordered, Types
<1>2. k.entity \in Entity
  BY <1>0, <1>1 DEF InOrder, HasEntity, Handoff
<1>3. PICK s : s = Opened(k.entity.row.seeker, k.entity.row.job, TRUE)
  OBVIOUS
<1>4. /\ k.entity.row \in Row /\ k.entity.id \in Nat
      /\ k.entity.row.seeker \in Seeker /\ k.entity.row.job \in Job
  BY <1>2 DEF Entity, Row
<1>5. s \in Negotiation
  BY <1>3, <1>4 DEF Opened, Negotiation
<1>6. sessions' = Append(sessions, s)
  BY <1>0, <1>3 DEF Open
<1>7. /\ sessions' \in Seq(Negotiation) /\ Len(sessions) \in Nat
      /\ DOMAIN sessions = 1 .. Len(sessions)
      /\ DOMAIN sessions' = 1 .. Len(sessions) + 1
      /\ \A n \in 1 .. Len(sessions) : sessions'[n] = sessions[n]
      /\ sessions'[Len(sessions) + 1] = s
  BY <1>1, <1>5, <1>6, AppendFacts
<1>8. PICK e : e = [k.entity EXCEPT !.row.session = Len(sessions) + 1]
  OBVIOUS
<1>9. /\ e \in Entity /\ e.id = k.entity.id
      /\ PairOf(e.row) = PairOf(k.entity.row)
      /\ e.row.session = Len(sessions) + 1
  <2>1. PICK row : row = [k.entity.row EXCEPT !.session = Len(sessions) + 1]
    OBVIOUS
  <2>2. /\ row \in Row /\ PairOf(row) = PairOf(k.entity.row)
        /\ row.session = Len(sessions) + 1
    BY <1>4, <1>7, <2>1 DEF Row, PairOf
  <2>3. e = [k.entity EXCEPT !.row = row]
    BY <1>8, <2>1
  <2>4. e \in Entity /\ e.id = k.entity.id /\ e.row = row
    BY <1>2, <2>2, <2>3 DEF Entity
  <2>. QED
    BY <2>2, <2>4
<1>10. PICK r : r = [k EXCEPT !.stage = "start", !.entity = e]
  OBVIOUS
<1>11. /\ r \in CallState /\ r.stage = "start" /\ r.kind = k.kind
       /\ r.todo = k.todo /\ r.mine = k.mine /\ r.entity = e
       /\ r.deal = k.deal
  BY <1>1, <1>9, <1>10 DEF CallState, Stage, Handoff
<1>12. call' = [call EXCEPT ![c] = IF r.stage = "idle" THEN Idle ELSE r]
  <2>1. Put(c, [k EXCEPT !.stage = "start",
                         !.entity.row.session = Len(sessions) + 1])
    BY <1>0 DEF Open
  <2>2. [k EXCEPT !.stage = "start",
                  !.entity.row.session = Len(sessions) + 1] = r
    BY <1>1, <1>8, <1>10 DEF CallState
  <2>. QED
    BY <2>1, <2>2 DEF Put
<1>13. /\ call' \in [Call -> CallState] /\ call'[c] = r
       /\ \A d \in Call \ {c} : call'[d] = call[d]
  BY <1>11, <1>12, PutStep DEF Ordered
<1>. QED
  BY <1>0, <1>3, <1>4, <1>7, <1>9, <1>11, <1>13

LEMMA OpenKeeps ==
    ASSUME Ordered, NEW c \in Call, Open(c)
    PROVE  Ordered'
<1>0. PICK k : k = call[c]
  OBVIOUS
<1>1. PICK new : new = call'[c]
  OBVIOUS
<1>2. PICK s : s = Opened(k.entity.row.seeker, k.entity.row.job, TRUE)
  OBVIOUS
<1>3. /\ k.stage = "open" /\ InOrder(c)
      /\ UNCHANGED <<matches, grants, payments, faults, overlapped>>
  BY <1>0 DEF Open, At, Ordered
<1>4. /\ k.kind # "access" /\ k.entity \in Entity /\ Copy(k.entity)
      /\ k.deal = Dealt(k.entity.row) /\ grants[k.deal] > 0
      /\ k.deal \in Deal
      /\ \A n \in DOMAIN k.mine : Copy(k.mine[n])
      /\ \A n \in DOMAIN k.todo : PassesForSeeker(k.todo[n][1], k.todo[n][2])
  BY <1>0, <1>3 DEF InOrder, HasEntity, Handoff
<1>5. /\ Len(sessions) \in Nat /\ sessions' \in Seq(Negotiation)
      /\ DOMAIN sessions = 1 .. Len(sessions)
      /\ DOMAIN sessions' = 1 .. Len(sessions) + 1
      /\ \A n \in DOMAIN sessions : sessions'[n] = sessions[n]
      /\ sessions'[Len(sessions) + 1] = s
      /\ call' \in [Call -> CallState]
      /\ \A d \in Call \ {c} : call'[d] = call[d]
      /\ new.stage = "start" /\ new.kind = k.kind
      /\ new.todo = k.todo /\ new.mine = k.mine /\ new.deal = k.deal
      /\ new.entity \in Entity /\ new.entity.id = k.entity.id
      /\ PairOf(new.entity.row) = PairOf(k.entity.row)
      /\ new.entity.row.session = Len(sessions) + 1
  BY <1>0, <1>1, <1>2, OpenStep
<1>6. Types'
  BY <1>3, <1>5 DEF Ordered, Types
<1>7. Grown
  BY <1>3, <1>5 DEF Grown, Ordered, Types
<1>8. Copy(new.entity)' /\ \A n \in DOMAIN k.mine : Copy(k.mine[n])'
  BY <1>3, <1>4, <1>5 DEF Copy
<1>9. Dealt(new.entity.row) = k.deal
  BY <1>4, <1>5 DEF Dealt, PairOf
<1>10. new.entity.row.session \in DOMAIN sessions'
  BY <1>5
<1>11. InOrder(c)'
  BY <1>1, <1>4, <1>5, <1>8, <1>9, <1>10 DEF InOrder, HasEntity, Handoff
<1>12. RowsPass'
  BY <1>3 DEF Ordered, RowsPass
<1>13. SessionsGranted'
  <2>1. grants[<<EmployerOf[s.job], s.seeker>>] > 0
    BY <1>2, <1>4 DEF Dealt, Opened
  <2>. QED
    BY <1>3, <1>5, <2>1 DEF Ordered, SessionsGranted
<1>14. \A d \in Deal : Covered(d)'
  BY <1>0, <1>1, <1>3, <1>5, StillCovered
<1>. QED
  BY <1>5, <1>6, <1>7, <1>11, <1>12, <1>13, <1>14, OrderedStep

\* A session gets another state and stays whose it is.
SameSessions ==
    /\ DOMAIN sessions' = DOMAIN sessions
    /\ \A i \in DOMAIN sessions : /\ PairOf(sessions'[i]) = PairOf(sessions[i])
                                  /\ sessions'[i].matched = sessions[i].matched

LEMMA StateStep ==
    ASSUME Types, NEW n \in DOMAIN sessions,
           NEW s \in {"INITIATED", "STARTED", "FAILED"},
           sessions' = [sessions EXCEPT ![n].state = s]
    PROVE  /\ sessions' \in Seq(Negotiation)
           /\ DOMAIN sessions' = DOMAIN sessions
           /\ SameSessions
           /\ \A i \in DOMAIN sessions \ {n} : sessions'[i] = sessions[i]
           /\ sessions'[n].state = s
<1>1. PICK new : new = [sessions[n] EXCEPT !.state = s]
  OBVIOUS
<1>2. sessions \in Seq(Negotiation) /\ sessions[n] \in Negotiation
  BY DEF Types
<1>3. new \in Negotiation /\ PairOf(new) = PairOf(sessions[n])
      /\ new.state = s /\ new.matched = sessions[n].matched
  BY <1>1, <1>2 DEF Negotiation, PairOf
<1>4. sessions' = [sessions EXCEPT ![n] = new]
  BY <1>1
<1>5. \A i \in DOMAIN sessions : sessions'[i] = IF i = n THEN new ELSE sessions[i]
  BY <1>4
<1>6. sessions' \in Seq(Negotiation) /\ DOMAIN sessions' = DOMAIN sessions
  BY <1>2, <1>3, <1>4
<1>. QED
  BY <1>3, <1>5, <1>6 DEF SameSessions

LEMMA StateKeepsGrants ==
    ASSUME SessionsGranted, UNCHANGED grants, SameSessions
    PROVE  SessionsGranted'
BY DEF SessionsGranted, PairOf, SameSessions

LEMMA StartKeeps ==
    ASSUME Ordered, NEW c \in Call, Start(c)
    PROVE  Ordered'
<1>0. PICK k : k = call[c]
  OBVIOUS
<1>1. /\ k.stage = "start" /\ k \in CallState /\ InOrder(c)
      /\ UNCHANGED <<matches, grants, payments, faults, overlapped>>
      /\ k.kind # "access" /\ k.stage \in Handoff
  BY <1>0 DEF Start, At, Ordered, Types, InOrder, Handoff
<1>2. PICK n : n = k.entity.row.session
  OBVIOUS
<1>3. n \in DOMAIN sessions
  BY <1>0, <1>1, <1>2 DEF InOrder
<1>4. \/ sessions' = [sessions EXCEPT ![n].state = "STARTED"]
         /\ Goto(c, "selectRecord")
      \/ UNCHANGED sessions /\ Throw(c)
  BY <1>0, <1>2 DEF Start, Started
<1>5. sessions' \in Seq(Negotiation) /\ SameSessions
  <2>1. CASE sessions' = [sessions EXCEPT ![n].state = "STARTED"]
    BY <1>3, <2>1, StateStep DEF Ordered
  <2>2. CASE UNCHANGED sessions
    BY <2>2 DEF Ordered, Types, SameSessions
  <2>. QED
    BY <1>4, <2>1, <2>2
<1>6. Grown
  BY <1>1, <1>5 DEF Grown, Ordered, Types, SameSessions
<1>7. "selectRecord" \in Handoff
  BY DEF Handoff
<1>8. /\ call' \in [Call -> CallState] /\ call'[c].stage # "grant"
      /\ \A d \in Call \ {c} : call'[d] = call[d]
      /\ InOrder(c)'
  <2>1. CASE Goto(c, "selectRecord")
    BY <1>0, <1>1, <1>6, <1>7, <2>1, HandoffGoto
  <2>2. CASE Throw(c)
    BY <1>6, <2>2, ThrowStep
  <2>. QED
    BY <1>4, <2>1, <2>2
<1>9. Types'
  BY <1>1, <1>5, <1>8 DEF Ordered, Types
<1>10. RowsPass'
  BY <1>1 DEF Ordered, RowsPass
<1>11. SessionsGranted'
  BY <1>1, <1>5, StateKeepsGrants DEF Ordered
<1>12. \A d \in Deal : Covered(d)'
  BY <1>0, <1>1, <1>8, StillCovered
<1>. QED
  BY <1>6, <1>8, <1>9, <1>10, <1>11, <1>12, OrderedStep

LEMMA RecordKeeps ==
    ASSUME Ordered, NEW c \in Call, Record(c)
    PROVE  Ordered'
<1>0. PICK k : k = call[c]
  OBVIOUS
<1>1. /\ k.stage = "updateRecord" /\ Update(c) /\ InOrder(c) /\ k \in CallState
      /\ Goto(c, "next")
  BY <1>0 DEF Record, At, Ordered, Types
<1>2. k.kind # "access" /\ HasEntity(c)
  BY <1>0, <1>1 DEF InOrder, HasEntity, Handoff
<1>3. /\ matches' \in Seq(Row) /\ DOMAIN matches' = DOMAIN matches
      /\ \A m \in DOMAIN matches : PairOf(matches'[m]) = PairOf(matches[m])
      /\ RowsPass'
      /\ UNCHANGED <<grants, payments, sessions, faults, overlapped>>
  BY <1>0, <1>1, <1>2, UpdateFacts
<1>4. /\ call' \in [Call -> CallState]
      /\ \A d \in Call \ {c} : call'[d] = call[d]
      /\ call'[c].stage = "next" /\ call'[c].kind = k.kind
      /\ call'[c].todo = k.todo /\ call'[c].mine = k.mine
  <2>1. "next" \in Stage /\ "next" # "idle"
    BY DEF Stage
  <2>. QED
    BY <1>0, <1>1, <2>1, GotoStep DEF Ordered
<1>5. InOrder(c)'
  <2>1. /\ \A n \in DOMAIN k.mine : Copy(k.mine[n])
        /\ \A n \in DOMAIN k.todo :
               PassesForSeeker(k.todo[n][1], k.todo[n][2])
    BY <1>0, <1>1 DEF InOrder
  <2>2. \A n \in DOMAIN k.mine : Copy(k.mine[n])'
    BY <1>3, <2>1 DEF Copy
  <2>. QED
    BY <1>2, <1>4, <2>1, <2>2 DEF InOrder, HasEntity, Handoff
<1>. QED
  BY <1>0, <1>1, <1>3, <1>4, <1>5, MatchesStep

LEMMA FailKeeps ==
    ASSUME Ordered, NEW c \in Call, Fail(c)
    PROVE  Ordered'
<1>1. /\ UNCHANGED <<matches, grants, sessions, overlapped>>
      /\ faults' = faults + 1 /\ Throw(c)
      /\ InOrder(c)
  BY DEF Fail, Ordered
<1>2. Grown
  BY <1>1 DEF Grown, Ordered, Types
<1>3. /\ call' \in [Call -> CallState]
      /\ \A d \in Call \ {c} : call'[d] = call[d]
      /\ call'[c].stage # "grant" /\ InOrder(c)'
  BY <1>1, <1>2, ThrowStep
<1>4. /\ payments' \in [Deal -> Nat]
      /\ \A d \in Deal : payments'[d] >= payments[d]
  <2>1. CASE UNCHANGED payments
    BY <2>1 DEF Ordered, Types
  <2>2. CASE call[c].stage = "pay" /\ Paid(c)
    <3>1. call[c].deal \in Deal
      BY <1>1, <2>2 DEF InOrder, Handoff
    <3>2. /\ payments' \in [Deal -> Nat]
          /\ payments'[call[c].deal] = payments[call[c].deal] + 1
          /\ \A d \in Deal \ {call[c].deal} : payments'[d] = payments[d]
      BY <2>2, <3>1, PaidStep DEF Ordered
    <3>3. \A d \in Deal : payments[d] \in Nat
      BY DEF Ordered, Types
    <3>. QED
      BY <3>1, <3>2, <3>3
  <2>. QED
    BY <2>1, <2>2 DEF Fail, At
<1>5. Types'
  BY <1>1, <1>3, <1>4 DEF Ordered, Types
<1>6. ASSUME NEW d \in Deal PROVE Covered(d)'
  <2>1. /\ IsFiniteSet(Granting(d)) /\ Cardinality(Granting(d)) \in Nat
        /\ grants[d] + Cardinality(Granting(d)) <= payments[d]
        /\ grants[d] \in Nat /\ payments[d] \in Nat /\ payments'[d] \in Nat
        /\ payments'[d] >= payments[d] /\ grants' = grants
    BY <1>1, <1>4, FS_CardinalityType DEF Ordered, Covered, Types
  <2>2. CASE call[c].stage = "grant"
    <3>1. /\ IsFiniteSet(Granting(d)')
          /\ Cardinality(Granting(d)') =
                 IF d = call[c].deal THEN Cardinality(Granting(d)) - 1
                                     ELSE Cardinality(Granting(d))
      BY <1>3, <2>2, NoLongerGranting
    <3>. QED
      BY <2>1, <3>1 DEF Covered
  <2>3. CASE call[c].stage # "grant"
    <3>1. Granting(d)' = Granting(d)
      BY <1>3, <2>3 DEF Granting
    <3>. QED
      BY <2>1, <3>1 DEF Covered
  <2>. QED
    BY <2>2, <2>3
<1>7. RowsPass' /\ SessionsGranted'
  BY <1>1 DEF Ordered, RowsPass, SessionsGranted
<1>. QED
  BY <1>2, <1>3, <1>5, <1>6, <1>7, OrderedStep

\* What is no call's step leaves the calls, the matches and the money alone.
LEMMA SessionsStep ==
    ASSUME Ordered, UNCHANGED <<matches, grants, payments, call, faults>>,
           overlapped' \in BOOLEAN, sessions' \in Seq(Negotiation),
           DOMAIN sessions \subseteq DOMAIN sessions', SessionsGranted'
    PROVE  Ordered'
<1>1. Types'
  BY DEF Ordered, Types
<1>2. Grown
  BY DEF Grown, Ordered, Types
<1>3. \A c \in Call : InOrder(c)'
  BY <1>1, <1>2, Undisturbed DEF Ordered
<1>4. RowsPass' /\ \A d \in Deal : Covered(d)'
  BY DEF Ordered, RowsPass, Covered, Granting
<1>. QED
  BY <1>1, <1>3, <1>4 DEF Ordered

LEMMA StateKeeps ==
    ASSUME Ordered, NEW n \in DOMAIN sessions, SessionFails(n) \/ StartSession(n)
    PROVE  Ordered'
<1>1. PICK s \in {"STARTED", "FAILED"} :
          sessions' = [sessions EXCEPT ![n].state = s]
  BY DEF SessionFails, StartSession, Started
<1>2. UNCHANGED <<matches, grants, payments, call, faults>>
  BY DEF SessionFails, StartSession
<1>3. overlapped' \in BOOLEAN
  BY DEF SessionFails, StartSession, Requested, Ordered, Types
<1>4. sessions' \in Seq(Negotiation) /\ SameSessions
  BY <1>1, StateStep DEF Ordered
<1>5. SessionsGranted'
  BY <1>2, <1>4, StateKeepsGrants DEF Ordered
<1>. QED
  BY <1>2, <1>3, <1>4, <1>5, SessionsStep DEF SameSessions

\* The session a request opens is new, and no match's.
LEMMA CreateStep ==
    ASSUME Types, NEW s \in Seeker, NEW j \in Job, CreateSession(s, j)
    PROVE  /\ sessions' \in Seq(Negotiation) /\ Len(sessions) \in Nat
           /\ DOMAIN sessions = 1 .. Len(sessions)
           /\ DOMAIN sessions' = 1 .. Len(sessions) + 1
           /\ \A n \in DOMAIN sessions : sessions'[n] = sessions[n]
           /\ ~sessions'[Len(sessions) + 1].matched
<1>1. PICK new : new = Opened(s, j, FALSE)
  OBVIOUS
<1>2. new \in Negotiation /\ ~new.matched
  BY <1>1 DEF Opened, Negotiation
<1>3. sessions' = Append(sessions, new) /\ sessions \in Seq(Negotiation)
  BY <1>1 DEF CreateSession, Types
<1>. QED
  BY <1>2, <1>3, AppendFacts

LEMMA CreateKeeps ==
    ASSUME Ordered, NEW s \in Seeker, NEW j \in Job, CreateSession(s, j)
    PROVE  Ordered'
<1>1. UNCHANGED <<matches, grants, payments, call, faults>>
  BY DEF CreateSession
<1>2. overlapped' \in BOOLEAN
  BY DEF CreateSession, Requested, Ordered, Types
<1>3. /\ sessions' \in Seq(Negotiation) /\ Len(sessions) \in Nat
      /\ DOMAIN sessions = 1 .. Len(sessions)
      /\ DOMAIN sessions' = 1 .. Len(sessions) + 1
      /\ \A n \in DOMAIN sessions : sessions'[n] = sessions[n]
      /\ ~sessions'[Len(sessions) + 1].matched
  BY CreateStep DEF Ordered
<1>4. \A n \in DOMAIN sessions' : n \in DOMAIN sessions \/ n = Len(sessions) + 1
  BY <1>3
<1>5. SessionsGranted'
  BY <1>1, <1>3, <1>4 DEF Ordered, SessionsGranted
<1>6. DOMAIN sessions \subseteq DOMAIN sessions'
  BY <1>3
<1>. QED
  BY <1>1, <1>2, <1>3, <1>5, <1>6, SessionsStep

\* A change of a status column touches none of this.
LEMMA RelistKeeps ==
    ASSUME Ordered, NEW x, Relist(x)
    PROVE  Ordered'
<1>1. UNCHANGED <<matches, grants, payments, sessions, call, faults, overlapped>>
  BY DEF Relist
<1>2. SessionsGranted'
  BY <1>1 DEF Ordered, SessionsGranted
<1>3. overlapped' \in BOOLEAN /\ sessions' \in Seq(Negotiation)
  BY <1>1 DEF Ordered, Types
<1>. QED
  BY <1>1, <1>2, <1>3, SessionsStep

LEMMA OrderedInitially == Init => Ordered
<1>. SUFFICES ASSUME Init PROVE Ordered
  OBVIOUS
<1>1. /\ matches = <<>> /\ sessions = <<>> /\ faults = 0 /\ overlapped = FALSE
      /\ grants = [d \in Deal |-> 0] /\ payments = [d \in Deal |-> 0]
      /\ call = [c \in Call |-> Idle]
  BY DEF Init
<1>2. Types
  <2>1. matches \in Seq(Row) /\ sessions \in Seq(Negotiation)
    BY <1>1
  <2>2. call \in [Call -> CallState]
    BY <1>1, IdleState
  <2>3. grants \in [Deal -> Nat] /\ payments \in [Deal -> Nat]
    BY <1>1
  <2>. QED
    BY <1>1, <2>1, <2>2, <2>3 DEF Types
<1>3. \A c \in Call : InOrder(c)
  BY <1>1, IdleState DEF InOrder, HasEntity, Handoff
<1>4. \A d \in Deal : Granting(d) = {}
  BY <1>1, IdleState DEF Granting
<1>5. \A d \in Deal : Covered(d)
  BY <1>1, <1>4, FS_EmptySet DEF Covered
<1>. QED
  BY <1>1, <1>2, <1>3, <1>5 DEF Ordered, RowsPass, SessionsGranted

LEMMA NextIsStep ==
    ASSUME Next
    PROVE  \/ \E c \in Call : Begins(c) \/ Run(c) \/ Fail(c)
           \/ \E n \in DOMAIN sessions : SessionFails(n) \/ StartSession(n)
           \/ \E s \in Seeker, j \in Job : CreateSession(s, j)
           \/ \E x \in Job \cup Seeker : Relist(x)
BY DEF Next, Begins

LEMMA OrderedInductive == Ordered /\ [Next]_vars => Ordered'
<1>. SUFFICES ASSUME Ordered, [Next]_vars PROVE Ordered'
  OBVIOUS
<1>1. ASSUME NEW c \in Call, Run(c) PROVE Ordered'
  BY <1>1, FindKeeps, InsertKeeps, SaveSelectKeeps, UpdateScoreKeeps,
     NextMatchKeeps, UpdateFlagKeeps, CheckLimitKeeps, AccessKeeps, PayKeeps,
     GrantKeeps, OpenKeeps, StartKeeps, RecordKeeps DEF Run
<1>2. ASSUME UNCHANGED vars PROVE Ordered'
  BY <1>2 DEF vars, Ordered, Types, InOrder, HasEntity, Copy, RowsPass, Covered,
              Granting, SessionsGranted
<1>. QED
  BY <1>1, <1>2, NextIsStep, BeginsKeeps, FailKeeps, StateKeeps, CreateKeeps,
     RelistKeeps

LEMMA OrderedHolds == Spec => []Ordered
BY OrderedInitially, OrderedInductive, PTL DEF Spec

\* Whatever overlaps and whatever fails, for any number of calls, seekers and
\* employers: every granted view was paid, each by a payment of its own, and
\* no negotiation that a match opens is about a seeker whose profile was not
\* bought.  (Those a request opens may be: they are not part of the statement.)
THEOREM NothingIsFree == Spec => []NothingForFree
<1>1. Ordered => NothingForFree
  <2>. SUFFICES ASSUME Ordered PROVE NothingForFree
    OBVIOUS
  <2>1. \A d \in Deal : grants[d] <= payments[d]
    <3>1. \A d \in Deal :
              /\ Cardinality(Granting(d)) \in Nat
              /\ grants[d] + Cardinality(Granting(d)) <= payments[d]
              /\ grants[d] \in Nat /\ payments[d] \in Nat
      BY FS_CardinalityType DEF Ordered, Covered, Types
    <3>. QED
      BY <3>1
  <2>. QED
    BY <2>1 DEF NothingForFree, Ordered, SessionsGranted
<1>. QED
  BY <1>1, OrderedHolds, PTL

\* Whatever the statuses were when a match was stored and however they changed
\* since: while its posting is ACTIVE and its resume COMPLETE, the query and
\* the filters of both directions let the pair through.
THEOREM DirectionsAgree == Spec => []MatchesBothWays
<1>1. Ordered => MatchesBothWays
  <2>. SUFFICES ASSUME Ordered, NEW m \in DOMAIN matches,
                       {matches[m].seeker, matches[m].job} \subseteq listed
                PROVE  /\ matches[m].job \in JobsFor(matches[m].seeker)
                       /\ matches[m].seeker \in SeekersFor(matches[m].job)
    BY DEF MatchesBothWays
  <2>1. matches[m] \in Row
    BY DEF Ordered, Types
  <2>2. matches[m].seeker \in Seeker /\ matches[m].job \in Job
    BY <2>1 DEF Row
  <2>3. /\ PassesForSeeker(matches[m].seeker, matches[m].job)
        /\ PassesForJob(matches[m].seeker, matches[m].job)
    BY <2>2, SidesAgree DEF Ordered, RowsPass
  <2>. QED
    BY <2>2, <2>3 DEF JobsFor, SeekersFor
<1>. QED
  BY <1>1, OrderedHolds, PTL

-----------------------------------------------------------------------------
(***************************************************************************)
(* The negotiations matches have opened, however calls overlap: those      *)
(* there are and those about to be opened.                                 *)
(***************************************************************************)

Matched(s) == {n \in Active(s) : sessions[n].matched}

LEMMA ActiveFinite ==
    ASSUME Types, NEW s
    PROVE  /\ IsFiniteSet(Active(s)) /\ ActiveCount(s) \in Nat
           /\ IsFiniteSet(Matched(s)) /\ ActiveMatched(s) \in Nat
           /\ ActiveMatched(s) = Cardinality(Matched(s))
           /\ ActiveMatched(s) <= ActiveCount(s)
<1>1. DOMAIN sessions = 1 .. Len(sessions) /\ Len(sessions) \in Int
  BY DEF Types
<1>2. IsFiniteSet(DOMAIN sessions)
  BY <1>1, FS_Interval
<1>3. IsFiniteSet(Active(s))
  BY <1>2, FS_Subset DEF Active
<1>4. Matched(s) \subseteq Active(s)
  BY DEF Matched
<1>. QED
  BY <1>3, <1>4, FS_Subset, FS_CardinalityType
     DEF ActiveCount, ActiveMatched, Matched

\* A session that changes its state away from FAILED, or to it, adds none.
LEMMA StateMatched ==
    ASSUME Types, NEW n \in DOMAIN sessions,
           \/ SessionFails(n)
           \/ MayStart(n) /\ Started(n), NEW s
    PROVE  /\ ActiveMatched(s)' <= ActiveMatched(s)
           /\ ActiveMatched(s) \in Nat /\ ActiveMatched(s)' \in Nat
<1>1. PICK t \in {"STARTED", "FAILED"} :
          /\ sessions' = [sessions EXCEPT ![n].state = t]
          /\ sessions[n].state # "FAILED"
  BY DEF SessionFails, MayStart, Started
<1>2. /\ SameSessions
      /\ \A i \in DOMAIN sessions \ {n} : sessions'[i] = sessions[i]
  BY <1>1, StateStep
<1>3. Matched(s)' \subseteq Matched(s)
  BY <1>1, <1>2 DEF Matched, Active, SameSessions, PairOf
<1>4. IsFiniteSet(Matched(s)) /\ ActiveMatched(s) = Cardinality(Matched(s))
  BY ActiveFinite
<1>5. ActiveMatched(s)' = Cardinality(Matched(s)')
  BY DEF ActiveMatched, Matched
<1>. QED
  BY <1>3, <1>4, <1>5, FS_Subset, FS_CardinalityType

\* Neither does a session that a request opens.
LEMMA CreateMatched ==
    ASSUME Types, NEW s \in Seeker, NEW j \in Job, CreateSession(s, j), NEW t
    PROVE  ActiveMatched(t)' = ActiveMatched(t)
<1>1. /\ Len(sessions) \in Nat /\ DOMAIN sessions = 1 .. Len(sessions)
      /\ DOMAIN sessions' = 1 .. Len(sessions) + 1
      /\ \A n \in DOMAIN sessions : sessions'[n] = sessions[n]
      /\ ~sessions'[Len(sessions) + 1].matched
  BY CreateStep
<1>2. \A n \in DOMAIN sessions' : n \in DOMAIN sessions \/ n = Len(sessions) + 1
  BY <1>1
<1>3. \A n \in DOMAIN sessions : n \in DOMAIN sessions'
  BY <1>1
<1>4. Matched(t)' = Matched(t)
  BY <1>1, <1>2, <1>3 DEF Matched, Active
<1>. QED
  BY <1>4 DEF ActiveMatched, Matched

\* The handoff opens one more for the seeker it is about.
LEMMA OpenMatched ==
    ASSUME Ordered, NEW c \in Call, Open(c), NEW t
    PROVE  ActiveMatched(t)' = IF t = call[c].deal[2] THEN ActiveMatched(t) + 1
                                                      ELSE ActiveMatched(t)
<1>0. PICK k : k = call[c]
  OBVIOUS
<1>1. PICK s : s = Opened(k.entity.row.seeker, k.entity.row.job, TRUE)
  OBVIOUS
<1>2. k.stage = "open" /\ InOrder(c)
  BY <1>0 DEF Open, At, Ordered
<1>3. k.deal = Dealt(k.entity.row)
  BY <1>0, <1>2 DEF InOrder, HasEntity, Handoff
<1>4. /\ Len(sessions) \in Nat
      /\ DOMAIN sessions = 1 .. Len(sessions)
      /\ DOMAIN sessions' = 1 .. Len(sessions) + 1
      /\ \A n \in DOMAIN sessions : sessions'[n] = sessions[n]
      /\ sessions'[Len(sessions) + 1] = s
  BY <1>0, <1>1, OpenStep
<1>5. s.seeker = k.deal[2] /\ s.state = "INITIATED" /\ s.matched
  BY <1>1, <1>3 DEF Opened, Dealt
<1>6. /\ \A n \in DOMAIN sessions' : n \in DOMAIN sessions \/ n = Len(sessions) + 1
      /\ \A n \in DOMAIN sessions : n \in DOMAIN sessions'
      /\ Len(sessions) + 1 \in DOMAIN sessions'
      /\ Len(sessions) + 1 \notin DOMAIN sessions
  BY <1>4
<1>7. /\ IsFiniteSet(Matched(t)) /\ ActiveMatched(t) = Cardinality(Matched(t))
      /\ ActiveMatched(t)' = Cardinality(Matched(t)')
  BY ActiveFinite DEF Ordered, ActiveMatched, Matched
<1>8. CASE t = k.deal[2]
  <2>1. /\ Matched(t)' = Matched(t) \cup {Len(sessions) + 1}
        /\ Len(sessions) + 1 \notin Matched(t)
    BY <1>4, <1>5, <1>6, <1>8 DEF Matched, Active
  <2>2. Cardinality(Matched(t)') = Cardinality(Matched(t)) + 1
    BY <1>7, <2>1, FS_AddElement
  <2>. QED
    BY <1>0, <1>7, <1>8, <2>2
<1>9. CASE t # k.deal[2]
  <2>1. Matched(t)' = Matched(t)
    BY <1>4, <1>5, <1>6, <1>9 DEF Matched, Active
  <2>. QED
    BY <1>0, <1>7, <1>9, <2>1
<1>. QED
  BY <1>8, <1>9

\* The calls that found room for the seeker and have not opened a session yet.
Counted == {"access", "pay", "grant", "open"}
PastCheck(s) == {c \in Call : /\ HasEntity(c) /\ call[c].stage \in Counted
                              /\ call[c].deal[2] = s}

LEMMA PastCheckFinite ==
    ASSUME NEW s
    PROVE  /\ IsFiniteSet(PastCheck(s)) /\ Cardinality(PastCheck(s)) \in Nat
           /\ Cardinality(PastCheck(s)) <= Cardinality(Call)
           /\ Cardinality(Call) \in Nat \ {0}
<1>1. PastCheck(s) \subseteq Call
  BY DEF PastCheck
<1>2. Cardinality(Call) # 0
  BY MatchingAssumption, FS_EmptySet
<1>. QED
  BY <1>1, <1>2, MatchingAssumption, FS_Subset, FS_CardinalityType

\* Each counted fewer than the limit, so that even the last of them, which may
\* not have counted any of the others, leaves one place per other call.
LimitNearly ==
    \A s \in Seeker :
        ActiveMatched(s) + Cardinality(PastCheck(s))
            <= AutoNegLimit + Cardinality(Call) - 1

\* No call passes the check, and none of the sessions is a match's.
LEMMA NearlyStep ==
    ASSUME Ordered, LimitNearly,
           \A s \in Seeker : /\ PastCheck(s)' \subseteq PastCheck(s)
                             /\ ActiveMatched(s)' <= ActiveMatched(s)
                             /\ ActiveMatched(s)' \in Nat
    PROVE  LimitNearly'
<1>. SUFFICES ASSUME NEW s \in Seeker
              PROVE  ActiveMatched(s)' + Cardinality(PastCheck(s)')
                         <= AutoNegLimit + Cardinality(Call) - 1
  BY DEF LimitNearly
<1>1. /\ Cardinality(PastCheck(s)') <= Cardinality(PastCheck(s))
      /\ Cardinality(PastCheck(s)') \in Nat /\ Cardinality(PastCheck(s)) \in Nat
      /\ Cardinality(Call) \in Nat
  BY PastCheckFinite, FS_Subset, FS_CardinalityType
<1>2. ActiveMatched(s) \in Nat
  BY ActiveFinite DEF Ordered
<1>. QED
  BY <1>1, <1>2, MatchingAssumption DEF LimitNearly

\* A step of one call that takes it to no such stage, or on in the handoff.
LEMMA NearlyCall ==
    ASSUME Ordered, LimitNearly, NEW c \in Call,
           \A d \in Call \ {c} : call'[d] = call[d], UNCHANGED sessions,
           \/ call'[c].stage \notin Counted
           \/ call'[c].kind = "access"
           \/ /\ call[c].stage \in Counted
              /\ call'[c].kind = call[c].kind /\ call'[c].deal = call[c].deal
    PROVE  LimitNearly'
<1>1. ASSUME NEW s PROVE PastCheck(s)' \subseteq PastCheck(s)
  BY DEF PastCheck, HasEntity, Counted, Handoff
<1>2. \A s : ActiveMatched(s)' = ActiveMatched(s)
  BY DEF ActiveMatched, Active
<1>3. \A s : ActiveMatched(s) \in Nat
  BY ActiveFinite DEF Ordered
<1>. QED
  BY <1>1, <1>2, <1>3, NearlyStep

\* Steps to a stage where nothing checked is relied on.
Quiet == {"idle", "find", "next", "selectScore", "updateScore", "selectFlag",
          "updateFlag", "limit", "selectRecord", "updateRecord"}

LEMMA QuietSteps ==
    ASSUME Ordered, NEW c \in Call,
           \/ Find(c) \/ Insert(c) \/ SaveSelect(c) \/ UpdateScore(c)
           \/ NextMatch(c) \/ UpdateFlag(c) \/ Record(c)
    PROVE  /\ \A d \in Call \ {c} : call'[d] = call[d]
           /\ call'[c].stage \in Quiet \cup {"insert"}
           /\ call[c].stage \notin {"pay", "grant"}
           /\ UNCHANGED <<grants, payments, sessions, twice>>
<1>1. CASE Find(c)
  BY <1>1, FindStep DEF Find, At, OnlyCall, Quiet
<1>2. CASE Insert(c)
  <2>1. /\ call[c].stage = "insert"
        /\ UNCHANGED <<grants, payments, sessions, twice>>
        /\ call[c].todo # <<>>
    BY <1>2 DEF Insert, At, Ordered, InOrder
  <2>2. PICK e : e = [id |-> Len(matches) + 1,
                      row |-> NewRow(Head(call[c].todo)[1],
                                     Head(call[c].todo)[2])]
    OBVIOUS
  <2>3. Stored(c, e)
    BY <1>2, <2>2 DEF Insert
  <2>4. e \in Entity
    <3>1. Head(call[c].todo) \in Pair
      BY <2>1, TailFacts DEF Ordered, Types, CallState
    <3>2. NewRow(Head(call[c].todo)[1], Head(call[c].todo)[2]) \in Row
      BY <3>1 DEF NewRow, Row, Pair
    <3>3. Len(matches) + 1 \in Nat
      BY DEF Ordered, Types
    <3>. QED
      BY <2>2, <3>2, <3>3 DEF Entity
  <2>5. /\ \A d \in Call \ {c} : call'[d] = call[d]
        /\ call'[c].stage = "find"
    BY <2>1, <2>3, <2>4, StoredStep DEF Ordered
  <2>. QED
    BY <2>1, <2>5 DEF Quiet
<1>3. CASE SaveSelect(c)
  BY <1>3, SaveSelectStep DEF SaveSelect, OnlyCall, Quiet
<1>4. CASE UpdateScore(c)
  <2>1. PICK e : e = call[c].entity
    OBVIOUS
  <2>2. /\ call[c].stage = "updateScore"
        /\ UNCHANGED <<grants, payments, sessions, twice>>
        /\ call[c].todo # <<>> /\ e \in Entity /\ Stored(c, e)
    BY <1>4, <2>1
       DEF UpdateScore, At, Update, Ordered, InOrder, HasEntity
  <2>3. /\ \A d \in Call \ {c} : call'[d] = call[d]
        /\ call'[c].stage = "find"
    BY <2>2, StoredStep DEF Ordered
  <2>. QED
    BY <2>2, <2>3 DEF Quiet
<1>5. CASE NextMatch(c)
  BY <1>5, NextMatchStep, IdleState DEF NextMatch, At, OnlyCall, Quiet
<1>6. CASE UpdateFlag(c)
  BY <1>6, UpdateFlagStep, IdleState DEF UpdateFlag, At, Update, Quiet
<1>7. CASE Record(c)
  <2>1. /\ call[c].stage = "updateRecord" /\ Goto(c, "next")
        /\ UNCHANGED <<grants, payments, sessions, twice>>
    BY <1>7 DEF Record, At, Update
  <2>2. "next" \in Stage \ {"idle"}
    BY DEF Stage
  <2>. QED
    BY <2>1, <2>2, GotoStep DEF Ordered, Quiet
<1>. QED
  BY <1>1, <1>2, <1>3, <1>4, <1>5, <1>6, <1>7

\* An exception, or the end of the call.
Leaves(c) ==
    /\ call'[c].stage \in {"next", "idle"}
    /\ call'[c] = Idle \/ call'[c] = [call[c] EXCEPT !.stage = "next"]

\* The check of the limit: an exception, or fewer than the limit so far.
LEMMA CheckLimitStep ==
    ASSUME Ordered, NEW c \in Call, CheckLimit(c)
    PROVE  /\ \A d \in Call \ {c} : call'[d] = call[d]
           /\ call[c].stage = "limit" /\ call[c].stage \in Handoff
           /\ UNCHANGED <<matches, grants, payments, sessions, twice>>
           /\ \/ Leaves(c)
              \/ /\ call'[c] = [call[c] EXCEPT !.stage = "access"]
                 /\ call'[c].stage = "access"
                 /\ call'[c].deal = call[c].deal
                 /\ ActiveCount(call[c].deal[2]) < AutoNegLimit
<1>1. /\ call[c].stage = "limit" /\ call[c].stage \in Handoff
      /\ UNCHANGED <<matches, grants, payments, sessions, twice>>
      /\ InOrder(c) /\ call[c].kind # "access"
  BY DEF CheckLimit, At, OnlyCall, Handoff, Ordered, InOrder
<1>2. Grown
  BY <1>1 DEF Grown, Ordered, Types
<1>3. CASE Throw(c)
  BY <1>1, <1>2, <1>3, ThrowStep DEF Leaves
<1>4. CASE ~AtLimit(call[c].deal[2]) /\ Goto(c, "access")
  <2>1. "access" \in Handoff
    BY DEF Handoff
  <2>2. /\ \A d \in Call \ {c} : call'[d] = call[d]
        /\ call'[c] = [call[c] EXCEPT !.stage = "access"]
        /\ call'[c].stage = "access" /\ call'[c].deal = call[c].deal
    BY <1>1, <1>2, <1>4, <2>1, HandoffGoto
  <2>3. ActiveCount(call[c].deal[2]) < AutoNegLimit
    <3>1. PICK s : s = call[c].deal[2]
      OBVIOUS
    <3>2. ActiveCount(s) \in Nat /\ AutoNegLimit \in Nat
      BY ActiveFinite, MatchingAssumption DEF Ordered
    <3>. QED
      BY <1>4, <3>1, <3>2 DEF AtLimit
  <2>. QED
    BY <1>1, <2>2, <2>3
<1>. QED
  BY <1>3, <1>4 DEF CheckLimit

LEMMA CheckLimitNearly ==
    ASSUME Ordered, LimitNearly, NEW c \in Call, CheckLimit(c)
    PROVE  LimitNearly'
<1>1. /\ \A d \in Call \ {c} : call'[d] = call[d]
      /\ call[c].stage = "limit" /\ UNCHANGED sessions
      /\ \/ call'[c].stage \in {"next", "idle"}
         \/ /\ call'[c].stage = "access" /\ call'[c].deal = call[c].deal
            /\ ActiveCount(call[c].deal[2]) < AutoNegLimit
  BY CheckLimitStep DEF Leaves
<1>2. CASE call'[c].stage \in {"next", "idle"}
  BY <1>1, <1>2, NearlyCall DEF Counted
<1>3. CASE /\ call'[c].stage = "access" /\ call'[c].deal = call[c].deal
           /\ ActiveCount(call[c].deal[2]) < AutoNegLimit
  <2>. SUFFICES ASSUME NEW s \in Seeker
                PROVE  ActiveMatched(s)' + Cardinality(PastCheck(s)')
                           <= AutoNegLimit + Cardinality(Call) - 1
    BY DEF LimitNearly
  <2>1. /\ Cardinality(PastCheck(s)) \in Nat /\ Cardinality(Call) \in Nat
        /\ Cardinality(PastCheck(s)') \in Nat
        /\ Cardinality(PastCheck(s)') <= Cardinality(Call)
    <3>1. PastCheck(s)' \subseteq Call
      BY DEF PastCheck
    <3>. QED
      BY <3>1, PastCheckFinite, MatchingAssumption, FS_Subset, FS_CardinalityType
  <2>2. /\ ActiveMatched(s)' = ActiveMatched(s) /\ ActiveMatched(s) \in Nat
        /\ ActiveMatched(s) <= ActiveCount(s) /\ ActiveCount(s) \in Nat
        /\ AutoNegLimit \in Nat
    BY <1>1, ActiveFinite, MatchingAssumption
       DEF Ordered, ActiveMatched, Active
  <2>3. CASE s = call[c].deal[2]
    BY <1>3, <2>1, <2>2, <2>3
  <2>4. CASE s # call[c].deal[2]
    <3>1. PastCheck(s)' = PastCheck(s)
      BY <1>1, <1>3, <2>4 DEF PastCheck, HasEntity, Counted
    <3>. QED
      BY <2>2, <3>1 DEF LimitNearly
  <2>. QED
    BY <2>3, <2>4
<1>. QED
  BY <1>1, <1>2, <1>3

LEMMA OpenNearly ==
    ASSUME Ordered, LimitNearly, NEW c \in Call, Open(c)
    PROVE  LimitNearly'
<1>. SUFFICES ASSUME NEW s \in Seeker
              PROVE  ActiveMatched(s)' + Cardinality(PastCheck(s)')
                         <= AutoNegLimit + Cardinality(Call) - 1
  BY DEF LimitNearly
<1>1. /\ \A d \in Call \ {c} : call'[d] = call[d]
      /\ call'[c].stage = "start"
  BY OpenStep
<1>2. /\ call[c].stage = "open" /\ HasEntity(c)
  BY DEF Open, At, Ordered, InOrder, HasEntity, Handoff
<1>3. /\ ActiveMatched(s)' = IF s = call[c].deal[2] THEN ActiveMatched(s) + 1
                                                   ELSE ActiveMatched(s)
      /\ ActiveMatched(s) \in Nat
  BY OpenMatched, ActiveFinite DEF Ordered
<1>4. /\ IsFiniteSet(PastCheck(s)) /\ Cardinality(PastCheck(s)) \in Nat
      /\ Cardinality(Call) \in Nat
  BY PastCheckFinite
<1>5. CASE s = call[c].deal[2]
  <2>1. PastCheck(s)' = PastCheck(s) \ {c} /\ c \in PastCheck(s)
    BY <1>1, <1>2, <1>5 DEF PastCheck, HasEntity, Counted
  <2>2. Cardinality(PastCheck(s)') = Cardinality(PastCheck(s)) - 1
    BY <1>4, <2>1, FS_RemoveElement
  <2>. QED
    BY <1>3, <1>4, <1>5, <2>2, MatchingAssumption DEF LimitNearly
<1>6. CASE s # call[c].deal[2]
  <2>1. PastCheck(s)' = PastCheck(s)
    BY <1>1, <1>2, <1>6 DEF PastCheck, HasEntity, Counted
  <2>. QED
    BY <1>3, <1>6, <2>1 DEF LimitNearly
<1>. QED
  BY <1>5, <1>6

\* On with the purchase, or out of it.
LEMMA PurchaseStep ==
    ASSUME Ordered, NEW c \in Call, Access(c) \/ Pay(c) \/ Grant(c)
    PROVE  /\ \A d \in Call \ {c} : call'[d] = call[d]
           /\ call[c].stage \in Counted /\ call[c].stage \in Handoff
           /\ UNCHANGED <<matches, sessions, twice>>
           /\ \/ Leaves(c)
              \/ \E s \in {"pay", "grant", "open"} :
                     call'[c] = [call[c] EXCEPT !.stage = s]
<1>1. /\ call[c].stage \in {"access", "pay", "grant"}
      /\ call[c].stage \in Handoff /\ UNCHANGED <<matches, sessions, twice>>
  BY DEF Access, Pay, Grant, At, OnlyCall, Handoff
<1>2. Grown
  <2>1. \A d \in Deal : grants'[d] >= grants[d]
    <3>1. CASE Grant(c)
      BY <3>1, GrantsStep DEF GrantsGrow
    <3>2. CASE UNCHANGED grants
      BY <3>2 DEF Ordered, Types
    <3>. QED
      BY <3>1, <3>2 DEF Access, Pay, OnlyCall
  <2>. QED
    BY <1>1, <2>1 DEF Grown
<1>3. ASSUME NEW s \in {"pay", "grant"}, Goto(c, s)
      PROVE  /\ \A d \in Call \ {c} : call'[d] = call[d]
             /\ call'[c] = [call[c] EXCEPT !.stage = s]
  <2>1. s \in Handoff
    BY DEF Handoff
  <2>. QED
    BY <1>1, <1>2, <1>3, <2>1, HandoffGoto
<1>4. ASSUME Bought(c), grants'[call[c].deal] > 0
      PROVE  /\ \A d \in Call \ {c} : call'[d] = call[d]
             /\ \/ Leaves(c)
                \/ call'[c] = [call[c] EXCEPT !.stage = "open"]
  BY <1>1, <1>2, <1>4, BoughtStep, IdleState DEF Leaves
<1>5. CASE Access(c)
  <2>1. HasGrant(call[c].deal) => grants'[call[c].deal] > 0
    BY <1>5 DEF Access, OnlyCall, HasGrant
  <2>. QED
    BY <1>1, <1>3, <1>4, <1>5, <2>1 DEF Access, Counted
<1>6. CASE Pay(c)
  BY <1>1, <1>3, <1>6 DEF Pay, Counted
<1>7. CASE Grant(c)
  <2>1. Throw(c) \/ (Bought(c) /\ grants'[call[c].deal] > 0)
    BY <1>7, GrantsStep DEF GrantsGrow
  <2>2. CASE Throw(c)
    BY <1>1, <1>2, <2>2, ThrowStep DEF Counted, Leaves
  <2>. QED
    BY <1>1, <1>4, <2>1, <2>2 DEF Counted
<1>. QED
  BY <1>5, <1>6, <1>7

\* The start of a session, or an exception if a request has started it.
LEMMA StartStep ==
    ASSUME Ordered, NEW c \in Call, Start(c)
    PROVE  LET n == call[c].entity.row.session
           IN  /\ \A d \in Call \ {c} : call'[d] = call[d]
               /\ call[c].stage = "start" /\ n \in DOMAIN sessions
               /\ UNCHANGED <<matches, grants, payments, twice>>
               /\ call'[c].stage \in Quiet
               /\ \/ /\ MayStart(n) /\ Started(n) /\ Goto(c, "selectRecord")
                     /\ call'[c].stage = "selectRecord"
                  \/ /\ ~MayStart(n) /\ Throw(c) /\ UNCHANGED sessions
                     /\ call'[c].stage \in {"next", "idle"}
<1>0. PICK n : n = call[c].entity.row.session
  OBVIOUS
<1>1. /\ call[c].stage = "start" /\ n \in DOMAIN sessions
      /\ UNCHANGED <<matches, grants, payments, twice>>
  BY <1>0 DEF Start, At, Ordered, InOrder
<1>2. CASE MayStart(n) /\ Started(n) /\ Goto(c, "selectRecord")
  <2>1. "selectRecord" \in Stage \ {"idle"}
    BY DEF Stage, Handoff
  <2>. QED
    BY <1>0, <1>1, <1>2, <2>1, GotoStep DEF Ordered, Quiet
<1>3. CASE ~MayStart(n) /\ Throw(c) /\ UNCHANGED sessions
  <2>1. Grown
    BY <1>1, <1>3 DEF Grown, Ordered, Types
  <2>. QED
    BY <1>0, <1>1, <1>3, <2>1, ThrowStep DEF Quiet
<1>. QED
  BY <1>0, <1>2, <1>3 DEF Start

LEMMA StartNearly ==
    ASSUME Ordered, LimitNearly, NEW c \in Call, Start(c)
    PROVE  LimitNearly'
<1>0. PICK n : n = call[c].entity.row.session
  OBVIOUS
<1>1. /\ \A d \in Call \ {c} : call'[d] = call[d]
      /\ call'[c].stage \in Quiet /\ n \in DOMAIN sessions
      /\ (MayStart(n) /\ Started(n)) \/ UNCHANGED sessions
  BY <1>0, StartStep
<1>2. CASE MayStart(n) /\ Started(n)
  <2>1. \A s : PastCheck(s)' \subseteq PastCheck(s)
    BY <1>1 DEF PastCheck, HasEntity, Counted, Quiet
  <2>2. \A s : /\ ActiveMatched(s)' <= ActiveMatched(s)
               /\ ActiveMatched(s)' \in Nat
    BY <1>1, <1>2, StateMatched DEF Ordered
  <2>. QED
    BY <2>1, <2>2, NearlyStep
<1>3. CASE UNCHANGED sessions
  BY <1>1, <1>3, NearlyCall DEF Counted, Quiet
<1>. QED
  BY <1>1, <1>2, <1>3

LEMMA RunNearly ==
    ASSUME Ordered, LimitNearly, NEW c \in Call, Run(c)
    PROVE  LimitNearly'
<1>1. CASE \/ Find(c) \/ Insert(c) \/ SaveSelect(c) \/ UpdateScore(c)
           \/ NextMatch(c) \/ UpdateFlag(c) \/ Record(c)
  BY <1>1, QuietSteps, NearlyCall DEF Counted, Quiet
<1>2. CASE Access(c) \/ Pay(c) \/ Grant(c)
  <2>1. /\ \A d \in Call \ {c} : call'[d] = call[d]
        /\ call[c].stage \in Counted /\ UNCHANGED sessions
        /\ \/ call'[c].stage \in {"idle", "next"}
           \/ \E s \in {"pay", "grant", "open"} :
                  call'[c] = [call[c] EXCEPT !.stage = s]
    BY <1>2, PurchaseStep DEF Leaves
  <2>2. CASE call'[c].stage \in {"idle", "next"}
    BY <2>1, <2>2, NearlyCall DEF Counted
  <2>3. CASE \E s \in {"pay", "grant", "open"} :
                 call'[c] = [call[c] EXCEPT !.stage = s]
    <3>1. call[c] \in CallState
      BY DEF Ordered, Types
    <3>2. call'[c].kind = call[c].kind /\ call'[c].deal = call[c].deal
      BY <2>3, <3>1 DEF CallState
    <3>. QED
      BY <2>1, <3>2, NearlyCall
  <2>. QED
    BY <2>1, <2>2, <2>3
<1>. QED
  BY <1>1, <1>2, CheckLimitNearly, OpenNearly, StartNearly DEF Run

LEMMA ElseNearly ==
    ASSUME Ordered, LimitNearly,
           \/ \E c \in Call : Begins(c) \/ Fail(c)
           \/ \E n \in DOMAIN sessions : SessionFails(n) \/ StartSession(n)
           \/ \E s \in Seeker, j \in Job : CreateSession(s, j)
           \/ \E x \in Job \cup Seeker : Relist(x)
           \/ UNCHANGED vars
    PROVE  LimitNearly'
<1>1. ASSUME NEW c \in Call, Begins(c) PROVE LimitNearly'
  <2>1. PICK r \in CallState : Begin(c, r) /\ NewCall(r)
    BY <1>1, CallBegins
  <2>2. /\ call' = [call EXCEPT ![c] = IF r.stage = "idle" THEN Idle ELSE r]
        /\ UNCHANGED sessions
        /\ r.stage \in {"find", "next", "selectFlag"} \/ r.kind = "access"
        /\ r.stage # "idle"
    BY <2>1 DEF Begin, Put, NewCall
  <2>3. call'[c] = r /\ \A d \in Call \ {c} : call'[d] = call[d]
    BY <2>2, PutStep DEF Ordered
  <2>. QED
    BY <2>2, <2>3, NearlyCall DEF Counted
<1>2. ASSUME NEW c \in Call, Fail(c) PROVE LimitNearly'
  <2>1. Throw(c) /\ UNCHANGED <<matches, grants, sessions>>
    BY <1>2 DEF Fail
  <2>2. Grown
    BY <2>1 DEF Grown, Ordered, Types
  <2>. QED
    BY <2>1, <2>2, ThrowStep, NearlyCall DEF Counted
<1>3. ASSUME UNCHANGED call,
             \A s \in Seeker : /\ ActiveMatched(s)' <= ActiveMatched(s)
                               /\ ActiveMatched(s)' \in Nat
      PROVE  LimitNearly'
  <2>1. \A s : PastCheck(s)' = PastCheck(s)
    BY <1>3 DEF PastCheck, HasEntity
  <2>. QED
    BY <1>3, <2>1, NearlyStep
<1>4. ASSUME NEW n \in DOMAIN sessions, SessionFails(n) \/ StartSession(n)
      PROVE  LimitNearly'
  BY <1>3, <1>4, StateMatched DEF SessionFails, StartSession, Ordered
<1>5. \A s : ActiveMatched(s) \in Nat
  BY ActiveFinite DEF Ordered
<1>6. ASSUME NEW s \in Seeker, NEW j \in Job, CreateSession(s, j)
      PROVE  LimitNearly'
  <2>1. \A t : ActiveMatched(t)' = ActiveMatched(t)
    BY <1>6, CreateMatched DEF Ordered
  <2>. QED
    BY <1>3, <1>5, <1>6, <2>1 DEF CreateSession
<1>7. ASSUME UNCHANGED <<sessions, call>> PROVE LimitNearly'
  <2>1. \A t : ActiveMatched(t)' = ActiveMatched(t)
    BY <1>7 DEF ActiveMatched, Active
  <2>. QED
    BY <1>3, <1>5, <1>7, <2>1
<1>8. ASSUME NEW x, Relist(x) PROVE LimitNearly'
  BY <1>7, <1>8 DEF Relist
<1>9. ASSUME UNCHANGED vars PROVE LimitNearly'
  BY <1>7, <1>9 DEF vars
<1>. QED
  BY <1>1, <1>2, <1>4, <1>6, <1>8, <1>9

LEMMA NearlyInitially == Init => LimitNearly
<1>. SUFFICES ASSUME Init, NEW s \in Seeker
              PROVE  ActiveMatched(s) + Cardinality(PastCheck(s))
                         <= AutoNegLimit + Cardinality(Call) - 1
  BY DEF LimitNearly
<1>1. sessions = <<>> /\ \A c \in Call : call[c].stage = "idle"
  BY IdleState DEF Init
<1>2. PastCheck(s) = {} /\ Matched(s) = {}
  BY <1>1 DEF PastCheck, HasEntity, Handoff, Counted, Matched, Active
<1>3. Cardinality(PastCheck(s)) = 0 /\ ActiveMatched(s) = 0
  BY <1>2, FS_EmptySet DEF ActiveMatched, Matched
<1>. QED
  BY <1>3, PastCheckFinite, MatchingAssumption

LEMMA NearlyInductive ==
    Ordered /\ LimitNearly /\ [Next]_vars => (Ordered /\ LimitNearly)'
<1>. SUFFICES ASSUME Ordered, LimitNearly, [Next]_vars PROVE LimitNearly'
  BY OrderedInductive
<1>. QED
  BY NextIsStep, RunNearly, ElseNearly

LEMMA NearlyHolds == Spec => [](Ordered /\ LimitNearly)
<1>1. Init => Ordered /\ LimitNearly
  BY OrderedInitially, NearlyInitially
<1>. QED
  BY <1>1, NearlyInductive, PTL DEF Spec

-----------------------------------------------------------------------------
(***************************************************************************)
(* One call after the other: what each of them checks is still so when it  *)
(* acts on it, whichever statements fail.                                  *)
(***************************************************************************)

Busy(c) == call[c].stage # "idle"
OneAtATime == \A c, d \in Call : Busy(c) /\ Busy(d) => c = d

RowsDiffer == \A m, n \in DOMAIN matches :
                  m # n => PairOf(matches[m]) # PairOf(matches[n])

WithinLimit == \A s \in Seeker : ActiveMatched(s) <= AutoNegLimit

\* What the call has checked: no row for the pair, room below the limit; the
\* session it starts is a new one.
Ready(c) ==
    LET k == call[c]
    IN  /\ k.stage = "insert" => Existing(Head(k.todo)) = {}
        /\ HasEntity(c) /\ k.stage \in {"access", "pay", "grant", "open"} =>
               ActiveMatched(k.deal[2]) < AutoNegLimit
        /\ k.stage = "start" => MayStart(k.entity.row.session)

Alone == OneAtATime /\ RowsDiffer /\ WithinLimit /\ \A c \in Call : Ready(c)

LEMMA AloneStep ==
    ASSUME Alone, NEW c \in Call, Busy(c) \/ \A d \in Call : ~Busy(d),
           \A d \in Call \ {c} : call'[d] = call[d],
           RowsDiffer', WithinLimit', Ready(c)'
    PROVE  Alone'
<1>1. \A d \in Call \ {c} : ~Busy(d)
  BY DEF Alone, OneAtATime
<1>2. \A d \in Call \ {c} : call'[d].stage = "idle"
  BY <1>1 DEF Busy
<1>3. OneAtATime'
  BY <1>2 DEF OneAtATime, Busy
<1>4. \A d \in Call \ {c} : Ready(d)'
  BY <1>2 DEF Ready
<1>. QED
  BY <1>3, <1>4 DEF Alone

\* Rows that stay whose they are differ as before.
LEMMA RowsStillDiffer ==
    ASSUME RowsDiffer, DOMAIN matches' = DOMAIN matches,
           \A m \in DOMAIN matches : PairOf(matches'[m]) = PairOf(matches[m])
    PROVE  RowsDiffer'
BY DEF RowsDiffer

LEMMA SameLimit ==
    ASSUME WithinLimit, UNCHANGED sessions
    PROVE  WithinLimit'
BY DEF WithinLimit, ActiveMatched, Active

\* A step to a stage where nothing checked is relied on.
LEMMA QuietStep ==
    ASSUME Alone, NEW c \in Call, Busy(c) \/ \A d \in Call : ~Busy(d),
           \A d \in Call \ {c} : call'[d] = call[d],
           call'[c].stage \in Quiet, UNCHANGED sessions,
           DOMAIN matches' = DOMAIN matches,
           \A m \in DOMAIN matches : PairOf(matches'[m]) = PairOf(matches[m])
    PROVE  Alone'
<1>1. Ready(c)'
  BY DEF Ready, Quiet
<1>. QED
  BY <1>1, AloneStep, RowsStillDiffer, SameLimit DEF Alone

LEMMA BeginAlone ==
    ASSUME Ordered, Alone, NEW c \in Call, NEW r \in CallState, Begin(c, r),
           ~overlapped', r.stage \in {"find", "next", "selectFlag", "access"},
           r.stage = "access" => r.kind = "access"
    PROVE  Alone'
<1>1. /\ call' = [call EXCEPT ![c] = IF r.stage = "idle" THEN Idle ELSE r]
      /\ UNCHANGED <<matches, sessions>>
      /\ \A d \in Call : ~Busy(d)
  BY DEF Begin, Requested, At, Put, Busy
<1>2. call'[c] = r /\ \A d \in Call \ {c} : call'[d] = call[d]
  BY <1>1, PutStep DEF Ordered
<1>3. Ready(c)'
  BY <1>2 DEF Ready, HasEntity, Handoff
<1>. QED
  BY <1>1, <1>2, <1>3, AloneStep, RowsStillDiffer, SameLimit DEF Alone

LEMMA FindAlone ==
    ASSUME Ordered, Alone, NEW c \in Call, Find(c)
    PROVE  Alone'
<1>0. Busy(c) /\ UNCHANGED <<matches, sessions>>
  BY DEF Find, At, OnlyCall, Busy
<1>1. /\ \A d \in Call \ {c} : call'[d] = call[d]
      /\ call'[c].todo = call[c].todo
      /\ call'[c].stage \in {"next", "insert", "selectScore"}
      /\ call'[c].stage = "insert" => Existing(Head(call[c].todo)) = {}
  BY FindStep
<1>2. call'[c].stage = "insert" =>
          \A m \in DOMAIN matches' :
              <<matches'[m].seeker, matches'[m].job>> # Head(call'[c].todo)
  BY <1>0, <1>1 DEF Existing
<1>3. Ready(c)'
  BY <1>1, <1>2 DEF Ready, Existing
<1>. QED
  BY <1>0, <1>1, <1>3, AloneStep, RowsStillDiffer, SameLimit DEF Alone

\* The row that Insert adds is the only one of its pair.
LEMMA InsertRow ==
    ASSUME Ordered, Alone, NEW c \in Call, Insert(c)
    PROVE  LET p == Head(call[c].todo)
           IN  /\ p \in Pair /\ Len(matches) \in Nat
               /\ matches' = Append(matches, NewRow(p[1], p[2]))
               /\ NewRow(p[1], p[2]) \in Row
               /\ PairOf(NewRow(p[1], p[2])) = p
               /\ NewRow(p[1], p[2]).session = Null
               /\ DOMAIN matches = 1 .. Len(matches)
               /\ DOMAIN matches' = 1 .. Len(matches) + 1
               /\ matches'[Len(matches) + 1] = NewRow(p[1], p[2])
               /\ \A m \in DOMAIN matches : /\ matches'[m] = matches[m]
                                            /\ PairOf(matches[m]) # p
<1>0. PICK p : p = Head(call[c].todo)
  OBVIOUS
<1>1. /\ call[c].todo \in Seq(Pair) /\ call[c].todo # <<>>
      /\ Existing(p) = {}
  BY <1>0 DEF Insert, At, Ordered, Types, CallState, InOrder, Alone, Ready
<1>2. p \in Pair
  BY <1>0, <1>1, TailFacts
<1>3. PICK row : row = NewRow(p[1], p[2])
  OBVIOUS
<1>4. row \in Row /\ PairOf(row) = p /\ row.session = Null
  BY <1>2, <1>3 DEF NewRow, Row, Pair, PairOf
<1>5. matches \in Seq(Row) /\ matches' = Append(matches, row)
  BY <1>0, <1>3 DEF Insert, Ordered, Types
<1>6. \A m \in DOMAIN matches : PairOf(matches[m]) # p
  BY <1>1 DEF Existing, PairOf
<1>. QED
  BY <1>0, <1>2, <1>3, <1>4, <1>5, <1>6, AppendFacts

LEMMA InsertAlone ==
    ASSUME Ordered, Alone, NEW c \in Call, Insert(c)
    PROVE  Alone'
<1>0. PICK p : p = Head(call[c].todo)
  OBVIOUS
<1>1. PICK row : row = NewRow(p[1], p[2])
  OBVIOUS
<1>2. /\ DOMAIN matches = 1 .. Len(matches) /\ Len(matches) \in Nat
      /\ DOMAIN matches' = 1 .. Len(matches) + 1
      /\ matches'[Len(matches) + 1] = row /\ PairOf(row) = p
      /\ row \in Row
      /\ \A m \in DOMAIN matches : /\ matches'[m] = matches[m]
                                   /\ PairOf(matches[m]) # p
  BY <1>0, <1>1, InsertRow
<1>3. RowsDiffer'
  <2>1. \A m \in DOMAIN matches' : m \in DOMAIN matches \/ m = Len(matches) + 1
    BY <1>2
  <2>. QED
    BY <1>2, <2>1 DEF RowsDiffer, Alone
<1>4. PICK e : e = [id |-> Len(matches) + 1, row |-> row]
  OBVIOUS
<1>5. e \in Entity
  BY <1>2, <1>4 DEF Entity
<1>6. /\ UNCHANGED sessions /\ Busy(c) /\ Stored(c, e)
      /\ call[c].todo # <<>>
  BY <1>0, <1>1, <1>4 DEF Insert, At, Busy, Ordered, InOrder
<1>7. /\ \A d \in Call \ {c} : call'[d] = call[d]
      /\ call'[c].stage = "find"
  BY <1>5, <1>6, StoredStep DEF Ordered
<1>8. Ready(c)'
  BY <1>7 DEF Ready
<1>. QED
  BY <1>3, <1>6, <1>7, <1>8, AloneStep, SameLimit DEF Alone

LEMMA SaveSelectAlone ==
    ASSUME Ordered, Alone, NEW c \in Call, SaveSelect(c)
    PROVE  Alone'
<1>1. Busy(c) /\ UNCHANGED <<matches, sessions>>
  BY DEF SaveSelect, OnlyCall, Busy
<1>2. /\ \A d \in Call \ {c} : call'[d] = call[d]
      /\ call'[c].stage \in Quiet
  BY SaveSelectStep DEF Quiet
<1>. QED
  BY <1>1, <1>2, QuietStep

LEMMA UpdateScoreAlone ==
    ASSUME Ordered, Alone, NEW c \in Call, UpdateScore(c)
    PROVE  Alone'
<1>1. /\ call[c].stage = "updateScore" /\ Update(c) /\ HasEntity(c)
      /\ InOrder(c)
  BY DEF UpdateScore, At, HasEntity, Ordered
<1>2. PICK e : e = call[c].entity
  OBVIOUS
<1>3. /\ Stored(c, e) /\ e \in Entity /\ call[c].todo # <<>> /\ Busy(c)
  BY <1>1, <1>2 DEF UpdateScore, InOrder, Busy
<1>4. /\ \A d \in Call \ {c} : call'[d] = call[d]
      /\ call'[c].stage \in Quiet
  BY <1>3, StoredStep DEF Ordered, Quiet
<1>5. /\ UNCHANGED sessions /\ DOMAIN matches' = DOMAIN matches
      /\ \A m \in DOMAIN matches : PairOf(matches'[m]) = PairOf(matches[m])
  BY <1>1, UpdateFacts
<1>. QED
  BY <1>3, <1>4, <1>5, QuietStep

LEMMA NextMatchAlone ==
    ASSUME Ordered, Alone, NEW c \in Call, NextMatch(c)
    PROVE  Alone'
<1>1. Busy(c) /\ UNCHANGED <<matches, sessions>>
  BY DEF NextMatch, At, OnlyCall, Busy
<1>2. /\ \A d \in Call \ {c} : call'[d] = call[d]
      /\ call'[c].stage \in Quiet
  BY NextMatchStep, IdleState DEF Quiet
<1>. QED
  BY <1>1, <1>2, QuietStep

LEMMA UpdateFlagAlone ==
    ASSUME Ordered, Alone, NEW c \in Call, UpdateFlag(c)
    PROVE  Alone'
<1>1. call[c].stage = "updateFlag" /\ Update(c) /\ HasEntity(c) /\ Busy(c)
  BY DEF UpdateFlag, At, HasEntity, Busy
<1>2. /\ \A d \in Call \ {c} : call'[d] = call[d]
      /\ call'[c].stage \in Quiet
  BY UpdateFlagStep, IdleState DEF Quiet
<1>3. /\ UNCHANGED sessions /\ DOMAIN matches' = DOMAIN matches
      /\ \A m \in DOMAIN matches : PairOf(matches'[m]) = PairOf(matches[m])
  BY <1>1, UpdateFacts
<1>. QED
  BY <1>1, <1>2, <1>3, QuietStep

\* The handoff goes on with the room that was found.
LEMMA HandoffAlone ==
    ASSUME Ordered, Alone, NEW c \in Call, call[c].stage \in Handoff,
           UNCHANGED <<matches, sessions>>,
           \A d \in Call \ {c} : call'[d] = call[d],
           NEW s \in {"access", "pay", "grant", "open"},
           call'[c] = [call[c] EXCEPT !.stage = s],
           HasEntity(c) => ActiveMatched(call[c].deal[2]) < AutoNegLimit
    PROVE  Alone'
<1>1. /\ call'[c].stage = s /\ call'[c].kind = call[c].kind
      /\ call'[c].deal = call[c].deal
  BY DEF Ordered, Types, CallState
<1>2. Ready(c)'
  BY <1>1 DEF Ready, HasEntity, ActiveMatched, Active
<1>3. Busy(c)
  BY DEF Busy, Handoff
<1>. QED
  BY <1>2, <1>3, AloneStep, RowsStillDiffer, SameLimit DEF Alone

\* The handoff, or the call, is over.
LEMMA ThrowAlone ==
    ASSUME Ordered, Alone, NEW c \in Call, Busy(c), Throw(c), Grown,
           UNCHANGED <<matches, sessions>>
    PROVE  Alone'
<1>1. /\ \A d \in Call \ {c} : call'[d] = call[d]
      /\ call'[c].stage \in Quiet
  BY ThrowStep DEF Quiet
<1>. QED
  BY <1>1, QuietStep

LEMMA CheckLimitAlone ==
    ASSUME Ordered, Alone, NEW c \in Call, CheckLimit(c)
    PROVE  Alone'
<1>1. /\ \A d \in Call \ {c} : call'[d] = call[d]
      /\ call[c].stage = "limit" /\ call[c].stage \in Handoff
      /\ UNCHANGED <<matches, sessions>>
      /\ \/ call'[c].stage \in {"next", "idle"}
         \/ /\ call'[c] = [call[c] EXCEPT !.stage = "access"]
            /\ ActiveCount(call[c].deal[2]) < AutoNegLimit
  BY CheckLimitStep DEF Leaves
<1>2. CASE call'[c].stage \in {"next", "idle"}
  BY <1>1, <1>2, QuietStep DEF Quiet, Busy
<1>3. CASE /\ call'[c] = [call[c] EXCEPT !.stage = "access"]
           /\ ActiveCount(call[c].deal[2]) < AutoNegLimit
  <2>1. ActiveMatched(call[c].deal[2]) < AutoNegLimit
    <3>1. PICK s : s = call[c].deal[2]
      OBVIOUS
    <3>2. /\ ActiveCount(s) \in Nat /\ ActiveMatched(s) \in Nat
          /\ ActiveMatched(s) <= ActiveCount(s) /\ AutoNegLimit \in Nat
      BY ActiveFinite, MatchingAssumption DEF Ordered
    <3>. QED
      BY <1>3, <3>1, <3>2
  <2>. QED
    BY <1>1, <1>3, <2>1, HandoffAlone
<1>. QED
  BY <1>1, <1>2, <1>3

LEMMA PurchaseAlone ==
    ASSUME Ordered, Alone, NEW c \in Call, Access(c) \/ Pay(c) \/ Grant(c)
    PROVE  Alone'
<1>1. /\ \A d \in Call \ {c} : call'[d] = call[d]
      /\ call[c].stage \in Counted /\ call[c].stage \in Handoff
      /\ UNCHANGED <<matches, sessions>>
      /\ \/ call'[c].stage \in {"idle", "next"}
         \/ \E s \in {"pay", "grant", "open"} :
                call'[c] = [call[c] EXCEPT !.stage = s]
  BY PurchaseStep DEF Leaves
<1>2. HasEntity(c) => ActiveMatched(call[c].deal[2]) < AutoNegLimit
  BY <1>1 DEF Alone, Ready, Counted
<1>3. CASE call'[c].stage \in {"idle", "next"}
  BY <1>1, <1>3, QuietStep DEF Quiet, Busy, Counted
<1>. QED
  BY <1>1, <1>2, <1>3, HandoffAlone

LEMMA OpenAlone ==
    ASSUME Ordered, Alone, NEW c \in Call, Open(c)
    PROVE  Alone'
<1>0. PICK k : k = call[c]
  OBVIOUS
<1>1. PICK new : new = call'[c]
  OBVIOUS
<1>2. /\ k.stage = "open" /\ InOrder(c) /\ UNCHANGED matches /\ Busy(c)
      /\ HasEntity(c)
  BY <1>0 DEF Open, At, Ordered, Busy, InOrder, HasEntity, Handoff
<1>3. ActiveMatched(k.deal[2]) < AutoNegLimit
  BY <1>0, <1>2 DEF Alone, Ready
<1>4. /\ DOMAIN sessions' = 1 .. Len(sessions) + 1 /\ Len(sessions) \in Nat
      /\ sessions'[Len(sessions) + 1]
             = Opened(k.entity.row.seeker, k.entity.row.job, TRUE)
      /\ \A d \in Call \ {c} : call'[d] = call[d]
      /\ new.stage = "start"
      /\ new.entity.row.session = Len(sessions) + 1
  BY <1>0, <1>1, OpenStep
<1>5. WithinLimit'
  <2>. SUFFICES ASSUME NEW t \in Seeker PROVE ActiveMatched(t)' <= AutoNegLimit
    BY DEF WithinLimit
  <2>1. /\ ActiveMatched(t)' = IF t = k.deal[2] THEN ActiveMatched(t) + 1
                                              ELSE ActiveMatched(t)
        /\ ActiveMatched(t) \in Nat /\ AutoNegLimit \in Nat
        /\ ActiveMatched(t) <= AutoNegLimit
    BY <1>0, OpenMatched, ActiveFinite, MatchingAssumption
       DEF Ordered, Alone, WithinLimit
  <2>. QED
    BY <1>3, <2>1
<1>6. Ready(c)'
  <2>1. sessions'[Len(sessions) + 1].state = "INITIATED"
    BY <1>4 DEF Opened
  <2>. QED
    BY <1>1, <1>4, <2>1 DEF Ready, MayStart
<1>. QED
  BY <1>2, <1>4, <1>5, <1>6, AloneStep, RowsStillDiffer DEF Alone

\* The negotiations of matches grow no more when a session changes its state.
LEMMA LimitStillKept ==
    ASSUME Ordered, WithinLimit,
           \A s \in Seeker : /\ ActiveMatched(s)' <= ActiveMatched(s)
                             /\ ActiveMatched(s)' \in Nat
    PROVE  WithinLimit'
<1>1. \A s : ActiveMatched(s) \in Nat
  BY ActiveFinite DEF Ordered
<1>. QED
  BY <1>1, MatchingAssumption DEF WithinLimit

LEMMA StartAlone ==
    ASSUME Ordered, Alone, NEW c \in Call, Start(c)
    PROVE  Alone' /\ Started(call[c].entity.row.session)
                  /\ Goto(c, "selectRecord")
<1>0. PICK n : n = call[c].entity.row.session
  OBVIOUS
<1>1. /\ call[c].stage = "start" /\ n \in DOMAIN sessions /\ Busy(c)
      /\ \A d \in Call \ {c} : call'[d] = call[d]
      /\ UNCHANGED matches /\ MayStart(n)
      /\ call'[c].stage = "selectRecord" /\ Goto(c, "selectRecord")
      /\ Started(n)
  BY <1>0, StartStep DEF Alone, Ready, Busy
<1>2. \A s : /\ ActiveMatched(s)' <= ActiveMatched(s)
             /\ ActiveMatched(s)' \in Nat
  BY <1>1, StateMatched DEF Ordered
<1>3. WithinLimit'
  BY <1>2, LimitStillKept DEF Alone
<1>4. Ready(c)'
  BY <1>1 DEF Ready
<1>. QED
  BY <1>0, <1>1, <1>3, <1>4, AloneStep, RowsStillDiffer DEF Alone

LEMMA RecordAlone ==
    ASSUME Ordered, Alone, NEW c \in Call, Record(c)
    PROVE  Alone'
<1>1. /\ call[c].stage = "updateRecord" /\ Update(c) /\ Busy(c)
      /\ Goto(c, "next") /\ InOrder(c)
  BY DEF Record, At, Busy, Ordered
<1>2. HasEntity(c)
  BY <1>1 DEF InOrder, HasEntity, Handoff
<1>3. /\ \A d \in Call \ {c} : call'[d] = call[d]
      /\ call'[c].stage = "next"
  BY <1>1, GotoStep DEF Ordered, Stage
<1>4. /\ UNCHANGED sessions /\ DOMAIN matches' = DOMAIN matches
      /\ \A m \in DOMAIN matches : PairOf(matches'[m]) = PairOf(matches[m])
  BY <1>1, <1>2, UpdateFacts
<1>. QED
  BY <1>1, <1>3, <1>4, QuietStep DEF Quiet

LEMMA FailAlone ==
    ASSUME Ordered, Alone, NEW c \in Call, Fail(c)
    PROVE  Alone'
<1>1. /\ Busy(c) /\ Throw(c) /\ UNCHANGED <<matches, grants, sessions>>
  BY DEF Fail, At, Busy
<1>2. Grown
  BY <1>1 DEF Grown, Ordered, Types
<1>. QED
  BY <1>1, <1>2, ThrowAlone

\* What is no call's step: with a request that comes in all calls are idle.
LEMMA SessionsAlone ==
    ASSUME Ordered, Alone, ~overlapped', UNCHANGED <<matches, call>>,
           \/ \E n \in DOMAIN sessions : SessionFails(n) \/ StartSession(n)
           \/ \E s \in Seeker, j \in Job : CreateSession(s, j)
           \/ UNCHANGED sessions
    PROVE  Alone'
<1>1. \A s : /\ ActiveMatched(s)' <= ActiveMatched(s)
             /\ ActiveMatched(s)' \in Nat /\ ActiveMatched(s) \in Nat
  <2>1. \A s : ActiveMatched(s) \in Nat
    BY ActiveFinite DEF Ordered
  <2>2. ASSUME NEW n \in DOMAIN sessions, SessionFails(n) \/ StartSession(n)
        PROVE  \A s : /\ ActiveMatched(s)' <= ActiveMatched(s)
                      /\ ActiveMatched(s)' \in Nat
    BY <2>2, StateMatched DEF StartSession, Ordered
  <2>3. ASSUME NEW s \in Seeker, NEW j \in Job, CreateSession(s, j)
        PROVE  \A t : ActiveMatched(t)' = ActiveMatched(t)
    BY <2>3, CreateMatched DEF Ordered
  <2>4. UNCHANGED sessions => \A t : ActiveMatched(t)' = ActiveMatched(t)
    BY DEF ActiveMatched, Active
  <2>. QED
    BY <2>1, <2>2, <2>3, <2>4
<1>2. WithinLimit'
  BY <1>1, LimitStillKept DEF Alone
<1>3. ASSUME NEW c \in Call, Busy(c), NEW n \in DOMAIN sessions, MayStart(n)
      PROVE  MayStart(n)'
  <2>1. UNCHANGED sessions \/ \E i \in DOMAIN sessions : SessionFails(i)
    BY <1>3 DEF StartSession, CreateSession, Requested, At, Busy
  <2>2. CASE UNCHANGED sessions
    BY <1>3, <2>2 DEF MayStart
  <2>3. ASSUME NEW i \in DOMAIN sessions, SessionFails(i)
        PROVE  sessions'[n] = sessions[n]
    <3>1. i # n
      BY <1>3, <2>3 DEF SessionFails, MayStart
    <3>. QED
      BY <2>3, <3>1 DEF SessionFails, Ordered, Types
  <2>. QED
    BY <1>3, <2>1, <2>2, <2>3 DEF MayStart
<1>4. ASSUME NEW c \in Call PROVE Ready(c)'
  <2>1. PICK k : k = call[c]
    OBVIOUS
  <2>2. /\ k.stage = "insert" => Existing(Head(k.todo)) = {}
        /\ HasEntity(c) /\ k.stage \in {"access", "pay", "grant", "open"} =>
               ActiveMatched(k.deal[2]) < AutoNegLimit
        /\ k.stage = "start" => /\ MayStart(k.entity.row.session)
                                /\ k.entity.row.session \in DOMAIN sessions
    BY <2>1 DEF Alone, Ready, Ordered, InOrder
  <2>3. k.stage = "start" => MayStart(k.entity.row.session)'
    BY <1>3, <2>1, <2>2 DEF Busy
  <2>4. HasEntity(c) /\ k.stage \in {"access", "pay", "grant", "open"} =>
            ActiveMatched(k.deal[2])' < AutoNegLimit
    <3>1. PICK t : t = k.deal[2]
      OBVIOUS
    <3>2. /\ ActiveMatched(t)' <= ActiveMatched(t)
          /\ ActiveMatched(t) \in Nat /\ ActiveMatched(t)' \in Nat
          /\ AutoNegLimit \in Nat
      BY <1>1, MatchingAssumption
    <3>. QED
      BY <2>2, <3>1, <3>2
  <2>5. /\ HasEntity(c)' <=> HasEntity(c)
        /\ k.stage = "insert" => Existing(Head(k.todo))' = {}
        /\ k = call'[c]
    BY <2>1, <2>2 DEF HasEntity, Existing
  <2>. QED
    BY <2>2, <2>3, <2>4, <2>5 DEF Ready
<1>5. OneAtATime' /\ RowsDiffer'
  BY DEF Alone, OneAtATime, Busy, RowsDiffer
<1>. QED
  BY <1>2, <1>4, <1>5 DEF Alone

LEMMA BeginsAlone ==
    ASSUME Ordered, Alone, NEW c \in Call, Begins(c), ~overlapped'
    PROVE  Alone'
<1>1. PICK r \in CallState : Begin(c, r) /\ NewCall(r)
  BY CallBegins
<1>2. /\ r.stage \in {"find", "next", "selectFlag", "access"}
      /\ r.stage = "access" => r.kind = "access"
  BY <1>1 DEF NewCall
<1>3. r \in CallState /\ Begin(c, r)
  BY <1>1
<1>. QED
  BY <1>2, <1>3, BeginAlone

\* The steps of a call leave to Begin and Fail what they count.
LEMMA RunCountsNothing ==
    ASSUME NEW c \in Call, Run(c)
    PROVE  UNCHANGED <<faults, overlapped>>
<1>1. CASE Find(c)
  BY <1>1 DEF Find, OnlyCall
<1>2. CASE Insert(c)
  BY <1>2 DEF Insert
<1>3. CASE SaveSelect(c)
  BY <1>3 DEF SaveSelect, OnlyCall
<1>4. CASE UpdateScore(c)
  BY <1>4 DEF UpdateScore, Update
<1>5. CASE NextMatch(c)
  BY <1>5 DEF NextMatch, OnlyCall
<1>6. CASE UpdateFlag(c)
  BY <1>6 DEF UpdateFlag, Update
<1>7. CASE CheckLimit(c)
  BY <1>7 DEF CheckLimit, OnlyCall
<1>8. CASE Access(c)
  BY <1>8 DEF Access, OnlyCall
<1>9. CASE Pay(c)
  BY <1>9 DEF Pay
<1>10. CASE Grant(c)
  BY <1>10 DEF Grant
<1>11. CASE Open(c)
  BY <1>11 DEF Open
<1>12. CASE Start(c)
  BY <1>12 DEF Start
<1>13. CASE Record(c)
  BY <1>13 DEF Record, Update
<1>. QED
  BY <1>1, <1>2, <1>3, <1>4, <1>5, <1>6, <1>7,
     <1>8, <1>9, <1>10, <1>11, <1>12, <1>13 DEF Run

LEMMA BeginsCountsNoFault ==
    ASSUME NEW c \in Call, Begins(c)
    PROVE  UNCHANGED faults /\ (overlapped => overlapped')
<1>1. \A r : Begin(c, r) => UNCHANGED faults /\ (overlapped => overlapped')
  BY DEF Begin, Requested
<1>. QED
  BY <1>1 DEF Begins, MatchForSeeker, MatchForJob, Retry, Agree, RequestAccess

LEMMA StaysOverlapped == overlapped /\ [Next]_vars => overlapped'
<1>. SUFFICES ASSUME overlapped, [Next]_vars PROVE overlapped'
  OBVIOUS
<1>1. ASSUME NEW c \in Call, Begins(c) PROVE overlapped'
  BY <1>1, BeginsCountsNoFault
<1>2. ASSUME NEW c \in Call, Run(c) PROVE overlapped'
  BY <1>2, RunCountsNothing
<1>3. ASSUME NEW c \in Call, Fail(c) PROVE overlapped'
  BY <1>3 DEF Fail
<1>4. ASSUME \/ \E n \in DOMAIN sessions : SessionFails(n) \/ StartSession(n)
             \/ \E s \in Seeker, j \in Job : CreateSession(s, j)
             \/ \E x \in Job \cup Seeker : Relist(x)
      PROVE  overlapped'
  BY <1>4 DEF SessionFails, StartSession, CreateSession, Requested, Relist
<1>5. CASE UNCHANGED vars
  BY <1>5 DEF vars
<1>. QED
  BY <1>1, <1>2, <1>3, <1>4, <1>5, NextIsStep

OrderedAlone == Ordered /\ (overlapped \/ Alone)

LEMMA AloneInductive == OrderedAlone /\ [Next]_vars => OrderedAlone'
<1>. SUFFICES ASSUME Ordered, Alone, ~overlapped', [Next]_vars PROVE Alone'
  BY OrderedInductive, StaysOverlapped DEF OrderedAlone
<1>1. ASSUME NEW c \in Call, Run(c) PROVE Alone'
  BY <1>1, FindAlone, InsertAlone, SaveSelectAlone, UpdateScoreAlone,
     NextMatchAlone, UpdateFlagAlone, CheckLimitAlone, PurchaseAlone, OpenAlone,
     StartAlone, RecordAlone DEF Run
<1>2. ASSUME UNCHANGED vars PROVE Alone'
  BY <1>2, SessionsAlone DEF vars
<1>3. ASSUME \/ \E n \in DOMAIN sessions : SessionFails(n) \/ StartSession(n)
             \/ \E s \in Seeker, j \in Job : CreateSession(s, j)
             \/ \E x \in Job \cup Seeker : Relist(x)
      PROVE  Alone'
  <2>1. UNCHANGED <<matches, call>>
    BY <1>3 DEF SessionFails, StartSession, CreateSession, Relist
  <2>2. (\E x \in Job \cup Seeker : Relist(x)) => UNCHANGED sessions
    BY DEF Relist
  <2>. QED
    BY <1>3, <2>1, <2>2, SessionsAlone
<1>. QED
  BY <1>1, <1>2, <1>3, NextIsStep, BeginsAlone, FailAlone

LEMMA AloneInitially == Init => Alone
<1>. SUFFICES ASSUME Init PROVE Alone
  OBVIOUS
<1>1. /\ matches = <<>> /\ sessions = <<>>
      /\ \A c \in Call : call[c].stage = "idle"
  BY IdleState DEF Init
<1>2. OneAtATime /\ \A c \in Call : Ready(c)
  BY <1>1 DEF OneAtATime, Busy, Ready
<1>3. WithinLimit
  <2>1. \A s : {n \in Active(s) : sessions[n].matched} = {}
    BY <1>1 DEF Active
  <2>2. \A s : ActiveMatched(s) = 0
    BY <2>1, FS_EmptySet DEF ActiveMatched
  <2>. QED
    BY <2>2, MatchingAssumption DEF WithinLimit
<1>4. RowsDiffer
  BY <1>1 DEF RowsDiffer
<1>. QED
  BY <1>2, <1>3, <1>4 DEF Alone

LEMMA AloneHolds == Spec => []OrderedAlone
<1>1. Init => OrderedAlone
  BY OrderedInitially, AloneInitially DEF OrderedAlone
<1>. QED
  BY <1>1, AloneInductive, PTL DEF Spec

\* As long as calls do not overlap, the upsert stores each pair once, whatever
\* fails and for any number of seekers, jobs and calls.
THEOREM PairsAreStoredOnce == Spec => []OneRowPerPair
<1>1. OrderedAlone => OneRowPerPair
  BY DEF OrderedAlone, Alone, RowsDiffer, OneRowPerPair, PairOf
<1>. QED
  BY <1>1, AloneHolds, PTL

\* Whatever the limit is, whatever fails and whatever sessions requests open:
\* as long as calls do not overlap, matches open no more negotiations for a
\* seeker than the limit; once they overlap, at most one more for each call
\* beside the first, however many runs follow each other.
THEOREM LimitIsKept == Spec => []LimitRespected
<1>1. OrderedAlone /\ Ordered /\ LimitNearly => LimitRespected
  <2>. SUFFICES ASSUME OrderedAlone, Ordered, LimitNearly, NEW s \in Seeker
                PROVE  ActiveMatched(s) <=
                           AutoNegLimit + IF overlapped THEN Cardinality(Call) - 1
                                                        ELSE 0
    BY DEF LimitRespected
  <2>1. CASE overlapped
    <3>1. /\ ActiveMatched(s) \in Nat /\ Cardinality(PastCheck(s)) \in Nat
          /\ Cardinality(Call) \in Nat /\ AutoNegLimit \in Nat
      BY ActiveFinite, PastCheckFinite, MatchingAssumption DEF Ordered
    <3>. QED
      BY <2>1, <3>1 DEF LimitNearly
  <2>2. CASE ~overlapped
    BY <2>2, MatchingAssumption DEF OrderedAlone, Alone, WithinLimit
  <2>. QED
    BY <2>1, <2>2
<1>. QED
  BY <1>1, AloneHolds, NearlyHolds, PTL

-----------------------------------------------------------------------------
(***************************************************************************)
(* One call after the other, and none fails: a payment that was made is    *)
(* granted by the same call, a session that was opened is recorded by it.  *)
(***************************************************************************)

Paying(c) ==
    LET k == call[c]
    IN  k.stage \in {"pay", "grant"} /\ TxHashFits(k.deal) =>
            /\ k.stage = "pay" => payments[k.deal] = 0
            /\ k.stage = "grant" =>
                   payments[k.deal] = 1 /\ grants[k.deal] = 0

PaidInOrder ==
    /\ \A c \in Call : Paying(c)
    /\ \A d \in Deal : TxHashFits(d) =>
           /\ payments[d] <= 1
           /\ grants[d] = payments[d] \/ Granting(d) # {}

\* With one call at a time nobody else is about to store a grant.
LEMMA NobodyGrants ==
    ASSUME Alone, NEW c \in Call, Busy(c), call[c].stage # "grant",
           NEW d \in Deal
    PROVE  Granting(d) = {}
BY DEF Granting, Alone, OneAtATime, Busy

LEMMA CalmPaid ==
    ASSUME PaidInOrder, NEW c \in Call, UNCHANGED <<grants, payments>>,
           \A d \in Call \ {c} : call'[d] = call[d],
           call[c].stage # "grant", call'[c].stage \notin {"pay", "grant"}
    PROVE  PaidInOrder'
<1>1. \A d \in Deal : Granting(d)' = Granting(d)
  BY DEF Granting
<1>2. \A d \in Call : Paying(d)'
  <2>1. Paying(c)'
    BY DEF Paying
  <2>2. ASSUME NEW d \in Call \ {c} PROVE Paying(d)'
    BY DEF Paying, PaidInOrder
  <2>. QED
    BY <2>1, <2>2
<1>. QED
  BY <1>1, <1>2 DEF PaidInOrder

LEMMA BeginsPaid ==
    ASSUME Ordered, PaidInOrder, NEW c \in Call, Begins(c)
    PROVE  PaidInOrder'
<1>1. PICK r \in CallState : Begin(c, r) /\ NewCall(r)
  BY CallBegins
<1>2. /\ call' = [call EXCEPT ![c] = IF r.stage = "idle" THEN Idle ELSE r]
      /\ call[c].stage = "idle" /\ UNCHANGED <<grants, payments>>
      /\ r.stage \notin {"idle", "pay", "grant"}
  BY <1>1 DEF Begin, At, Put, NewCall
<1>3. call'[c] = r /\ \A d \in Call \ {c} : call'[d] = call[d]
  BY <1>2, PutStep DEF Ordered
<1>. QED
  BY <1>2, <1>3, CalmPaid

\* Neither of the steps before and after the purchase pays or grants.
LEMMA ElsewherePaid ==
    ASSUME Ordered, PaidInOrder, NEW c \in Call,
           \/ Find(c) \/ Insert(c) \/ SaveSelect(c) \/ UpdateScore(c)
           \/ NextMatch(c) \/ UpdateFlag(c) \/ Record(c)
           \/ CheckLimit(c) \/ Open(c) \/ Start(c)
    PROVE  PaidInOrder'
<1>1. CASE \/ Find(c) \/ Insert(c) \/ SaveSelect(c) \/ UpdateScore(c)
           \/ NextMatch(c) \/ UpdateFlag(c) \/ Record(c)
  BY <1>1, QuietSteps, CalmPaid DEF Quiet
<1>2. CASE CheckLimit(c)
  BY <1>2, CheckLimitStep, CalmPaid DEF Leaves
<1>3. CASE Open(c)
  <2>1. call[c].stage = "open" /\ UNCHANGED <<grants, payments>>
    BY <1>3 DEF Open, At
  <2>. QED
    BY <1>3, <2>1, OpenStep, CalmPaid
<1>4. CASE Start(c)
  BY <1>4, StartStep, CalmPaid DEF Quiet
<1>. QED
  BY <1>1, <1>2, <1>3, <1>4

LEMMA AccessPaid ==
    ASSUME Ordered, Alone, PaidInOrder, NEW c \in Call, Access(c)
    PROVE  PaidInOrder'
<1>0. PICK p : p = call[c].deal
  OBVIOUS
<1>1. /\ call[c].stage = "access" /\ call[c].stage \in Handoff /\ Busy(c)
      /\ UNCHANGED <<matches, grants, payments, sessions>>
      /\ p \in Deal
  BY <1>0 DEF Access, At, OnlyCall, Handoff, Busy, Ordered, InOrder
<1>2. Grown
  BY <1>1 DEF Grown, Ordered, Types
<1>3. CASE HasGrant(p) /\ Bought(c)
  <2>1. grants'[call[c].deal] > 0
    BY <1>0, <1>1, <1>3 DEF HasGrant
  <2>2. /\ \A d \in Call \ {c} : call'[d] = call[d]
        /\ call'[c] = Idle \/ call'[c].stage = "open"
    BY <1>1, <1>2, <1>3, <2>1, BoughtStep
  <2>. QED
    BY <1>1, <2>2, CalmPaid, IdleState
<1>4. CASE ~HasGrant(p) /\ Goto(c, "pay")
  <2>1. "pay" \in Handoff
    BY DEF Handoff
  <2>2. /\ \A d \in Call \ {c} : call'[d] = call[d]
        /\ call'[c].stage = "pay" /\ call'[c].deal = p
    BY <1>0, <1>1, <1>2, <1>4, <2>1, HandoffGoto
  <2>3. TxHashFits(p) => payments[p] = 0
    <3>1. grants[p] = 0
      <4>1. grants[p] \in Nat
        BY <1>1 DEF Ordered, Types
      <4>. QED
        BY <1>4, <4>1 DEF HasGrant
    <3>2. Granting(p) = {}
      BY <1>1, NobodyGrants
    <3>. QED
      BY <1>1, <3>1, <3>2 DEF PaidInOrder
  <2>4. Paying(c)'
    BY <1>1, <2>2, <2>3 DEF Paying
  <2>5. ASSUME NEW d \in Call \ {c} PROVE Paying(d)'
    BY <1>1, <2>2 DEF Paying, PaidInOrder
  <2>6. \A d \in Deal : Granting(d)' = Granting(d)
    BY <1>1, <2>2 DEF Granting
  <2>. QED
    BY <1>1, <2>4, <2>5, <2>6 DEF PaidInOrder
<1>. QED
  BY <1>0, <1>3, <1>4 DEF Access

LEMMA PayPaid ==
    ASSUME Ordered, Alone, PaidInOrder, NEW c \in Call, Pay(c)
    PROVE  PaidInOrder'
<1>0. PICK p : p = call[c].deal
  OBVIOUS
<1>1. /\ call[c].stage = "pay" /\ call[c].stage \in Handoff /\ Busy(c)
      /\ UNCHANGED <<matches, grants, sessions>> /\ Paid(c)
      /\ Goto(c, "grant") /\ p \in Deal /\ "grant" \in Handoff
  BY <1>0 DEF Pay, At, Handoff, Busy, Ordered, InOrder
<1>2. Grown
  BY <1>1 DEF Grown, Ordered, Types
<1>3. /\ \A d \in Call \ {c} : call'[d] = call[d]
      /\ call'[c].stage = "grant" /\ call'[c].deal = p
  BY <1>0, <1>1, <1>2, HandoffGoto
<1>4. /\ payments'[p] = payments[p] + 1
      /\ \A d \in Deal \ {p} : payments'[d] = payments[d]
      /\ \A d \in Deal : payments[d] \in Nat /\ grants[d] \in Nat
  BY <1>0, <1>1, PaidStep DEF Ordered, Types
<1>5. TxHashFits(p) => payments'[p] = 1 /\ grants'[p] = 0
  <2>1. TxHashFits(p) => payments[p] = 0
    BY <1>0, <1>1 DEF PaidInOrder, Paying
  <2>2. TxHashFits(p) => grants[p] = payments[p]
    BY <1>1, NobodyGrants DEF PaidInOrder
  <2>. QED
    BY <1>1, <1>4, <2>1, <2>2
<1>6. \A d \in Call : Paying(d)'
  <2>1. Paying(c)'
    BY <1>3, <1>5 DEF Paying
  <2>2. ASSUME NEW d \in Call \ {c} PROVE Paying(d)'
    <3>1. call'[d].stage = "idle"
      BY <1>1, <1>3 DEF Alone, OneAtATime, Busy
    <3>. QED
      BY <3>1 DEF Paying
  <2>. QED
    BY <2>1, <2>2
<1>7. c \in Granting(p)'
  BY <1>3 DEF Granting
<1>8. \A d \in Deal \ {p} : TxHashFits(d) =>
          payments'[d] <= 1 /\ grants'[d] = payments'[d]
  BY <1>1, <1>4, NobodyGrants DEF PaidInOrder
<1>. QED
  BY <1>5, <1>6, <1>7, <1>8 DEF PaidInOrder

LEMMA GrantPaid ==
    ASSUME Ordered, Alone, PaidInOrder, NEW c \in Call, Grant(c)
    PROVE  PaidInOrder'
<1>0. PICK p : p = call[c].deal
  OBVIOUS
<1>1. /\ call[c].stage = "grant" /\ call[c].stage \in Handoff /\ Busy(c)
      /\ UNCHANGED <<matches, payments, sessions>>
  BY DEF Grant, At, Handoff, Busy
<1>2. /\ p \in Deal
      /\ \A d \in Deal : grants'[d] >= grants[d]
      /\ \A d \in Deal \ {p} : grants'[d] = grants[d]
      /\ \/ Throw(c) /\ ~TxHashFits(p)
         \/ grants'[p] = grants[p] + 1 /\ grants'[p] > 0 /\ Bought(c)
  BY <1>0, GrantsStep DEF GrantsGrow
<1>3. Grown
  BY <1>1, <1>2 DEF Grown
<1>4. /\ \A d \in Call \ {c} : call'[d] = call[d]
      /\ call'[c].stage \notin {"pay", "grant"}
  <2>1. CASE Throw(c)
    BY <1>3, <2>1, ThrowStep
  <2>2. CASE Bought(c) /\ grants'[p] > 0
    BY <1>0, <1>1, <1>3, <2>2, BoughtStep, IdleState
  <2>. QED
    BY <1>2, <2>1, <2>2
<1>5. \A d \in Call : Paying(d)'
  <2>1. Paying(c)'
    BY <1>4 DEF Paying
  <2>2. ASSUME NEW d \in Call \ {c} PROVE Paying(d)'
    <3>1. call'[d].stage = "idle"
      BY <1>1, <1>4 DEF Alone, OneAtATime, Busy
    <3>. QED
      BY <3>1 DEF Paying
  <2>. QED
    BY <2>1, <2>2
<1>6. ASSUME NEW d \in Deal, TxHashFits(d)
      PROVE  payments'[d] <= 1 /\ grants'[d] = payments'[d]
  <2>1. CASE d = p
    <3>1. payments[d] = 1 /\ grants[d] = 0
      BY <1>0, <1>1, <1>6, <2>1 DEF PaidInOrder, Paying
    <3>. QED
      BY <1>1, <1>2, <1>6, <2>1, <3>1
  <2>2. CASE d # p
    <3>1. Granting(d) = {}
      BY <1>0, <1>1, <2>2 DEF Granting, Alone, OneAtATime, Busy
    <3>. QED
      BY <1>1, <1>2, <1>6, <2>2, <3>1 DEF PaidInOrder
  <2>. QED
    BY <2>1, <2>2
<1>. QED
  BY <1>5, <1>6 DEF PaidInOrder

LEMMA SessionsPaid ==
    ASSUME PaidInOrder, UNCHANGED <<grants, payments, call>>
    PROVE  PaidInOrder'
BY DEF PaidInOrder, Paying, Granting

-----------------------------------------------------------------------------
\* Which pairs have a session of a match, other than those an answer of the
\* reranker named twice, and which rows are about to get its id.

MatchedSessions == {n \in DOMAIN sessions : sessions[n].matched}
Negotiated == {PairOf(sessions[n]) : n \in MatchedSessions} \ twice

RecordStage == {"start", "selectRecord", "updateRecord"}
Recording == {call[c].entity.id : c \in {d \in Call :
                                             call[d].stage \in RecordStage}}

Apart(p, q) == p = q => p \in twice

\* The pairs a run has still to do are different ones.
Distinct(c) ==
    LET k == call[c]
    IN  /\ \A i, n \in DOMAIN k.todo : i # n => Apart(k.todo[i], k.todo[n])
        /\ \A i, n \in DOMAIN k.mine :
               i # n => Apart(PairOf(k.mine[i].row), PairOf(k.mine[n].row))
        /\ \A i \in DOMAIN k.mine, n \in DOMAIN k.todo :
               Apart(PairOf(k.mine[i].row), k.todo[n])
        /\ k.stage \in {"selectScore", "updateScore"} =>
               PairOf(k.entity.row) = Head(k.todo)
        /\ HasEntity(c) /\ k.stage \in Handoff => \A n \in DOMAIN k.mine :
               Apart(PairOf(k.mine[n].row), PairOf(k.entity.row))
        /\ k.stage \in {"selectFlag", "updateFlag"} => k.mine = <<>>

\* What it read is still so.
Current(c) ==
    LET k == call[c]
    IN  /\ \A n \in DOMAIN k.mine : k.mine[n].row.session = Null =>
               PairOf(k.mine[n].row) \notin Negotiated
        /\ k.stage \in {"selectScore", "updateScore", "selectFlag",
                        "updateFlag"} =>
               k.entity.row.session = matches[k.entity.id].session
        /\ k.stage \in {"updateScore", "updateFlag", "updateRecord"} =>
               k.seen = matches[k.entity.id]
        /\ HasEntity(c) /\ k.stage \in {"limit", "access", "pay", "grant",
                                        "open"} =>
               PairOf(k.entity.row) \notin Negotiated
        /\ k.stage \in RecordStage => k.entity.row.session \in Nat

SessionsDiffer == \A m, n \in MatchedSessions :
                      m # n => Apart(PairOf(sessions[m]), PairOf(sessions[n]))
SessionsMatched == \A n \in MatchedSessions : \E m \in DOMAIN matches :
                       PairOf(matches[m]) = PairOf(sessions[n])
Recorded == \A m \in DOMAIN matches :
                PairOf(matches[m]) \in Negotiated /\ matches[m].session = Null
                    => m \in Recording

NegotiatedInOrder ==
    /\ SessionsDiffer /\ SessionsMatched /\ Recorded
    /\ \A c \in Call : Busy(c) => Distinct(c) /\ Current(c)

\* A step of c, all others being idle.
LEMMA OthersIdle ==
    ASSUME Alone, NEW c \in Call, Busy(c) \/ \A d \in Call : ~Busy(d),
           \A d \in Call \ {c} : call'[d] = call[d]
    PROVE  \A d \in Call \ {c} : call[d].stage = "idle" /\ call'[d].stage = "idle"
BY DEF Alone, OneAtATime, Busy

LEMMA NegotiatedStep ==
    ASSUME Alone, NEW c \in Call, Busy(c) \/ \A d \in Call : ~Busy(d),
           \A d \in Call \ {c} : call'[d] = call[d],
           SessionsDiffer', SessionsMatched', Recorded',
           call'[c].stage # "idle" => Distinct(c)' /\ Current(c)'
    PROVE  NegotiatedInOrder'
BY OthersIdle DEF NegotiatedInOrder, Busy

\* Unless a call is recording one, every session is recorded.
LEMMA NobodyRecords ==
    ASSUME Alone, NegotiatedInOrder, NEW c \in Call,
           Busy(c) \/ \A d \in Call : ~Busy(d),
           call[c].stage \notin RecordStage, NEW m \in DOMAIN matches,
           matches[m].session = Null
    PROVE  PairOf(matches[m]) \notin Negotiated
<1>1. m \notin Recording
  <2>1. \A d \in Call : call[d].stage \notin RecordStage
    BY DEF Alone, OneAtATime, Busy, RecordStage
  <2>. QED
    BY <2>1 DEF Recording
<1>. QED
  BY <1>1 DEF NegotiatedInOrder, Recorded

\* Neither sessions nor the session column change.
LEMMA CalmNegotiated ==
    ASSUME Alone, NegotiatedInOrder, NEW c \in Call,
           Busy(c) \/ \A d \in Call : ~Busy(d),
           \A d \in Call \ {c} : call'[d] = call[d],
           call[c].stage \notin RecordStage, UNCHANGED sessions,
           twice \subseteq twice',
           DOMAIN matches' = DOMAIN matches,
           \A m \in DOMAIN matches : PairOf(matches'[m]) = PairOf(matches[m])
                                     /\ matches'[m].session = matches[m].session,
           call'[c].stage # "idle" => Distinct(c)' /\ Current(c)'
    PROVE  NegotiatedInOrder'
<1>1. Negotiated' \subseteq Negotiated
  BY DEF Negotiated, MatchedSessions
<1>2. Recorded'
  BY <1>1, NobodyRecords DEF Recorded
<1>3. SessionsDiffer' /\ SessionsMatched'
  BY DEF NegotiatedInOrder, SessionsDiffer, SessionsMatched, MatchedSessions,
         Apart
<1>. QED
  BY <1>2, <1>3, NegotiatedStep

LEMMA BeginsNegotiated ==
    ASSUME Ordered, Alone, NegotiatedInOrder, NEW c \in Call, Begins(c),
           ~overlapped'
    PROVE  NegotiatedInOrder'
<1>1. PICK r \in CallState : Begin(c, r) /\ NewCall(r)
  BY CallBegins
<1>2. /\ call' = [call EXCEPT ![c] = IF r.stage = "idle" THEN Idle ELSE r]
      /\ UNCHANGED <<matches, sessions>>
      /\ twice' = twice \cup Repeated(r.todo)
      /\ \A d \in Call : ~Busy(d)
      /\ call[c].stage = "idle"
  BY <1>1 DEF Begin, Requested, At, Put, Busy
<1>3. r.stage \in {"find", "next", "selectFlag", "access"}
  BY <1>1 DEF NewCall
<1>4. call'[c] = r /\ \A d \in Call \ {c} : call'[d] = call[d]
  BY <1>2, <1>3, PutStep DEF Ordered
<1>5. Negotiated' \subseteq Negotiated /\ twice \subseteq twice'
  BY <1>2 DEF Negotiated, MatchedSessions
<1>6. CASE r.stage = "next"
  <2>1. /\ r.todo = <<>>
        /\ \A n \in DOMAIN r.mine : /\ r.mine[n].id \in DOMAIN matches
                                    /\ r.mine[n].row = matches[r.mine[n].id]
                                    /\ r.mine[n].row.session = Null
        /\ \A i, n \in DOMAIN r.mine : i # n => r.mine[i].id # r.mine[n].id
    BY <1>1, <1>6 DEF NewCall
  <2>2. \A i, n \in DOMAIN r.mine :
            i # n => PairOf(r.mine[i].row) # PairOf(r.mine[n].row)
    BY <2>1 DEF Alone, RowsDiffer
  <2>3. \A n \in DOMAIN r.mine : PairOf(r.mine[n].row) \notin Negotiated
    BY <1>2, <2>1, NobodyRecords DEF RecordStage
  <2>4. Distinct(c)'
    BY <1>4, <1>6, <2>1, <2>2 DEF Distinct, Apart, HasEntity, Handoff
  <2>5. Current(c)'
    BY <1>4, <1>5, <1>6, <2>3 DEF Current, HasEntity, RecordStage
  <2>. QED
    BY <1>2, <1>4, <2>4, <2>5, CalmNegotiated DEF RecordStage
<1>7. CASE r.stage # "next"
  <2>1. /\ r.mine = <<>>
        /\ r.stage = "selectFlag" =>
               r.entity.row.session = matches[r.entity.id].session
        /\ r.stage = "access" => r.kind = "access"
    BY <1>1, <1>7 DEF NewCall
  <2>2. Distinct(c)'
    <3>1. \A i, n \in DOMAIN r.todo :
              i # n /\ r.todo[i] = r.todo[n] => r.todo[i] \in twice'
      BY <1>2, RepeatedFacts
    <3>. QED
      BY <1>3, <1>4, <2>1, <3>1 DEF Distinct, Apart, HasEntity
  <2>3. Current(c)'
    BY <1>2, <1>3, <1>4, <2>1 DEF Current, HasEntity, RecordStage
  <2>. QED
    BY <1>2, <1>4, <2>2, <2>3, CalmNegotiated DEF RecordStage
<1>. QED
  BY <1>6, <1>7

LEMMA FindNegotiated ==
    ASSUME Ordered, Alone, NegotiatedInOrder, NEW c \in Call, Find(c)
    PROVE  NegotiatedInOrder'
<1>0. PICK k : k = call[c]
  OBVIOUS
<1>1. PICK new : new = call'[c]
  OBVIOUS
<1>2. /\ k.stage = "find" /\ Busy(c) /\ UNCHANGED <<matches, sessions, twice>>
      /\ Distinct(c) /\ Current(c)
  BY <1>0 DEF Find, At, OnlyCall, Busy, NegotiatedInOrder
<1>3. /\ \A d \in Call \ {c} : call'[d] = call[d]
      /\ new.todo = k.todo /\ new.mine = k.mine
      /\ new.stage \in {"next", "insert", "selectScore"}
      /\ new.stage = "selectScore" =>
             /\ new.entity.id \in Existing(Head(k.todo))
             /\ new.entity.row = matches[new.entity.id]
  BY <1>0, <1>1, FindStep
<1>4. new.stage = "selectScore" => PairOf(new.entity.row) = Head(k.todo)
  BY <1>3 DEF Existing, PairOf
<1>5. Negotiated' = Negotiated
  BY <1>2 DEF Negotiated, MatchedSessions
<1>6. Distinct(c)'
  BY <1>0, <1>1, <1>2, <1>3, <1>4 DEF Distinct, Apart, HasEntity, Handoff
<1>7. Current(c)'
  BY <1>0, <1>1, <1>2, <1>3, <1>5 DEF Current, HasEntity, RecordStage
<1>. QED
  BY <1>0, <1>2, <1>3, <1>6, <1>7, CalmNegotiated DEF RecordStage

\* The pair that was stored goes from the pairs to do to those of the run.
LEMMA StoredDistinct ==
    ASSUME Types, NEW c \in Call, NEW e \in Entity, call[c].todo # <<>>,
           Stored(c, e), Distinct(c), PairOf(e.row) = Head(call[c].todo),
           UNCHANGED twice
    PROVE  Distinct(c)'
<1>0. PICK k : k = call[c]
  OBVIOUS
<1>1. PICK new : new = call'[c]
  OBVIOUS
<1>2. /\ new.stage = "find" /\ new.todo = Tail(k.todo)
      /\ new.mine = Append(k.mine, e)
      /\ k.todo \in Seq(Pair) /\ k.mine \in Seq(Entity) /\ k.todo # <<>>
  BY <1>0, <1>1, StoredStep DEF Types, CallState
<1>3. \A n \in DOMAIN new.todo :
          \E i \in DOMAIN k.todo : i = n + 1 /\ new.todo[n] = k.todo[i] /\ i # 1
  BY <1>2, TailFacts
<1>4. \A n \in DOMAIN new.mine :
          \/ n \in DOMAIN k.mine /\ new.mine[n] = k.mine[n]
          \/ n = Len(k.mine) + 1 /\ new.mine[n] = e
  <2>1. /\ DOMAIN new.mine = 1 .. Len(k.mine) + 1 /\ Len(k.mine) \in Nat
        /\ DOMAIN k.mine = 1 .. Len(k.mine)
        /\ \A i \in 1 .. Len(k.mine) : new.mine[i] = k.mine[i]
        /\ new.mine[Len(k.mine) + 1] = e
    BY <1>2, AppendFacts
  <2>. QED
    BY <2>1
<1>5. /\ \A i, n \in DOMAIN k.todo : i # n => Apart(k.todo[i], k.todo[n])
      /\ \A i, n \in DOMAIN k.mine :
             i # n => Apart(PairOf(k.mine[i].row), PairOf(k.mine[n].row))
      /\ \A i \in DOMAIN k.mine, n \in DOMAIN k.todo :
             Apart(PairOf(k.mine[i].row), k.todo[n])
  BY <1>0 DEF Distinct
<1>6. PairOf(e.row) = k.todo[1] /\ 1 \in DOMAIN k.todo
  BY <1>0, <1>2, TailFacts
<1>7. DOMAIN new.todo \subseteq Nat
  <2>1. Tail(k.todo) \in Seq(Pair)
    BY <1>2, TailFacts
  <2>. QED
    BY <1>2, <2>1
<1>8. \A i, n \in DOMAIN new.todo : i # n => Apart(new.todo[i], new.todo[n])
  <2>1. \A i, n \in DOMAIN new.todo : i # n => i + 1 # n + 1
    BY <1>7
  <2>. QED
    BY <1>3, <1>5, <2>1
<1>9. \A i, n \in DOMAIN new.mine :
          i # n => Apart(PairOf(new.mine[i].row), PairOf(new.mine[n].row))
  BY <1>4, <1>5, <1>6 DEF Apart
<1>10. \A i \in DOMAIN new.mine, n \in DOMAIN new.todo :
           Apart(PairOf(new.mine[i].row), new.todo[n])
  BY <1>3, <1>4, <1>5, <1>6 DEF Apart
<1>. QED
  BY <1>1, <1>2, <1>8, <1>9, <1>10 DEF Distinct, Apart, HasEntity, Handoff

LEMMA StoredCurrent ==
    ASSUME Types, NEW c \in Call, NEW e \in Entity, call[c].todo # <<>>,
           Stored(c, e), Current(c), UNCHANGED <<sessions, twice>>,
           e.row.session = Null => PairOf(e.row) \notin Negotiated
    PROVE  Current(c)'
<1>0. PICK k : k = call[c]
  OBVIOUS
<1>1. PICK new : new = call'[c]
  OBVIOUS
<1>2. /\ new.stage = "find" /\ new.mine = Append(k.mine, e)
      /\ k.mine \in Seq(Entity)
  BY <1>0, <1>1, StoredStep DEF Types, CallState
<1>3. \A n \in DOMAIN new.mine :
          \/ n \in DOMAIN k.mine /\ new.mine[n] = k.mine[n]
          \/ new.mine[n] = e
  <2>1. /\ DOMAIN new.mine = 1 .. Len(k.mine) + 1 /\ Len(k.mine) \in Nat
        /\ DOMAIN k.mine = 1 .. Len(k.mine)
        /\ \A i \in 1 .. Len(k.mine) : new.mine[i] = k.mine[i]
        /\ new.mine[Len(k.mine) + 1] = e
    BY <1>2, AppendFacts
  <2>. QED
    BY <2>1
<1>4. Negotiated' = Negotiated
  BY DEF Negotiated, MatchedSessions
<1>5. \A n \in DOMAIN new.mine : new.mine[n].row.session = Null =>
          PairOf(new.mine[n].row) \notin Negotiated
  BY <1>0, <1>3 DEF Current
<1>. QED
  BY <1>1, <1>2, <1>4, <1>5 DEF Current, HasEntity, RecordStage

LEMMA InsertNegotiated ==
    ASSUME Ordered, Alone, NegotiatedInOrder, NEW c \in Call, Insert(c)
    PROVE  NegotiatedInOrder'
<1>0. PICK p : p = Head(call[c].todo)
  OBVIOUS
<1>1. PICK row : row = NewRow(p[1], p[2])
  OBVIOUS
<1>2. /\ DOMAIN matches = 1 .. Len(matches) /\ Len(matches) \in Nat
      /\ DOMAIN matches' = 1 .. Len(matches) + 1
      /\ matches'[Len(matches) + 1] = row /\ PairOf(row) = p
      /\ row \in Row
      /\ \A m \in DOMAIN matches : /\ matches'[m] = matches[m]
                                   /\ PairOf(matches[m]) # p
  BY <1>0, <1>1, InsertRow
<1>3. PICK e : e = [id |-> Len(matches) + 1, row |-> row]
  OBVIOUS
<1>4. e \in Entity /\ e.row = row
  BY <1>2, <1>3 DEF Entity
<1>5. /\ UNCHANGED <<sessions, twice>> /\ Busy(c) /\ Stored(c, e)
      /\ call[c].stage = "insert"
      /\ call[c].todo # <<>> /\ Distinct(c) /\ Current(c)
  BY <1>0, <1>1, <1>3
     DEF Insert, At, Busy, Ordered, InOrder, NegotiatedInOrder
<1>6. p \notin Negotiated /\ Negotiated' = Negotiated
  BY <1>2, <1>5
     DEF Negotiated, MatchedSessions, NegotiatedInOrder, SessionsMatched
<1>7. \A d \in Call \ {c} : call'[d] = call[d]
  BY <1>4, <1>5, StoredStep DEF Ordered
<1>8. Distinct(c)' /\ Current(c)'
  BY <1>0, <1>2, <1>4, <1>5, <1>6, StoredDistinct, StoredCurrent DEF Ordered
<1>9. \A m \in DOMAIN matches' : m \in DOMAIN matches \/ m = Len(matches) + 1
  BY <1>2
<1>10. Recorded'
  <2>1. \A m \in DOMAIN matches : matches[m].session = Null =>
            PairOf(matches[m]) \notin Negotiated
    BY <1>5, NobodyRecords DEF RecordStage
  <2>. QED
    BY <1>2, <1>6, <1>9, <2>1 DEF Recorded
<1>11. SessionsMatched'
  <2>1. \A m \in DOMAIN matches : m \in DOMAIN matches'
    BY <1>2
  <2>. QED
    BY <1>2, <1>5, <2>1 DEF NegotiatedInOrder, SessionsMatched, MatchedSessions
<1>12. SessionsDiffer'
  BY <1>5 DEF NegotiatedInOrder, SessionsDiffer, MatchedSessions, Apart
<1>. QED
  BY <1>5, <1>7, <1>8, <1>10, <1>11, <1>12, NegotiatedStep

LEMMA UpdateScoreNegotiated ==
    ASSUME Ordered, Alone, NegotiatedInOrder, NEW c \in Call, UpdateScore(c)
    PROVE  NegotiatedInOrder'
<1>0. PICK e : e = call[c].entity
  OBVIOUS
<1>1. /\ call[c].stage = "updateScore" /\ Update(c) /\ HasEntity(c)
      /\ Busy(c) /\ Distinct(c) /\ Current(c) /\ InOrder(c)
  BY DEF UpdateScore, At, HasEntity, Ordered, Busy, NegotiatedInOrder
<1>2. /\ Stored(c, e) /\ e \in Entity /\ call[c].todo # <<>> /\ Copy(e)
      /\ PairOf(e.row) = Head(call[c].todo)
      /\ e.row.session = matches[e.id].session
      /\ call[c].seen = matches[e.id]
  BY <1>0, <1>1 DEF UpdateScore, InOrder, Distinct, Current
<1>3. /\ UNCHANGED <<sessions, twice>> /\ DOMAIN matches' = DOMAIN matches
      /\ \A m \in DOMAIN matches : PairOf(matches'[m]) = PairOf(matches[m])
      /\ \A m \in DOMAIN matches \ {e.id} : matches'[m] = matches[m]
      /\ matches'[e.id] = e.row
  BY <1>0, <1>1, <1>2, UpdateFacts
<1>4. \A m \in DOMAIN matches : matches'[m].session = matches[m].session
  BY <1>2, <1>3
<1>5. e.row.session = Null => PairOf(e.row) \notin Negotiated
  BY <1>1, <1>2, NobodyRecords DEF Copy, RecordStage
<1>6. Distinct(c)' /\ Current(c)'
  BY <1>1, <1>2, <1>3, <1>5, StoredDistinct, StoredCurrent DEF Ordered
<1>7. \A d \in Call \ {c} : call'[d] = call[d]
  BY <1>2, StoredStep DEF Ordered
<1>. QED
  BY <1>1, <1>3, <1>4, <1>6, <1>7, CalmNegotiated DEF RecordStage

LEMMA SaveSelectNegotiated ==
    ASSUME Ordered, Alone, NegotiatedInOrder, NEW c \in Call, SaveSelect(c)
    PROVE  NegotiatedInOrder'
<1>0. PICK k : k = call[c]
  OBVIOUS
<1>1. PICK new : new = call'[c]
  OBVIOUS
<1>2. /\ k.stage \in {"selectScore", "selectFlag", "selectRecord"}
      /\ Busy(c) /\ UNCHANGED <<matches, sessions, twice>>
      /\ Distinct(c) /\ Current(c)
  BY <1>0 DEF SaveSelect, OnlyCall, Busy, NegotiatedInOrder
<1>3. /\ \A d \in Call \ {c} : call'[d] = call[d]
      /\ new.stage \in {"updateScore", "updateFlag", "updateRecord"}
      /\ new.stage = "updateScore" <=> k.stage = "selectScore"
      /\ new.stage = "updateFlag" <=> k.stage = "selectFlag"
      /\ new.stage = "updateRecord" <=> k.stage = "selectRecord"
      /\ new.kind = k.kind /\ new.todo = k.todo /\ new.mine = k.mine
      /\ new.entity = k.entity
      /\ new.seen = matches[k.entity.id] /\ HasEntity(c)
  BY <1>0, <1>1, SaveSelectStep
<1>4. Negotiated' = Negotiated
  BY <1>2 DEF Negotiated, MatchedSessions
<1>5. Distinct(c)'
  BY <1>0, <1>1, <1>2, <1>3 DEF Distinct, Apart, HasEntity, Handoff
<1>6. Current(c)'
  BY <1>0, <1>1, <1>2, <1>3, <1>4 DEF Current, HasEntity, RecordStage
<1>7. Recording' = Recording
  BY <1>0, <1>1, <1>2, <1>3 DEF Recording, RecordStage
<1>8. SessionsDiffer' /\ SessionsMatched' /\ Recorded'
  BY <1>2, <1>4, <1>7
     DEF NegotiatedInOrder, SessionsDiffer, SessionsMatched, MatchedSessions,
         Apart, Recorded
<1>. QED
  BY <1>2, <1>3, <1>5, <1>6, <1>8, NegotiatedStep

LEMMA NextMatchNegotiated ==
    ASSUME Ordered, Alone, NegotiatedInOrder, NEW c \in Call, NextMatch(c)
    PROVE  NegotiatedInOrder'
<1>0. PICK k : k = call[c]
  OBVIOUS
<1>1. PICK new : new = call'[c]
  OBVIOUS
<1>2. /\ k.stage = "next" /\ k.mine \in Seq(Entity)
      /\ Busy(c) /\ UNCHANGED <<matches, sessions, twice>>
      /\ Distinct(c) /\ Current(c)
  BY <1>0 DEF NextMatch, At, OnlyCall, Busy, NegotiatedInOrder, Ordered, Types,
              CallState
<1>3. /\ \A d \in Call \ {c} : call'[d] = call[d]
      /\ \/ new = Idle
         \/ /\ new.kind = k.kind /\ new.todo = k.todo
            /\ k.mine # <<>> /\ new.mine = Tail(k.mine)
            /\ new.stage \in {"next", "limit"}
            /\ new.stage = "limit" =>
                   /\ Head(k.mine).row.session = Null
                   /\ PairOf(new.entity.row) = PairOf(Head(k.mine).row)
  BY <1>0, <1>1, NextMatchStep
<1>4. Negotiated' = Negotiated
  BY <1>2 DEF Negotiated, MatchedSessions
<1>5. CASE new = Idle
  <2>1. call'[c].stage = "idle"
    BY <1>1, <1>5, IdleState
  <2>. QED
    BY <1>0, <1>2, <1>3, <2>1, CalmNegotiated DEF RecordStage
<1>6. CASE new # Idle
  <2>1. /\ Head(k.mine) = k.mine[1] /\ 1 \in DOMAIN k.mine
        /\ \A n \in DOMAIN new.mine : \E i \in DOMAIN k.mine :
               i = n + 1 /\ new.mine[n] = k.mine[i] /\ i # 1
        /\ DOMAIN new.mine \subseteq Nat
    <3>0. /\ k.mine \in Seq(Entity) /\ k.mine # <<>>
          /\ new.mine = Tail(k.mine)
      BY <1>2, <1>3, <1>6
    <3>1. /\ Head(k.mine) = k.mine[1] /\ 1 \in DOMAIN k.mine
          /\ DOMAIN new.mine = 1 .. Len(k.mine) - 1
          /\ \A n \in 1 .. Len(k.mine) - 1 :
                 new.mine[n] = k.mine[n + 1] /\ n + 1 \in DOMAIN k.mine /\ n + 1 # 1
      BY <3>0, TailFacts
    <3>2. DOMAIN new.mine \subseteq Nat
      BY <3>1
    <3>. QED
      BY <3>1, <3>2
  <2>2. /\ \A i, n \in DOMAIN k.todo : i # n => Apart(k.todo[i], k.todo[n])
        /\ \A i, n \in DOMAIN k.mine :
               i # n => Apart(PairOf(k.mine[i].row), PairOf(k.mine[n].row))
        /\ \A i \in DOMAIN k.mine, n \in DOMAIN k.todo :
               Apart(PairOf(k.mine[i].row), k.todo[n])
        /\ \A n \in DOMAIN k.mine : k.mine[n].row.session = Null =>
               PairOf(k.mine[n].row) \notin Negotiated
    BY <1>0, <1>2 DEF Distinct, Current
  <2>3. \A i, n \in DOMAIN new.mine :
            i # n => Apart(PairOf(new.mine[i].row), PairOf(new.mine[n].row))
    <3>1. \A i, n \in DOMAIN new.mine : i # n => i + 1 # n + 1
      BY <2>1
    <3>. QED
      BY <2>1, <2>2, <3>1
  <2>4. /\ \A i \in DOMAIN new.mine, n \in DOMAIN k.todo :
               Apart(PairOf(new.mine[i].row), k.todo[n])
        /\ \A n \in DOMAIN new.mine :
               Apart(PairOf(new.mine[n].row), PairOf(Head(k.mine).row))
        /\ \A n \in DOMAIN new.mine : new.mine[n].row.session = Null =>
               PairOf(new.mine[n].row) \notin Negotiated
    BY <2>1, <2>2
  <2>5. new.stage = "limit" => PairOf(new.entity.row) \notin Negotiated
    BY <1>3, <1>6, <2>1, <2>2
  <2>6. Distinct(c)'
    <3>1. new.stage = "limit" => \A n \in DOMAIN new.mine :
              Apart(PairOf(new.mine[n].row), PairOf(new.entity.row))
      BY <1>3, <1>6, <2>4
    <3>2. new.stage \in Handoff => new.stage = "limit"
      BY <1>3, <1>6 DEF Handoff
    <3>. QED
      BY <1>1, <1>2, <1>3, <1>6, <2>2, <2>3, <2>4, <3>1, <3>2
         DEF Distinct, Apart
  <2>7. Current(c)'
    BY <1>1, <1>3, <1>4, <1>6, <2>4, <2>5 DEF Current, RecordStage
  <2>. QED
    BY <1>0, <1>2, <1>3, <2>6, <2>7, CalmNegotiated DEF RecordStage
<1>. QED
  BY <1>5, <1>6

LEMMA UpdateFlagNegotiated ==
    ASSUME Ordered, Alone, NegotiatedInOrder, NEW c \in Call, UpdateFlag(c)
    PROVE  NegotiatedInOrder'
<1>0. PICK k : k = call[c]
  OBVIOUS
<1>1. PICK new : new = call'[c]
  OBVIOUS
<1>2. /\ call[c].stage = "updateFlag" /\ Update(c) /\ HasEntity(c)
      /\ Busy(c) /\ Distinct(c) /\ Current(c) /\ InOrder(c)
  BY DEF UpdateFlag, At, HasEntity, Ordered, Busy, NegotiatedInOrder
<1>3. /\ k.entity \in Entity /\ Copy(k.entity)
      /\ k.entity.row.session = matches[k.entity.id].session
      /\ k.seen = matches[k.entity.id] /\ k.mine = <<>>
  BY <1>0, <1>2 DEF InOrder, Distinct, Current
<1>4. /\ UNCHANGED <<sessions, twice>> /\ DOMAIN matches' = DOMAIN matches
      /\ \A m \in DOMAIN matches : PairOf(matches'[m]) = PairOf(matches[m])
      /\ \A m \in DOMAIN matches \ {k.entity.id} : matches'[m] = matches[m]
      /\ matches'[k.entity.id] = k.entity.row
  BY <1>0, <1>2, <1>3, UpdateFacts
<1>5. \A m \in DOMAIN matches : matches'[m].session = matches[m].session
  BY <1>3, <1>4
<1>6. k.entity.row.session = Null => PairOf(k.entity.row) \notin Negotiated
  BY <1>2, <1>3, NobodyRecords DEF Copy, RecordStage
<1>7. /\ \A d \in Call \ {c} : call'[d] = call[d]
      /\ \/ new = Idle
         \/ /\ new.stage = "limit" /\ new.todo = k.todo /\ new.mine = k.mine
            /\ new.entity = k.entity /\ k.entity.row.session = Null
  BY <1>0, <1>1, UpdateFlagStep
<1>8. Negotiated' = Negotiated
  BY <1>4 DEF Negotiated, MatchedSessions
<1>9. new # Idle => Distinct(c)'
  BY <1>0, <1>1, <1>2, <1>3, <1>4, <1>7 DEF Distinct, Apart
<1>10. new # Idle => Current(c)'
  BY <1>1, <1>3, <1>6, <1>7, <1>8 DEF Current, RecordStage
<1>. QED
  BY <1>1, <1>2, <1>4, <1>5, <1>7, <1>9, <1>10, IdleState, CalmNegotiated
     DEF RecordStage

\* On with the handoff, or out of it, before a session is opened.
LEMMA HandoffNegotiated ==
    ASSUME Ordered, Alone, NegotiatedInOrder, NEW c \in Call,
           call[c].stage \in {"limit", "access", "pay", "grant"},
           UNCHANGED <<matches, sessions, twice>>,
           \A d \in Call \ {c} : call'[d] = call[d],
           NEW s \in {"access", "pay", "grant", "open", "next"},
           call'[c] = Idle \/ call'[c] = [call[c] EXCEPT !.stage = s]
    PROVE  NegotiatedInOrder'
<1>0. PICK k : k = call[c]
  OBVIOUS
<1>1. PICK new : new = call'[c]
  OBVIOUS
<1>2. Busy(c) /\ Distinct(c) /\ Current(c) /\ k \in CallState
  BY <1>0 DEF Busy, NegotiatedInOrder, Ordered, Types
<1>3. Negotiated' = Negotiated
  BY DEF Negotiated, MatchedSessions
<1>4. CASE new = Idle
  BY <1>1, <1>2, <1>4, IdleState, CalmNegotiated DEF RecordStage
<1>5. CASE new = [k EXCEPT !.stage = s]
  <2>1. /\ new.stage = s /\ new.kind = k.kind /\ new.todo = k.todo
        /\ new.mine = k.mine /\ new.entity = k.entity
    BY <1>2, <1>5 DEF CallState
  <2>2. HasEntity(c)' /\ s # "next" => HasEntity(c) /\ k.stage \in Handoff
    BY <1>0, <1>1, <2>1 DEF HasEntity, Handoff
  <2>3. "next" \notin Handoff
    BY DEF Handoff
  <2>4. Distinct(c)'
    BY <1>0, <1>1, <1>2, <2>1, <2>2, <2>3 DEF Distinct, Apart
  <2>5. Current(c)'
    BY <1>0, <1>1, <1>2, <1>3, <2>1, <2>2 DEF Current, RecordStage
  <2>. QED
    BY <1>2, <2>4, <2>5, CalmNegotiated DEF RecordStage
<1>. QED
  BY <1>0, <1>1, <1>4, <1>5

LEMMA PurchaseNegotiated ==
    ASSUME Ordered, Alone, NegotiatedInOrder, NEW c \in Call,
           CheckLimit(c) \/ Access(c) \/ Pay(c) \/ Grant(c)
    PROVE  NegotiatedInOrder'
<1>1. CASE CheckLimit(c)
  BY <1>1, CheckLimitStep, HandoffNegotiated DEF Leaves
<1>2. CASE Access(c) \/ Pay(c) \/ Grant(c)
  <2>1. call[c].stage \in {"limit", "access", "pay", "grant"}
    BY <1>2 DEF Access, Pay, Grant, At
  <2>2. PICK s \in {"access", "pay", "grant", "open", "next"} :
            call'[c] = Idle \/ call'[c] = [call[c] EXCEPT !.stage = s]
    BY <1>2, PurchaseStep DEF Leaves
  <2>. QED
    BY <1>2, <2>1, <2>2, PurchaseStep, HandoffNegotiated
<1>. QED
  BY <1>1, <1>2

LEMMA OpenNegotiated ==
    ASSUME Ordered, Alone, NegotiatedInOrder, NEW c \in Call, Open(c)
    PROVE  NegotiatedInOrder'
<1>0. PICK k : k = call[c]
  OBVIOUS
<1>1. PICK new : new = call'[c]
  OBVIOUS
<1>2. PICK s : s = Opened(k.entity.row.seeker, k.entity.row.job, TRUE)
  OBVIOUS
<1>3. /\ k.stage = "open" /\ InOrder(c) /\ UNCHANGED <<matches, twice>>
      /\ Busy(c) /\ Distinct(c) /\ Current(c) /\ HasEntity(c) /\ k.stage \in Handoff
  BY <1>0 DEF Open, At, Ordered, Busy, NegotiatedInOrder, InOrder, HasEntity,
              Handoff
<1>4. PICK p : p = PairOf(k.entity.row)
  OBVIOUS
<1>5. /\ p \notin Negotiated /\ k.entity.id \in DOMAIN matches
      /\ PairOf(matches[k.entity.id]) = p
      /\ \A n \in DOMAIN k.mine : Apart(PairOf(k.mine[n].row), p)
  BY <1>0, <1>3, <1>4 DEF InOrder, Copy, Current, Distinct
<1>6. /\ Len(sessions) \in Nat /\ DOMAIN sessions = 1 .. Len(sessions)
      /\ DOMAIN sessions' = 1 .. Len(sessions) + 1
      /\ \A n \in DOMAIN sessions : sessions'[n] = sessions[n]
      /\ sessions'[Len(sessions) + 1] = s
      /\ call' \in [Call -> CallState]
      /\ \A d \in Call \ {c} : call'[d] = call[d]
      /\ new.stage = "start" /\ new.kind = k.kind
      /\ new.todo = k.todo /\ new.mine = k.mine
      /\ new.entity.id = k.entity.id
      /\ PairOf(new.entity.row) = p
      /\ new.entity.row.session = Len(sessions) + 1
  BY <1>0, <1>1, <1>2, <1>4, OpenStep
<1>7. PairOf(s) = p /\ s.matched
  BY <1>2, <1>4 DEF Opened, PairOf
<1>8. \A n \in DOMAIN sessions' : n \in DOMAIN sessions \/ n = Len(sessions) + 1
  BY <1>6
<1>9. /\ MatchedSessions' = MatchedSessions \cup {Len(sessions) + 1}
      /\ Negotiated' \subseteq Negotiated \cup ({p} \ twice)
  <2>1. MatchedSessions' = MatchedSessions \cup {Len(sessions) + 1}
    BY <1>6, <1>7, <1>8 DEF MatchedSessions
  <2>2. \A n \in MatchedSessions : sessions'[n] = sessions[n]
    BY <1>6 DEF MatchedSessions
  <2>. QED
    BY <1>3, <1>6, <1>7, <2>1, <2>2 DEF Negotiated
<1>10. SessionsDiffer'
  <2>1. \A n \in MatchedSessions : /\ sessions'[n] = sessions[n]
                                   /\ n # Len(sessions) + 1
    BY <1>6 DEF MatchedSessions
  <2>2. \A n \in MatchedSessions : PairOf(sessions[n]) = p => p \in twice
    BY <1>5 DEF Negotiated
  <2>. QED
    BY <1>3, <1>6, <1>7, <1>9, <2>1, <2>2
       DEF NegotiatedInOrder, SessionsDiffer, Apart
<1>11. SessionsMatched'
  BY <1>3, <1>5, <1>6, <1>7, <1>9
     DEF NegotiatedInOrder, SessionsMatched, MatchedSessions
<1>12. Recorded'
  <2>. SUFFICES ASSUME NEW m \in DOMAIN matches, PairOf(matches[m]) \in Negotiated',
                       matches[m].session = Null
                PROVE  m \in Recording'
    BY <1>3 DEF Recorded
  <2>1. PairOf(matches[m]) \notin Negotiated
    BY <1>0, <1>3, NobodyRecords DEF RecordStage
  <2>2. m = k.entity.id
    BY <1>5, <1>9, <2>1 DEF Alone, RowsDiffer
  <2>. QED
    BY <1>1, <1>6, <2>2 DEF Recording, RecordStage
<1>13. Distinct(c)'
  BY <1>0, <1>1, <1>3, <1>5, <1>6 DEF Distinct, Apart
<1>14. Current(c)'
  <2>1. \A n \in DOMAIN k.mine : k.mine[n].row.session = Null =>
            PairOf(k.mine[n].row) \notin Negotiated'
    BY <1>0, <1>3, <1>5, <1>9 DEF Current, Apart
  <2>2. new.entity.row.session \in Nat
    BY <1>6
  <2>. QED
    BY <1>1, <1>6, <2>1, <2>2 DEF Current, RecordStage
<1>. QED
  BY <1>3, <1>6, <1>10, <1>11, <1>12, <1>13, <1>14, NegotiatedStep

\* The sessions of matches change their state only.
SameMatched ==
    /\ MatchedSessions' = MatchedSessions
    /\ \A n \in MatchedSessions : PairOf(sessions'[n]) = PairOf(sessions[n])

LEMMA SameNegotiated ==
    ASSUME SameMatched, UNCHANGED twice
    PROVE  /\ Negotiated' = Negotiated
           /\ SessionsDiffer => SessionsDiffer'
           /\ SessionsMatched /\ UNCHANGED matches => SessionsMatched'
<1>1. Negotiated' = Negotiated
  BY DEF SameMatched, Negotiated
<1>2. SessionsDiffer => SessionsDiffer'
  BY DEF SameMatched, SessionsDiffer, Apart
<1>3. SessionsMatched /\ UNCHANGED matches => SessionsMatched'
  BY DEF SameMatched, SessionsMatched
<1>. QED
  BY <1>1, <1>2, <1>3

LEMMA SameSessionsMatched ==
    ASSUME SameSessions
    PROVE  SameMatched
BY DEF SameSessions, SameMatched, MatchedSessions

LEMMA StartNegotiated ==
    ASSUME Ordered, Alone, NegotiatedInOrder, NEW c \in Call, Start(c)
    PROVE  NegotiatedInOrder'
<1>0. PICK k : k = call[c]
  OBVIOUS
<1>1. PICK new : new = call'[c]
  OBVIOUS
<1>2. PICK n : n = k.entity.row.session
  OBVIOUS
<1>3. /\ k.stage = "start" /\ InOrder(c) /\ UNCHANGED <<matches, twice>>
      /\ Busy(c) /\ Distinct(c) /\ Current(c) /\ n \in DOMAIN sessions
      /\ sessions' = [sessions EXCEPT ![n].state = "STARTED"]
      /\ Goto(c, "selectRecord")
  BY <1>0, <1>2, StartAlone
     DEF Start, Started, At, Ordered, Busy, NegotiatedInOrder, InOrder
<1>4. SameMatched
  BY <1>3, StateStep, SameSessionsMatched DEF Ordered
<1>5. /\ Negotiated' = Negotiated
      /\ SessionsDiffer' /\ SessionsMatched'
  BY <1>3, <1>4, SameNegotiated DEF NegotiatedInOrder
<1>6. "selectRecord" \in Stage \ {"idle"}
  BY DEF Stage, Handoff
<1>7. /\ \A d \in Call \ {c} : call'[d] = call[d]
      /\ new.stage = "selectRecord" /\ new.kind = k.kind
      /\ new.todo = k.todo /\ new.mine = k.mine /\ new.entity = k.entity
  BY <1>0, <1>1, <1>3, <1>6, GotoStep DEF Ordered
<1>8. Distinct(c)'
  BY <1>0, <1>1, <1>3, <1>7 DEF Distinct, Apart, HasEntity, Handoff
<1>9. Current(c)'
  BY <1>0, <1>1, <1>3, <1>5, <1>7 DEF Current, RecordStage
<1>10. Recording' = Recording
  BY <1>0, <1>1, <1>3, <1>7 DEF Recording, RecordStage
<1>11. Recorded'
  BY <1>3, <1>5, <1>10 DEF NegotiatedInOrder, Recorded
<1>. QED
  BY <1>3, <1>5, <1>7, <1>8, <1>9, <1>11, NegotiatedStep

LEMMA RecordNegotiated ==
    ASSUME Ordered, Alone, NegotiatedInOrder, NEW c \in Call, Record(c)
    PROVE  NegotiatedInOrder'
<1>0. PICK k : k = call[c]
  OBVIOUS
<1>1. PICK new : new = call'[c]
  OBVIOUS
<1>2. /\ k.stage = "updateRecord" /\ Update(c) /\ HasEntity(c) /\ InOrder(c)
      /\ Busy(c) /\ Distinct(c) /\ Current(c) /\ Goto(c, "next")
  BY <1>0 DEF Record, At, HasEntity, Handoff, Ordered, Busy, NegotiatedInOrder,
              InOrder
<1>3. k.seen = matches[k.entity.id] /\ k.entity.row.session \in Nat
  BY <1>0, <1>2 DEF Current, RecordStage
<1>4. /\ UNCHANGED <<sessions, twice>> /\ DOMAIN matches' = DOMAIN matches
      /\ \A m \in DOMAIN matches : PairOf(matches'[m]) = PairOf(matches[m])
      /\ \A m \in DOMAIN matches \ {k.entity.id} : matches'[m] = matches[m]
      /\ matches'[k.entity.id] = k.entity.row
  BY <1>0, <1>2, <1>3, UpdateFacts
<1>5. Negotiated' = Negotiated /\ SessionsDiffer' /\ SessionsMatched'
  BY <1>4 DEF Negotiated, NegotiatedInOrder, SessionsDiffer, SessionsMatched,
              MatchedSessions, Apart
<1>6. "next" \in Stage \ {"idle"}
  BY DEF Stage
<1>7. /\ \A d \in Call \ {c} : call'[d] = call[d]
      /\ new.stage = "next" /\ new.todo = k.todo /\ new.mine = k.mine
  BY <1>0, <1>1, <1>2, <1>6, GotoStep DEF Ordered
<1>8. Distinct(c)'
  BY <1>0, <1>1, <1>2, <1>4, <1>7 DEF Distinct, Apart, HasEntity, Handoff
<1>9. Current(c)'
  BY <1>0, <1>1, <1>2, <1>5, <1>7 DEF Current, HasEntity, RecordStage
<1>10. Recorded'
  <2>. SUFFICES ASSUME NEW m \in DOMAIN matches,
                       PairOf(matches[m]) \in Negotiated,
                       matches'[m].session = Null
                PROVE  FALSE
    BY <1>4, <1>5 DEF Recorded
  <2>1. m # k.entity.id
    BY <1>3, <1>4, MatchingAssumption
  <2>2. m \in Recording
    BY <1>4, <2>1 DEF NegotiatedInOrder, Recorded
  <2>3. PICK d \in Call : call[d].stage \in RecordStage /\ call[d].entity.id = m
    BY <2>2 DEF Recording
  <2>4. d = c
    BY <1>2, <2>3 DEF Alone, OneAtATime, Busy, RecordStage
  <2>. QED
    BY <1>0, <2>1, <2>3, <2>4
<1>. QED
  BY <1>2, <1>5, <1>7, <1>8, <1>9, <1>10, NegotiatedStep

\* What is no call's step.
LEMMA SessionsNegotiated ==
    ASSUME NegotiatedInOrder, UNCHANGED <<matches, call, twice>>, SameMatched
    PROVE  NegotiatedInOrder'
<1>1. /\ Negotiated' = Negotiated
      /\ SessionsDiffer' /\ SessionsMatched'
  BY SameNegotiated DEF NegotiatedInOrder
<1>2. Recorded'
  BY <1>1 DEF NegotiatedInOrder, Recorded, Recording
<1>3. ASSUME NEW c \in Call, Busy(c)' PROVE Distinct(c)' /\ Current(c)'
  <2>1. Busy(c) /\ Distinct(c) /\ Current(c)
    BY <1>3 DEF Busy, NegotiatedInOrder
  <2>2. Distinct(c)'
    BY <2>1 DEF Distinct, Apart, HasEntity
  <2>3. Current(c)'
    BY <1>1, <2>1 DEF Current, HasEntity
  <2>. QED
    BY <2>2, <2>3
<1>. QED
  BY <1>1, <1>2, <1>3 DEF NegotiatedInOrder

LEMMA CreateKeepsMatched ==
    ASSUME Types, NEW s \in Seeker, NEW j \in Job, CreateSession(s, j)
    PROVE  SameMatched
<1>1. /\ Len(sessions) \in Nat /\ DOMAIN sessions = 1 .. Len(sessions)
      /\ DOMAIN sessions' = 1 .. Len(sessions) + 1
      /\ \A n \in DOMAIN sessions : sessions'[n] = sessions[n]
      /\ ~sessions'[Len(sessions) + 1].matched
  BY CreateStep
<1>2. /\ \A n \in DOMAIN sessions' : n \in DOMAIN sessions \/ n = Len(sessions) + 1
      /\ \A n \in DOMAIN sessions : n \in DOMAIN sessions'
  BY <1>1
<1>. QED
  BY <1>1, <1>2 DEF SameMatched, MatchedSessions

LEMMA StaysFaulty ==
    ASSUME faults \in Nat, [Next]_vars
    PROVE  /\ faults' \in Nat /\ faults' >= faults
           /\ \A c \in Call : Fail(c) => faults' > 0
<1>1. \A c \in Call : Fail(c) => faults' = faults + 1
  BY DEF Fail
<1>2. ASSUME NEW c \in Call, Begins(c) PROVE UNCHANGED faults
  BY <1>2, BeginsCountsNoFault
<1>3. ASSUME NEW c \in Call, Run(c) PROVE UNCHANGED faults
  BY <1>3, RunCountsNothing
<1>4. ASSUME \/ \E n \in DOMAIN sessions : SessionFails(n) \/ StartSession(n)
             \/ \E s \in Seeker, j \in Job : CreateSession(s, j)
             \/ \E x \in Job \cup Seeker : Relist(x)
      PROVE  UNCHANGED faults
  BY <1>4 DEF SessionFails, StartSession, CreateSession, Relist
<1>5. ASSUME UNCHANGED vars PROVE UNCHANGED faults
  BY <1>5 DEF vars
<1>6. faults' = faults \/ faults' = faults + 1
  BY <1>1, <1>2, <1>3, <1>4, <1>5, NextIsStep
<1>7. \A c \in Call : Fail(c) => faults' > 0
  BY <1>1
<1>. QED
  BY <1>6, <1>7

Calm == ~overlapped /\ faults = 0 => PaidInOrder /\ NegotiatedInOrder

LEMMA CalmInductive ==
    OrderedAlone /\ Calm /\ [Next]_vars => Calm'
<1>. SUFFICES ASSUME OrderedAlone, Calm, [Next]_vars,
                     ~overlapped', faults' = 0
              PROVE  PaidInOrder' /\ NegotiatedInOrder'
  BY DEF Calm
<1>1. /\ Ordered /\ Alone /\ PaidInOrder /\ NegotiatedInOrder
      /\ \A c \in Call : ~Fail(c)
  <2>1. faults \in Nat
    BY DEF OrderedAlone, Ordered, Types
  <2>2. faults = 0 /\ \A c \in Call : ~Fail(c)
    BY <2>1, StaysFaulty
  <2>. QED
    BY <2>2, StaysOverlapped DEF OrderedAlone, Calm
<1>2. ASSUME NEW c \in Call, Run(c)
      PROVE  PaidInOrder' /\ NegotiatedInOrder'
  <2>1. PaidInOrder'
    BY <1>1, <1>2, ElsewherePaid, AccessPaid, PayPaid, GrantPaid DEF Run
  <2>2. NegotiatedInOrder'
    BY <1>1, <1>2, FindNegotiated, InsertNegotiated, SaveSelectNegotiated,
       UpdateScoreNegotiated, NextMatchNegotiated, UpdateFlagNegotiated,
       PurchaseNegotiated, OpenNegotiated, StartNegotiated, RecordNegotiated
       DEF Run
  <2>. QED
    BY <2>1, <2>2
<1>3. ASSUME NEW c \in Call, Begins(c)
      PROVE  PaidInOrder' /\ NegotiatedInOrder'
  BY <1>1, <1>3, BeginsPaid, BeginsNegotiated
<1>4. ASSUME UNCHANGED <<matches, grants, payments, call, twice>>, SameMatched
      PROVE  PaidInOrder' /\ NegotiatedInOrder'
  BY <1>1, <1>4, SessionsPaid, SessionsNegotiated
<1>5. ASSUME NEW n \in DOMAIN sessions, SessionFails(n) \/ StartSession(n)
      PROVE  PaidInOrder' /\ NegotiatedInOrder'
  <2>1. UNCHANGED <<matches, grants, payments, call, twice>>
    BY <1>5 DEF SessionFails, StartSession
  <2>2. SameMatched
    BY <1>1, <1>5, StateStep, SameSessionsMatched
       DEF SessionFails, StartSession, Started, Ordered
  <2>. QED
    BY <1>4, <2>1, <2>2
<1>6. ASSUME NEW s \in Seeker, NEW j \in Job, CreateSession(s, j)
      PROVE  PaidInOrder' /\ NegotiatedInOrder'
  BY <1>1, <1>4, <1>6, CreateKeepsMatched DEF CreateSession, Ordered
<1>7. ASSUME UNCHANGED vars \/ \E x \in Job \cup Seeker : Relist(x)
      PROVE  PaidInOrder' /\ NegotiatedInOrder'
  <2>1. UNCHANGED <<matches, grants, payments, sessions, call, twice>>
    BY <1>7 DEF vars, Relist
  <2>2. SameMatched
    BY <2>1 DEF SameMatched, MatchedSessions
  <2>. QED
    BY <1>4, <2>1, <2>2
<1>. QED
  BY <1>1, <1>2, <1>3, <1>5, <1>6, <1>7, NextIsStep

LEMMA CalmInitially == Init => Calm
<1>. SUFFICES ASSUME Init PROVE PaidInOrder /\ NegotiatedInOrder
  BY DEF Calm
<1>1. /\ matches = <<>> /\ sessions = <<>>
      /\ \A c \in Call : call[c].stage = "idle"
      /\ \A d \in Deal : grants[d] = 0 /\ payments[d] = 0
  BY IdleState DEF Init
<1>2. PaidInOrder
  BY <1>1 DEF PaidInOrder, Paying
<1>3. SessionsDiffer /\ SessionsMatched /\ Recorded
  BY <1>1 DEF SessionsDiffer, SessionsMatched, MatchedSessions, Recorded
<1>. QED
  BY <1>1, <1>2, <1>3 DEF NegotiatedInOrder, Busy

LEMMA CalmHolds == Spec => [](OrderedAlone /\ Calm)
<1>1. Init => OrderedAlone /\ Calm
  BY OrderedInitially, AloneInitially, CalmInitially DEF OrderedAlone
<1>2. OrderedAlone /\ Calm /\ [Next]_vars => (OrderedAlone /\ Calm)'
  BY AloneInductive, CalmInductive
<1>. QED
  BY <1>1, <1>2, PTL DEF Spec

\* As long as no calls overlap and none fails, an employer pays for the profile
\* of a seeker once, if the hash of the payment can be stored.
THEOREM ProfilesArePaidOnce == Spec => []PaidOnce
<1>1. OrderedAlone /\ Calm => PaidOnce
  <2>. SUFFICES ASSUME OrderedAlone, Calm, ~overlapped, ~(faults > 0)
                PROVE  \A d \in Deal : TxHashFits(d) => payments[d] <= 1
    BY DEF PaidOnce
  <2>1. faults \in Nat
    BY DEF OrderedAlone, Ordered, Types
  <2>2. faults = 0
    BY <2>1
  <2>. QED
    BY <2>2 DEF Calm, PaidInOrder
<1>. QED
  BY <1>1, CalmHolds, PTL

\* As long as no calls overlap and none fails, matches open one negotiation of
\* each pair, even when it failed and matching, a retry or both parties'
\* agreement comes across the pair again; unless an answer of the reranker
\* named the pair twice, which nothing in the code prevents.
THEOREM PairsNegotiateOnce == Spec => []NegotiatedOnce
<1>1. OrderedAlone /\ Calm => NegotiatedOnce
  <2>. SUFFICES ASSUME OrderedAlone, Calm, ~overlapped, ~(faults > 0)
                PROVE  SessionsDiffer
    BY DEF NegotiatedOnce, SessionsDiffer, MatchedSessions, Apart, PairOf
  <2>1. faults \in Nat
    BY DEF OrderedAlone, Ordered, Types
  <2>2. faults = 0
    BY <2>1
  <2>. QED
    BY <2>2 DEF Calm, NegotiatedInOrder
<1>. QED
  BY <1>1, CalmHolds, PTL
=============================================================================
