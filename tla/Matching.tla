------------------------------ MODULE Matching ------------------------------
(***************************************************************************)
(* From a match to a paid and started negotiation: the match service       *)
(* (backend/src/match/match.service.ts), the handoff it calls               *)
(* (negotiation/real-negotiation-handoff.ts) and the purchase of a profile *)
(* view in it (profile/profile.service.ts, escrow/real-escrow-payment.ts). *)
(* POST negotiation/sessions opens and starts sessions past all of these.  *)
(*                                                                         *)
(* A Call is one request, event or cron pass.  Between any two of its      *)
(* statements others run: nothing is locked, there is no transaction and no *)
(* unique constraint.  matchRepo.save of a loaded entity is a SELECT and an *)
(* UPDATE of the columns that differ (EntitySave).  Scores and ranks are   *)
(* left out; the reranker's answer is any list of eligible pairs: the AI   *)
(* client neither drops an index named twice nor checks its range (one out *)
(* of range throws, which is a failing statement here).                    *)
(*                                                                         *)
(* An operator whose name has an underscore is a plausible bug in the      *)
(* definition after it: the checked properties must notice it in that      *)
(* definition's place.                                                     *)
(***************************************************************************)
EXTENDS Naturals, Sequences, FiniteSets, SequencesExt, EntitySave

CONSTANTS
    Seeker, Job, Employer,
    EmployerOf,     \* job.employerId
    Resume,         \* per seeker: [min, max, skills]; a salary is a sequence of
                    \* digits or Null: bigint columns are read as text
    Posting,        \* per job: [min, max, skills], skills are the required ones
    AccountLength,  \* length of each user's nearAccountId
    AutoNegLimit,   \* user.autoNegLimit of every seeker
    RerankLimit,    \* matchForSeeker's and matchForJob's parameter limit
    Call,           \* the calls that may run at the same time
    MaxCalls,       \* bound of the model: requests ever made one by one
    MaxOverlapping, \* bound of the model: requests ever made if some overlap
    MaxFaults,      \* bound of the model: failing statements and requests
    MaxRows,        \* bound of the model: match rows, and sessions
    MaxRelisted,    \* bound of the model: changes of a status column
    Null

User == Seeker \cup Employer
Deal == Employer \X Seeker

ASSUME MatchingAssumption ==
    /\ IsFiniteSet(Call) /\ Call # {}
    /\ Seeker \cap Employer = {}
    /\ EmployerOf \in [Job -> Employer]
    /\ AccountLength \in [User -> Nat]
    /\ Null \notin Nat
    /\ {AutoNegLimit, RerankLimit, MaxCalls, MaxOverlapping, MaxFaults, MaxRows,
        MaxRelisted} \subseteq Nat

VARIABLES
    matches,   \* the match_result table; a row's place is its id
    grants,    \* number of profile_access_grant rows per employer and seeker
    payments,  \* number of views paid on chain per employer and seeker
    sessions,  \* the negotiation_session table: seeker, job, state, and
               \* (history) whether a match or a request opened it
    listed,    \* the jobs that are ACTIVE, the seekers whose resume is COMPLETE
    relisted,
    call,      \* what each call has in hand
    began, faults,
    overlapped,\* history: two calls were under way at once
    twice      \* history: the pairs a reranker's answer named more than once

listing == <<listed, relisted>>
vars == <<matches, grants, payments, sessions, listing, call, began, faults,
          overlapped, twice>>

\* The stages in createSession and what follows it.
Handoff == {"limit", "access", "pay", "grant", "open", "start", "selectRecord",
            "updateRecord"}

\* todo: the pairs a match run still has to store; mine: the entities it may
\* negotiate for; entity: the one in work; seen: what its save's SELECT
\* returned; deal: the purchase in work.
Idle == [stage |-> "idle", kind |-> "match", todo |-> <<>>, mine |-> <<>>,
         entity |-> Null, seen |-> Null, deal |-> Null]

-----------------------------------------------------------------------------
\* The filters between the vector search and the reranker.

\* <= of two strings: the first digit that differs decides.
TextLeq(a, b) ==
    \/ IsPrefix(a, b)
    \/ \E n \in DOMAIN a \cap DOMAIN b :
           a[n] < b[n] /\ SubSeq(a, 1, n - 1) = SubSeq(b, 1, n - 1)

\* Two ranges overlap; a missing bound passes.
SalaryOverlaps_BothMinima(a, b) ==
    Null \notin {a.min, a.max, b.min, b.max} =>
        TextLeq(a.min, b.min) /\ TextLeq(b.min, a.max)
SalaryOverlaps(a, b) ==
    Null \notin {a.min, a.max, b.min, b.max} =>
        TextLeq(a.min, b.max) /\ TextLeq(b.min, a.max)

\* At least half of the required skills, if any are required.
SkillCoverageOk(has, required) ==
    2 * Cardinality(has \cap required) >= Cardinality(required)

\* matchForJob passes the two sides to salaryOverlaps the other way round.
PassesForSeeker(s, j) ==
    /\ SalaryOverlaps(Resume[s], Posting[j])
    /\ SkillCoverageOk(Resume[s].skills, Posting[j].skills)
PassesForJob(s, j) ==
    /\ SalaryOverlaps(Posting[j], Resume[s])
    /\ SkillCoverageOk(Resume[s].skills, Posting[j].skills)

\* Whom the query of each direction finds and its filters let through.  Only
\* the other side's status is asked for: ACTIVE postings, COMPLETE resumes.
JobsFor(s) == {j \in Job \cap listed : PassesForSeeker(s, j)}
SeekersFor(j) == {s \in Seeker \cap listed : PassesForJob(s, j)}

\* The batches a run may store: what the reranker scores 0.5 or more, ranked.
Ranked(pairs) == BoundedSeq(pairs, RerankLimit)
BatchesForSeeker(s) == Ranked({s} \X JobsFor(s))
BatchesForJob(j) == Ranked(SeekersFor(j) \X {j})

Repeated(batch) ==
    {batch[n] : n \in {i \in DOMAIN batch : \E k \in DOMAIN batch \ {i} :
                                                batch[k] = batch[i]}}

-----------------------------------------------------------------------------

NewRow(s, j) == [seeker |-> s, job |-> j, seekerAgreed |-> FALSE,
                 employerAgreed |-> FALSE, session |-> Null]

Init ==
    /\ matches = <<>>
    /\ grants = [d \in Deal |-> 0]
    /\ payments = [d \in Deal |-> 0]
    /\ sessions = <<>>
    /\ listed = Job \cup Seeker
    /\ relisted = 0
    /\ call = [c \in Call |-> Idle]
    /\ began = 0 /\ faults = 0
    /\ overlapped = FALSE
    /\ twice = {}

At(c, s) == call[c].stage = s
Put(c, r) == call' = [call EXCEPT ![c] = IF r.stage = "idle" THEN Idle ELSE r]
Goto(c, s) == Put(c, [call[c] EXCEPT !.stage = s])
OnlyCall == UNCHANGED <<matches, grants, payments, sessions, listing, began,
                        faults, overlapped, twice>>

\* A request comes in, perhaps while a call is under way.
Requested ==
    /\ overlapped' = (overlapped \/ \E d \in Call : ~At(d, "idle"))
    /\ began < IF overlapped' THEN MaxOverlapping ELSE MaxCalls
    /\ began' = began + 1

Begin(c, r) ==
    /\ At(c, "idle")
    /\ Requested
    /\ Put(c, r)
    /\ twice' = twice \cup Repeated(r.todo)
    /\ UNCHANGED <<matches, grants, payments, sessions, listing, faults>>

\* matchForSeeker: after an event, by cron or by POST match/me/refresh.
MatchForSeeker(c, s) == \E batch \in BatchesForSeeker(s) :
    Begin(c, [Idle EXCEPT !.stage = "find", !.todo = batch])

\* matchForJob: after a job's embedding or by POST match/job/:id/refresh.
MatchForJob(c, j) == \E batch \in BatchesForJob(j) :
    Begin(c, [Idle EXCEPT !.stage = "find", !.todo = batch])

\* retryNegotiateForSeeker reads the rows without a session at once.
Pending(s) == {m \in DOMAIN matches : matches[m].seeker = s /\ matches[m].session = Null}
Retry(c, s) ==
    LET ids == SetToSeq(Pending(s))
    IN  Begin(c, [Idle EXCEPT !.stage = "next", !.kind = "retry",
            !.mine = [n \in DOMAIN ids |-> [id |-> ids[n], row |-> matches[ids[n]]]]])

\* agree: read, check, set the caller's flag.  Role and ownership go together.
Agree(c, m, user) ==
    /\ user \in {matches[m].seeker, EmployerOf[matches[m].job]}
    /\ Begin(c, [Idle EXCEPT !.stage = "selectFlag", !.kind = "agree",
           !.entity = [id |-> m, row |->
               [matches[m] EXCEPT !.seekerAgreed = @ \/ user \in Seeker,
                                  !.employerAgreed = @ \/ user \in Employer]]])

\* POST profile/:seekerId/access
RequestAccess(c, d) ==
    Begin(c, [Idle EXCEPT !.stage = "access", !.kind = "access", !.deal = d])

-----------------------------------------------------------------------------
\* Storing the matches of a run.

\* The rows findOne may return for a pair.
Existing_NotFound(pair) == {}
Existing(pair) ==
    {m \in DOMAIN matches : <<matches[m].seeker, matches[m].job>> = pair}

Find(c) ==
    LET todo == call[c].todo
    IN  /\ At(c, "find")
        /\ \/ todo = <<>> /\ Goto(c, "next")
           \/ todo # <<>> /\ Existing(Head(todo)) = {} /\ Goto(c, "insert")
           \/ /\ todo # <<>>
              /\ \E m \in Existing(Head(todo)) : Put(c, [call[c] EXCEPT
                     !.stage = "selectScore",
                     !.entity = [id |-> m, row |-> matches[m]]])
        /\ OnlyCall

\* The saved entity is one of the run's matches; the next pair follows.
Stored(c, e) == Put(c, [call[c] EXCEPT
    !.stage = "find", !.todo = Tail(@), !.mine = Append(@, e)])

Insert(c) ==
    LET row == NewRow(Head(call[c].todo)[1], Head(call[c].todo)[2])
    IN  /\ At(c, "insert")
        /\ Len(matches) < MaxRows
        /\ matches' = Append(matches, row)
        /\ Stored(c, [id |-> Len(matches) + 1, row |-> row])
        /\ UNCHANGED <<grants, payments, sessions, listing, began, faults,
                       overlapped, twice>>

\* The SELECT and the UPDATE of each of the three saves.
SaveSelect(c) ==
    /\ call[c].stage \in {"selectScore", "selectFlag", "selectRecord"}
    /\ Put(c, [call[c] EXCEPT
           !.seen = matches[call[c].entity.id],
           !.stage = CASE @ = "selectScore" -> "updateScore"
                       [] @ = "selectFlag"  -> "updateFlag"
                       [] OTHER             -> "updateRecord"])
    /\ OnlyCall

Update(c) ==
    /\ matches' = [matches EXCEPT
           ![call[c].entity.id] = Saved(@, call[c].seen, call[c].entity.row)]
    /\ UNCHANGED <<grants, payments, sessions, listing, began, faults, overlapped,
                   twice>>

UpdateScore(c) == At(c, "updateScore") /\ Update(c) /\ Stored(c, call[c].entity)

-----------------------------------------------------------------------------
\* Deciding to negotiate.

NotNegotiated_Forgotten(row) == TRUE
NotNegotiated(row) == row.session = Null

\* autoNegotiate and agree hand a match over with its employer and seeker.
Dealt(row) == <<EmployerOf[row.job], row.seeker>>

\* The loop over the run's matches, up to the handoff of autoNegotiate.
NextMatch(c) ==
    LET mine == call[c].mine
        rest == [call[c] EXCEPT !.mine = Tail(mine)]
        row  == Head(mine).row
    IN  /\ At(c, "next")
        /\ \/ mine = <<>> /\ Goto(c, "idle")
           \/ mine # <<>> /\ ~NotNegotiated(row) /\ Put(c, rest)
           \/ /\ mine # <<>> /\ NotNegotiated(row)
              /\ Put(c, [rest EXCEPT !.stage = "limit", !.deal = Dealt(row),
                     !.entity = [id |-> Head(mine).id, row |->
                         [row EXCEPT !.seekerAgreed = TRUE, !.employerAgreed = TRUE]]])
        /\ OnlyCall

\* agree: the flag is stored; the second one starts the negotiation.
UpdateFlag(c) ==
    LET row == call[c].entity.row
    IN  /\ At(c, "updateFlag")
        /\ Update(c)
        /\ IF row.seekerAgreed /\ row.employerAgreed /\ NotNegotiated(row)
           THEN Put(c, [call[c] EXCEPT !.stage = "limit", !.deal = Dealt(row)])
           ELSE Goto(c, "idle")

\* An exception: autoNegotiate catches it and the loop goes on, any other call
\* ends with an error.
Throw(c) ==
    Goto(c, IF call[c].kind \in {"match", "retry"} /\ call[c].stage \in Handoff
            THEN "next" ELSE "idle")

-----------------------------------------------------------------------------
\* The handoff: limit, purchase, session.

Active(s) == {n \in DOMAIN sessions :
                 sessions[n].seeker = s /\ sessions[n].state # "FAILED"}
ActiveCount(s) == Cardinality(Active(s))
ActiveMatched(s) == Cardinality({n \in Active(s) : sessions[n].matched})

AtLimit_OneMore(s) == ActiveCount(s) > AutoNegLimit
AtLimit(s) == ActiveCount(s) >= AutoNegLimit

\* At the limit createSession returns '' as session id, which is no uuid: the
\* save of the match throws.
CheckLimit(c) ==
    /\ At(c, "limit")
    /\ IF AtLimit(call[c].deal[2]) THEN Throw(c) ELSE Goto(c, "access")
    /\ OnlyCall

Bought(c) == Goto(c, IF call[c].kind = "access" THEN "idle" ELSE "open")

HasGrant_Never(d) == FALSE
HasGrant_OfAnyone(d) == \E e \in Employer : grants[<<e, d[2]>>] > 0
HasGrant(d) == grants[d] > 0

\* requestAccess: an existing grant is enough.  The balance is read, but
\* compared with zero, so it refuses nobody.
Access(c) ==
    /\ At(c, "access")
    /\ IF HasGrant(call[c].deal) THEN Bought(c) ELSE Goto(c, "pay")
    /\ OnlyCall

\* pay_for_profile on chain; the employer's escrow is large enough here.
Paid(c) == payments' = [payments EXCEPT ![call[c].deal] = @ + 1]
Pay(c) ==
    /\ At(c, "pay")
    /\ Paid(c)
    /\ Goto(c, "grant")
    /\ UNCHANGED <<matches, grants, sessions, listing, began, faults, overlapped,
                   twice>>

\* near_tx_hash varchar(64) holds pay-<employer>-<seeker>-<13 digits>.
TxHashFits(d) == 19 + AccountLength[d[1]] + AccountLength[d[2]] <= 64

Grant(c) ==
    /\ At(c, "grant")
    /\ IF TxHashFits(call[c].deal)
       THEN grants' = [grants EXCEPT ![call[c].deal] = @ + 1] /\ Bought(c)
       ELSE Throw(c) /\ UNCHANGED grants
    /\ UNCHANGED <<matches, payments, sessions, listing, began, faults, overlapped,
                   twice>>

\* NegotiationService.createSession, then startNegotiation.
Opened(s, j, matched) ==
    [seeker |-> s, job |-> j, state |-> "INITIATED", matched |-> matched]
Open(c) ==
    /\ At(c, "open")
    /\ Len(sessions) < MaxRows
    /\ sessions' = Append(sessions, Opened(call[c].entity.row.seeker,
                                           call[c].entity.row.job, TRUE))
    /\ Put(c, [call[c] EXCEPT !.stage = "start",
                              !.entity.row.session = Len(sessions) + 1])
    /\ UNCHANGED <<matches, grants, payments, listing, began, faults, overlapped,
                   twice>>

\* startNegotiation throws if a request has started the session before.
MayStart(n) == sessions[n].state = "INITIATED"
Started(n) == sessions' = [sessions EXCEPT ![n].state = "STARTED"]
Start(c) ==
    LET n == call[c].entity.row.session
    IN  /\ At(c, "start")
        /\ IF MayStart(n) THEN Started(n) /\ Goto(c, "selectRecord")
                          ELSE Throw(c) /\ UNCHANGED sessions
        /\ UNCHANGED <<matches, grants, payments, listing, began, faults,
                       overlapped, twice>>

\* The session's id is saved with the match.
Record(c) == At(c, "updateRecord") /\ Update(c) /\ Goto(c, "next")

-----------------------------------------------------------------------------
\* What else happens.

\* A failing statement or request.  A payment may have gone through although
\* its answer was lost.
Fail(c) ==
    /\ ~At(c, "idle")
    /\ faults < MaxFaults
    /\ faults' = faults + 1
    /\ Throw(c)
    /\ UNCHANGED payments \/ (At(c, "pay") /\ Paid(c))
    /\ UNCHANGED <<matches, grants, sessions, listing, began, overlapped, twice>>

\* POST negotiation/sessions: any job and any seeker, whatever was matched or
\* paid and however many negotiations the seeker has.
CreateSession(s, j) ==
    /\ Requested
    /\ Len(sessions) < MaxRows
    /\ sessions' = Append(sessions, Opened(s, j, FALSE))
    /\ UNCHANGED <<matches, grants, payments, listing, call, faults, twice>>

\* POST negotiation/sessions/:id/start
StartSession(n) ==
    /\ Requested
    /\ MayStart(n)
    /\ Started(n)
    /\ UNCHANGED <<matches, grants, payments, listing, call, faults, twice>>

\* A posting is published or closed, a resume completed or made again.
Relist(x) ==
    /\ relisted < MaxRelisted
    /\ relisted' = relisted + 1
    /\ listed' = IF x \in listed THEN listed \ {x} ELSE listed \cup {x}
    /\ UNCHANGED <<matches, grants, payments, sessions, call, began, faults,
                   overlapped, twice>>

\* A started negotiation ends without an agreement.
SessionFails(n) ==
    /\ sessions[n].state = "STARTED"
    /\ sessions' = [sessions EXCEPT ![n].state = "FAILED"]
    /\ UNCHANGED <<matches, grants, payments, listing, call, began, faults,
                   overlapped, twice>>

Run(c) ==
    \/ Find(c) \/ Insert(c) \/ SaveSelect(c) \/ UpdateScore(c) \/ NextMatch(c)
    \/ UpdateFlag(c) \/ CheckLimit(c) \/ Access(c) \/ Pay(c) \/ Grant(c)
    \/ Open(c) \/ Start(c) \/ Record(c)

Next ==
    \/ \E c \in Call, s \in Seeker : MatchForSeeker(c, s) \/ Retry(c, s)
    \/ \E c \in Call, j \in Job : MatchForJob(c, j)
    \/ \E c \in Call, m \in DOMAIN matches, u \in User : Agree(c, m, u)
    \/ \E c \in Call, d \in Deal : RequestAccess(c, d)
    \/ \E c \in Call : Run(c) \/ Fail(c)
    \/ \E n \in DOMAIN sessions : SessionFails(n) \/ StartSession(n)
    \/ \E s \in Seeker, j \in Job : CreateSession(s, j)
    \/ \E x \in Job \cup Seeker : Relist(x)

Spec == Init /\ [][Next]_vars

-----------------------------------------------------------------------------
(***************************************************************************)
(* Properties.                                                             *)
(***************************************************************************)

\* However calls overlap or fail, a profile view is never granted without a
\* payment of its own, and no negotiation that a match opens is about a seeker
\* whose profile the employer has not paid for (requestAccess, createSession
\* of the handoff).  POST negotiation/sessions asks for no payment: a session
\* it opens may be about anybody.
NothingForFree ==
    /\ \A d \in Deal : grants[d] <= payments[d]
    /\ \A n \in DOMAIN sessions : sessions[n].matched =>
           grants[<<EmployerOf[sessions[n].job], sessions[n].seeker>>] > 0

\* Whichever direction stored a match, under whatever statuses then: while the
\* posting is ACTIVE and the resume COMPLETE, the query and the filters of both
\* directions let the pair through, so that no next run contradicts it (the
\* queries, salaryOverlaps, skillCoverageOk).  Each query asks for the other
\* side's status only: a run for a closed job stores matches that the seeker's
\* direction would not find.
MatchesBothWays ==
    \A m \in DOMAIN matches :
        LET s == matches[m].seeker
            j == matches[m].job
        IN  {s, j} \subseteq listed => j \in JobsFor(s) /\ s \in SeekersFor(j)

\* As long as calls do not overlap, whichever of their statements fail: no pair
\* is stored twice (the upsert).
OneRowPerPair ==
    overlapped \/ \A m, n \in DOMAIN matches :
        m # n => <<matches[m].seeker, matches[m].job>>
                     # <<matches[n].seeker, matches[n].job>>

\* The negotiations matches have opened for a seeker stay within the limit
\* (createSession's count), whatever fails and whatever requests open besides.
\* Calls that overlap may all count before one of them opens its session, so
\* each call beside the first may go one past it, and no more, however long
\* they keep running.
LimitRespected ==
    \A s \in Seeker : ActiveMatched(s) <=
        AutoNegLimit + IF overlapped THEN Cardinality(Call) - 1 ELSE 0

\* As long as no calls overlap and none fails: each profile is paid once, unless
\* the hash of its payment is too long to be stored, and matches open one
\* negotiation of a pair, even when the first one failed and matching runs
\* again, unless an answer of the reranker named the pair twice.
PaidOnce ==
    overlapped \/ faults > 0 \/ \A d \in Deal : TxHashFits(d) => payments[d] <= 1
NegotiatedOnce ==
    overlapped \/ faults > 0 \/ \A m, n \in DOMAIN sessions :
        LET pair == <<sessions[m].seeker, sessions[m].job>>
        IN  m # n /\ sessions[m].matched /\ sessions[n].matched
            /\ pair = <<sessions[n].seeker, sessions[n].job>> => pair \in twice

(***************************************************************************)
(* What a comment says, and the code does not do.                          *)
(***************************************************************************)

\* "Salary range overlap check": the salaries of a stored match overlap, as
\* numbers.  salaryOverlaps compares them as text.
Number(digits) == FoldLeft(LAMBDA n, d : 10 * n + d, 0, digits)
SalariesOverlap ==
    \A m \in DOMAIN matches :
        LET asked == Resume[matches[m].seeker]
            paid == Posting[matches[m].job]
        IN  Null \notin {asked.min, asked.max, paid.min, paid.max} =>
                /\ Number(asked.min) <= Number(paid.max)
                /\ Number(paid.min) <= Number(asked.max)
=============================================================================
