----------------------------- MODULE JobPosting -----------------------------
(***************************************************************************)
(* A job posting from the create page to its closing: the pages            *)
(* (frontend/src/app/jobs/create/page.tsx, jobs/page.tsx with               *)
(* lib/jobChatStorage.ts) and the service (backend/src/job/job.service.ts).*)
(*                                                                         *)
(* A call is a request of the employer or what the service does behind it. *)
(* Everything but creating a job is: read the entity, perhaps wait for the *)
(* AI, save the entity, which is a SELECT and an UPDATE of the columns that *)
(* differ (EntitySave).  Publishing leaves a background task that embeds    *)
(* the text and saves the entity read before.                              *)
(***************************************************************************)
EXTENDS Naturals, Sequences, FiniteSets, EntitySave

CONSTANTS
    Chat,        \* the conversations in the browser's storage
    Call,        \* calls that may be under way at the same time
    MaxJobs,     \* bound of the model: rows of job_posting
    MaxRequests, \* bound of the model: requests of the employer
    MaxRestarts, \* bound of the model: restarts of the server
    Null

VARIABLES
    rows,      \* the job_posting table; a job's place is its id
    calls,     \* what each call has in hand
    view,      \* the chat that is open, or "form"
    kept,      \* completedJob of each chat in the storage
    missing,   \* entities the startup's backfill still has to embed
    requests, restarts,
    unseen,    \* history: drafts whose answer came to no page
    stale,     \* history: jobs written over with an entity read earlier
    failed     \* history: jobs whose embedding failed

vars == <<rows, calls, view, kept, missing, requests, restarts,
          unseen, stale, failed>>

Draft(h) == [status |-> "DRAFT", boundary |-> FALSE, embedding |-> FALSE, chat |-> h]

Idle == [at |-> "idle", kind |-> "none", chat |-> "form", live |-> FALSE,
         job |-> 0, read |-> Null, entity |-> Null, seen |-> Null]

Init ==
    /\ rows = <<>>
    /\ calls = [c \in Call |-> Idle]
    /\ view = "form"
    /\ kept = [h \in Chat |-> 0]
    /\ missing = {}
    /\ requests = 0 /\ restarts = 0
    /\ unseen = {} /\ stale = {} /\ failed = {}

At(c, kind, s) == calls[c].kind = kind /\ calls[c].at = s
Put(c, r) == calls' = [calls EXCEPT ![c] = IF r.at = "idle" THEN Idle ELSE r]
Waiting(h) == \E c \in Call : calls[c].live /\ calls[c].chat = h

Begin(c, r) ==
    /\ calls[c].at = "idle"
    /\ requests < MaxRequests
    /\ requests' = requests + 1
    /\ Put(c, r)
    /\ UNCHANGED <<kept, missing, restarts, view, unseen, stale, failed>>

-----------------------------------------------------------------------------
\* The pages.

\* No page waits for a call any more: the service goes on with it, an answer on
\* its way comes to nobody.
Unawaited(c) ==
    IF calls[c].at = "answer" THEN Idle ELSE [calls[c] EXCEPT !.live = FALSE]
OnTheWay(cs) == {calls[c].job : c \in {d \in cs : calls[d].at = "answer"}}

\* Another tab or conversation, or a reload: the component is unmounted and an
\* answer under way will be thrown away.
Show(v) ==
    /\ view # v
    /\ view' = v
    /\ calls' = [c \in Call |-> Unawaited(c)]
    /\ unseen' = unseen \cup OnTheWay(Call)
    /\ UNCHANGED <<rows, kept, missing, requests, restarts, stale, failed>>

\* A request fails on its way or its answer is lost: the page asks the employer
\* to try again.  The form does not publish what it does not know to be made.
Lose(c) ==
    /\ calls[c].live
    /\ Put(c, Unawaited(c)) \/ (At(c, "publish", "read") /\ Put(c, Idle))
    /\ unseen' = unseen \cup OnTheWay({c})
    /\ UNCHANGED <<rows, view, kept, missing, requests, restarts, stale, failed>>

\* handleSend: nothing is sent while one is loading or once the job exists.
MaySend_Always(h) == TRUE
MaySend(h) == ~Waiting(h) /\ kept[h] = 0

Send(c, h) ==
    /\ view = h
    /\ MaySend(h)
    /\ Begin(c, [Idle EXCEPT !.kind = "chat", !.at = "ai", !.chat = h, !.live = TRUE])
    /\ UNCHANGED rows

\* chatCreateJob: the AI asks another question or fails; the page may send again.
Question(c) ==
    /\ At(c, "chat", "ai")
    /\ Put(c, Idle)
    /\ UNCHANGED <<rows, view, kept, missing, requests, restarts, unseen, stale, failed>>

\* chatCreateJob: the AI's posting is stored as a draft before the answer goes
\* out, to a page or to nobody.
MakeDraft(c) ==
    LET j == Len(rows) + 1
    IN  /\ At(c, "chat", "ai")
        /\ Len(rows) < MaxJobs
        /\ rows' = Append(rows, Draft(calls[c].chat))
        /\ IF calls[c].live
           THEN /\ Put(c, [calls[c] EXCEPT !.at = "answer", !.job = j])
                /\ UNCHANGED unseen
           ELSE Put(c, Idle) /\ unseen' = unseen \cup {j}
        /\ UNCHANGED <<view, kept, missing, requests, restarts, stale, failed>>

\* handleSend goes on: the draft goes into the page's state and the storage.
ChatAnswer(c) ==
    /\ At(c, "chat", "answer")
    /\ kept' = [kept EXCEPT ![calls[c].chat] = calls[c].job]
    /\ Put(c, Idle)
    /\ UNCHANGED <<rows, view, missing, requests, restarts, unseen, stale, failed>>

\* The form and its button, which is disabled while it is submitting.
MaySubmit == view = "form" /\ ~Waiting("form")

\* handleSubmit: create, then publish.
Submit(c) ==
    /\ MaySubmit
    /\ Len(rows) < MaxJobs
    /\ rows' = Append(rows, Draft("form"))
    /\ Begin(c, [Idle EXCEPT !.kind = "publish", !.at = "read", !.live = TRUE,
                             !.job = Len(rows) + 1])

\* The preview card's button: disabled while publishing and when published.
Publish(c) ==
    /\ view # "form" /\ kept[view] # 0
    /\ Begin(c, [Idle EXCEPT !.kind = "publish", !.at = "read", !.job = kept[view]])
    /\ UNCHANGED rows

\* The button of the job list, behind a question.
Close(c, j) ==
    /\ Begin(c, [Idle EXCEPT !.kind = "close", !.at = "read", !.job = j])
    /\ UNCHANGED rows

\* A message of the boundary conversation.
Boundary(c, j) ==
    /\ Begin(c, [Idle EXCEPT !.kind = "boundary", !.at = "read", !.job = j])
    /\ UNCHANGED rows

-----------------------------------------------------------------------------
\* The service.

OnlyCall == UNCHANGED <<rows, view, kept, missing, requests, restarts, unseen, stale>>

MayPublish(status) == status = "DRAFT"
MayClose(status) == status # "CLOSED"

\* getJob and the checks of publishJob, closeJob and chatSetBoundary.
Read(c) ==
    LET k   == calls[c].kind
        row == rows[calls[c].job]
        Got(status, at) == Put(c, [calls[c] EXCEPT !.at = at, !.read = row,
                                       !.entity = [row EXCEPT !.status = status]])
    IN  /\ calls[c].at = "read"
        /\ \/ k = "publish" /\ MayPublish(row.status) /\ Got("ACTIVE", "select")
           \/ k = "close" /\ MayClose(row.status) /\ Got("CLOSED", "select")
           \/ k = "boundary" /\ Got(row.status, "ai")
           \/ k = "publish" /\ ~MayPublish(row.status) /\ Put(c, Idle)
           \/ k = "close" /\ ~MayClose(row.status) /\ Put(c, Idle)
        /\ OnlyCall /\ UNCHANGED failed

\* The AI answers: a boundary or an embedding is put into the entity.
AiAnswer(c) ==
    /\ At(c, "boundary", "ai") \/ At(c, "embed", "ai")
    /\ Put(c, [calls[c] EXCEPT !.at = "select",
           !.entity.boundary = @ \/ calls[c].kind = "boundary",
           !.entity.embedding = @ \/ calls[c].kind = "embed"])
    /\ OnlyCall /\ UNCHANGED failed

\* It asks another question, answers nothing, or fails.
AiGivesUp(c) ==
    /\ At(c, "boundary", "ai") \/ At(c, "embed", "ai")
    /\ Put(c, Idle)
    /\ failed' = IF calls[c].kind = "embed" THEN failed \cup {calls[c].job} ELSE failed
    /\ OnlyCall

Select(c) ==
    /\ calls[c].at = "select"
    /\ Put(c, [calls[c] EXCEPT !.at = "update", !.seen = rows[calls[c].job]])
    /\ OnlyCall /\ UNCHANGED failed

\* publishJob hands the saved entity to the background task.
AfterUpdate_NoEmbedding(c) == Idle
AfterUpdate(c) ==
    IF calls[c].kind = "publish"
    THEN [calls[c] EXCEPT !.kind = "embed", !.at = "ai", !.live = FALSE,
                          !.read = calls[c].entity]
    ELSE Idle

\* The embedded job is matched (Matching).
Update(c) ==
    LET j == calls[c].job
    IN  /\ calls[c].at = "update"
        /\ rows' = [rows EXCEPT ![j] = Saved(@, calls[c].seen, calls[c].entity)]
        /\ Put(c, AfterUpdate(c))
        /\ stale' = IF rows[j] # calls[c].read THEN stale \cup {j} ELSE stale
        /\ UNCHANGED <<view, kept, missing, requests, restarts, unseen, failed>>

\* The server comes up again: every call is lost, backfillEmbeddings reads the
\* active jobs without an embedding and embeds them one by one.
Unembedded == {j \in DOMAIN rows : ~rows[j].embedding /\ rows[j].status = "ACTIVE"}

Restart ==
    /\ restarts < MaxRestarts
    /\ restarts' = restarts + 1
    /\ missing' = {[job |-> j, row |-> rows[j]] : j \in Unembedded}
    /\ unseen' = unseen \cup OnTheWay(Call)
    /\ calls' = [c \in Call |-> Idle]
    /\ UNCHANGED <<rows, view, kept, requests, stale, failed>>

Backfill(c) == \E m \in missing :
    /\ calls[c].at = "idle"
    /\ ~\E d \in Call : calls[d].kind = "embed" /\ calls[d].chat = "backfill"
    /\ missing' = missing \ {m}
    /\ Put(c, [Idle EXCEPT !.kind = "embed", !.at = "ai", !.chat = "backfill",
                           !.job = m.job, !.read = m.row, !.entity = m.row])
    /\ UNCHANGED <<rows, view, kept, requests, restarts, unseen, stale, failed>>

Work(c) ==
    \/ Question(c) \/ MakeDraft(c) \/ ChatAnswer(c) \/ Read(c) \/ AiAnswer(c)
    \/ AiGivesUp(c) \/ Select(c) \/ Update(c) \/ Backfill(c)

Next ==
    \/ \E v \in Chat \cup {"form"} : Show(v)
    \/ \E c \in Call, h \in Chat : Send(c, h)
    \/ \E c \in Call, j \in DOMAIN rows : Close(c, j) \/ Boundary(c, j)
    \/ \E c \in Call : Publish(c) \/ Submit(c) \/ Work(c) \/ Lose(c)
    \/ Restart

Spec == Init /\ [][Next]_vars

\* The server goes on with what it began; the AI client answers or fails.
Fairness == \A c \in Call : WF_vars(Work(c))

-----------------------------------------------------------------------------

\* Whatever is lost, left or resent: a chat makes no second draft unless the
\* answer about the first came to no page, and once the page waits for nothing
\* it keeps the draft it was told of, and no other (handleSend, chatCreateJob).
OneJobPerChat ==
    \A h \in Chat :
        LET told == {j \in DOMAIN rows : rows[j].chat = h} \ unseen
        IN  /\ Cardinality(told) <= 1
            /\ ~Waiting(h) => told = {kept[h]} \ {0}

\* A published job becomes searchable even if the server restarts before its
\* text is embedded; only a failing AI, closing or a stale save prevent it
\* (publishJob, backfillEmbeddings).
Unfound(j) == j \in Unembedded \ (failed \cup stale)
PublishedIsEmbedded == \A j \in 1 .. MaxJobs : Unfound(j) ~> ~Unfound(j)

-----------------------------------------------------------------------------
\* Why a chat makes one job: its page waits for one call at the most, and only
\* while it keeps no job; a draft is kept, told by the answer on its way, or
\* unseen; and a row stays of its chat, as every entity that is saved was read
\* from it.
Row == [status : {"DRAFT", "ACTIVE", "CLOSED"}, boundary : BOOLEAN, embedding : BOOLEAN,
        chat : Chat \cup {"form"}]
Calls == [at : {"idle", "ai", "answer", "read", "select", "update"},
          kind : {"none", "chat", "publish", "close", "boundary", "embed"},
          chat : Chat \cup {"form", "backfill"}, live : BOOLEAN, job : Nat,
          read : Row \cup {Null}, entity : Row \cup {Null}, seen : Row \cup {Null}]
TypeOK ==
    /\ rows \in Seq(Row)
    /\ calls \in [Call -> Calls]
    /\ view \in Chat \cup {"form"}
    /\ kept \in [Chat -> Nat]
    /\ missing \subseteq [job : Nat, row : Row]

IsOf(entity, j) == j \in 1 .. Len(rows) /\ entity \in Row /\ entity.chat = rows[j].chat
Sound(r) ==
    /\ r.kind = "chat" => r.chat \in Chat /\ r.at \in {"ai", "answer"}
    /\ r.live /\ r.chat \in Chat => r.kind = "chat" /\ kept[r.chat] = 0
    /\ r.at = "answer" => /\ r.kind = "chat" /\ r.live
                          /\ r.job \in (1 .. Len(rows)) \ unseen
                          /\ rows[r.job].chat = r.chat
    /\ r.kind # "chat" /\ r.at # "idle" => r.job \in 1 .. Len(rows)
    /\ r.kind # "chat" /\ r.at \notin {"idle", "read"} => IsOf(r.entity, r.job)
    /\ r.at = "update" => IsOf(r.seen, r.job)
OneAnswerAwaited ==
    \A c, d \in Call :
        calls[c].live /\ calls[d].live /\ calls[c].chat = calls[d].chat
            /\ calls[c].chat \in Chat => c = d
Told(h, j) == \E c \in Call :
    calls[c].at = "answer" /\ calls[c].chat = h /\ calls[c].job = j
KeptIsMade ==
    \A h \in Chat :
        /\ kept[h] \in 0 .. Len(rows)
        /\ kept[h] # 0 => rows[kept[h]].chat = h /\ kept[h] \notin unseen
        /\ \A j \in (1 .. Len(rows)) \ unseen :
               rows[j].chat = h => kept[h] = j \/ Told(h, j)

OneJobInv ==
    /\ TypeOK
    /\ \A c \in Call : Sound(calls[c])
    /\ OneAnswerAwaited
    /\ KeptIsMade
    /\ unseen \subseteq 1 .. Len(rows)
    /\ \A m \in missing : IsOf(m.row, m.job)
=============================================================================
