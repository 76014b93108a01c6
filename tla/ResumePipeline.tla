--------------------------- MODULE ResumePipeline ---------------------------
(***************************************************************************)
(* One seeker's resume: POST resume/generate and the pipeline it leaves in *)
(* the background (backend/src/resume), and the "My Value" page that starts *)
(* it by itself and polls its status (frontend/src/app/datasource/page.tsx).*)
(*                                                                         *)
(* The seeker may have the page open in several tabs, so pipelines overlap *)
(* on one resume_profile row.  update() writes just the columns it names;  *)
(* generate saves the entity it read (EntitySave).                         *)
(***************************************************************************)
EXTENDS Naturals, FiniteSets, EntitySave

CONSTANTS
    Tab,
    Pipeline,     \* pipelines that may run
    MaxRestarts,  \* bound of the model: restarts of the server
    MaxPolls,     \* bound of the model: answers on their way to a tab
    Null

VARIABLES
    resume,    \* the row: [status, embedding] or Null; its other columns are data
    pipe,      \* what each pipeline has in hand
    tab,       \* each tab: whether it is generating, what it waits for, and
               \* the answers to its polls that are on their way
    restarted, \* how often the server came up again
    erred      \* history: a pipeline ended in an error

vars == <<resume, pipe, tab, restarted, erred>>

New == [status |-> "COLLECTING", embedding |-> FALSE]
Ready == [at |-> "ready", tab |-> Null, read |-> Null, seen |-> Null]
Shut == [at |-> "shut", complete |-> FALSE, polled |-> {}]

Init ==
    /\ resume = Null
    /\ pipe = [p \in Pipeline |-> Ready]
    /\ tab = [t \in Tab |-> Shut]
    /\ restarted = 0
    /\ erred = FALSE

-----------------------------------------------------------------------------
\* The page.

PutTab(t, r) == tab' = [tab EXCEPT ![t] = r]
OnlyTab == UNCHANGED <<resume, pipe, restarted, erred>>

\* The page is opened: it reads the resume and the sources, of which some are
\* connected here.
OpenTab(t) ==
    /\ tab[t].at = "shut"
    /\ PutTab(t, [Shut EXCEPT !.at = "view",
                               !.complete = resume # Null /\ resume.status = "COMPLETE"])
    /\ OnlyTab

\* The button is shown unless the resume is complete or being generated; the
\* page presses it once by itself.
MayGenerate(t) == tab[t].at = "view" /\ ~tab[t].complete

\* handleGenerate: the request begins a pipeline.
Generate(t, p) ==
    /\ MayGenerate(t)
    /\ pipe[p].at = "ready"
    /\ PutTab(t, [tab[t] EXCEPT !.at = "asking"])
    /\ pipe' = [pipe EXCEPT ![p] = [Ready EXCEPT !.at = "read", !.tab = t]]
    /\ UNCHANGED <<resume, restarted, erred>>

\* The interval asks for the status, whatever became of the requests before,
\* until one is answered COMPLETE or fails.  An answer may be late: another
\* status then changes nothing but a line of text, which is not here.
PollEnds_AtEmbedded(status) == status = "COMPLETE" /\ resume.embedding
PollEnds(status) == status = "COMPLETE"
Poll(t) ==
    /\ tab[t].at = "polling" /\ Cardinality(tab[t].polled) < MaxPolls
    /\ PutTab(t, [tab[t] EXCEPT !.polled = @ \cup {resume.status}])
    /\ OnlyTab
PollAnswered(t, status) ==
    /\ status \in tab[t].polled
    /\ PutTab(t, IF PollEnds(status)
                 THEN [at |-> "view", complete |-> TRUE, polled |-> tab[t].polled \ {status}]
                 ELSE [tab[t] EXCEPT !.polled = @ \ {status}])
    /\ OnlyTab
SomeAnswer(t) == \E status \in tab[t].polled : PollAnswered(t, status)
PollFails(t) ==
    /\ tab[t].at = "polling" \/ (tab[t].at = "asking" /\ tab[t].polled # {})
    /\ PutTab(t, [tab[t] EXCEPT !.at = "view"])
    /\ OnlyTab

\* The tab is closed or left; nobody waits for its request any more.
ShutTab(t) ==
    /\ tab[t].at # "shut"
    /\ PutTab(t, Shut)
    /\ pipe' = [p \in Pipeline |->
                  IF pipe[p].tab = t THEN [pipe[p] EXCEPT !.tab = Null] ELSE pipe[p]]
    /\ UNCHANGED <<resume, restarted, erred>>

-----------------------------------------------------------------------------
\* The service.

At(p, s) == pipe[p].at = s
Goto(p, s) == pipe' = [pipe EXCEPT ![p].at = s]
SetColumn(r) == resume' = r

\* The request is answered; the tab begins to poll, or stops at an error.
Answered(p, s) ==
    LET t == pipe[p].tab
    IN  IF t # Null THEN PutTab(t, [tab[t] EXCEPT !.at = s]) ELSE UNCHANGED tab

\* generate: find the row, save it as COLLECTING.  user_id is unique: the
\* second of two inserts fails.
Read(p) ==
    /\ At(p, "read")
    /\ pipe' = [pipe EXCEPT ![p].at = "select", ![p].read = resume]
    /\ UNCHANGED <<resume, tab, restarted, erred>>

Select(p) ==
    /\ At(p, "select")
    /\ pipe' = [pipe EXCEPT ![p].at = "save", ![p].seen = resume]
    /\ UNCHANGED <<resume, tab, restarted, erred>>

Save(p) ==
    LET read == pipe[p].read
    IN  /\ At(p, "save")
        /\ UNCHANGED <<restarted, erred>>
        /\ \/ /\ read = Null /\ resume # Null
              /\ Goto(p, "ended") /\ Answered(p, "view")
              /\ UNCHANGED resume
           \/ /\ read = Null => resume = Null
              /\ SetColumn(IF read = Null THEN New ELSE
                     Saved(resume, pipe[p].seen, [read EXCEPT !.status = "COLLECTING"]))
              /\ Goto(p, "collect") /\ Answered(p, "polling")

Pipe(p, from, to, r) ==
    /\ At(p, from)
    /\ SetColumn(r)
    /\ Goto(p, to)
    /\ UNCHANGED <<tab, restarted, erred>>

\* collectAllData catches what a source throws; then the status is updated.
Collect(p) == Pipe(p, "collect", "generate", [resume EXCEPT !.status = "ANALYZING"])

\* The AI classifies and writes the resume; what it says is data.
GenerateText(p) == Pipe(p, "generate", "embed", resume)

\* The text is embedded if the AI has an embedding for it, then valued.
Embed(p) ==
    \/ Pipe(p, "embed", "value", [resume EXCEPT !.embedding = TRUE])
    \/ Pipe(p, "embed", "value", resume)
Value(p) == Pipe(p, "value", "complete", resume)

\* The last update; then matching and the user's stream hear of it.
Complete(p) == Pipe(p, "complete", "ended", [resume EXCEPT !.status = "COMPLETE"])

\* A request to the AI fails: the catch block stores the error.
Caught(row) == [row EXCEPT !.status = "ERROR"]
Throw(p) ==
    /\ pipe[p].at \in {"generate", "embed", "value"}
    /\ SetColumn(Caught(resume))
    /\ Goto(p, "ended")
    /\ erred' = TRUE
    /\ UNCHANGED <<tab, restarted>>

\* The server restarts: pipelines are lost, requests under way fail.
Restart ==
    /\ restarted < MaxRestarts
    /\ restarted' = restarted + 1
    /\ pipe' = [p \in Pipeline |-> IF At(p, "ready") THEN Ready
                                   ELSE [Ready EXCEPT !.at = "ended"]]
    /\ tab' = [t \in Tab |-> IF tab[t].at = "asking" THEN [tab[t] EXCEPT !.at = "view"]
                             ELSE tab[t]]
    /\ UNCHANGED <<resume, erred>>

Work(p) ==
    Read(p) \/ Select(p) \/ Save(p) \/ Collect(p) \/ GenerateText(p) \/ Embed(p)
    \/ Value(p) \/ Complete(p) \/ Throw(p)

Next ==
    \/ \E t \in Tab : OpenTab(t) \/ Poll(t) \/ SomeAnswer(t) \/ PollFails(t) \/ ShutTab(t)
    \/ \E t \in Tab, p \in Pipeline : Generate(t, p)
    \/ \E p \in Pipeline : Work(p)
    \/ Restart

Spec == Init /\ [][Next]_vars

\* The server goes on with its pipelines, the browser's interval with its polls,
\* and these are answered.
Fairness ==
    /\ \A p \in Pipeline : WF_vars(Work(p))
    /\ \A t \in Tab : WF_vars(Poll(t)) /\ WF_vars(SomeAnswer(t))

-----------------------------------------------------------------------------

\* However many tabs generate at once, a tab that polls comes to an end, unless
\* a pipeline failed or was lost with the server (handleGenerate, runPipeline).
Generating(t) == tab[t].at \in {"asking", "polling"} /\ ~erred /\ restarted = 0
GenerationEnds == \A t \in Tab : Generating(t) ~> ~Generating(t)
=============================================================================
