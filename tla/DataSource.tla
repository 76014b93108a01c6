----------------------------- MODULE DataSource -----------------------------
(***************************************************************************)
(* The data sources of one seeker: the "My Value" page with its dialogs    *)
(* (frontend/src/app/datasource/page.tsx, components/datasource) and the   *)
(* service (backend/src/datasource).                                       *)
(*                                                                         *)
(* An ask is a request of the page, or the background analysis one leaves  *)
(* behind.  Between reading a connection and saving it asks wait for GitHub *)
(* or the AI, and others run.  The SELECT and the UPDATE of one save are a *)
(* single step here.  A connection's content is what its cached analysis   *)
(* is of: the chosen repositories, the document, or the fixture.           *)
(***************************************************************************)
EXTENDS Naturals, FiniteSets

CONSTANTS
    Choice,     \* selections of GitHub repositories
    Document,   \* PDF files and edited versions of them
    Ask,        \* asks that may be under way at the same time
    MaxAsks,    \* bound of the model: requests of the page
    MaxFaults,  \* bound of the model: requests that fail
    Null

\* SLACK stands for the three sources that only have fixtures.
Provider == {"GITHUB", "SLACK", "PDF"}

VARIABLES
    conn,     \* per provider its data_source_connection row, or Null
    ask,      \* what each ask has in hand
    shown,    \* providers the page shows as connected
    detail,   \* per provider the data the page has cached, or Null
    dialog,   \* the open dialog, its step and the one it began with
    popup,    \* GitHub's window: "none", "open", "posted" or "closed"
    asked, failures,
    stale,     \* history: providers whose row a save replaced unread
    stuck      \* history: a fixture's connection failed in its dialog

vars == <<conn, ask, shown, detail, dialog, popup, asked, failures, stale,
          stuck>>

All == "all repositories"
Row(status, repos, content) ==
    [status |-> status, repos |-> repos, content |-> content, fresh |-> content # Null]
Idle == [at |-> "idle", kind |-> "none", of |-> "PDF", arg |-> Null, read |-> Null]
Closed == [of |-> "PDF", step |-> "closed", first |-> "closed"]

Init ==
    /\ conn = [p \in Provider |-> Null]
    /\ ask = [a \in Ask |-> Idle]
    /\ shown = {}
    /\ detail = [p \in Provider |-> Null]
    /\ dialog = Closed
    /\ popup = "none"
    /\ asked = 0 /\ failures = 0
    /\ stale = {} /\ stuck = FALSE

\* What getStatus has the page show.
Connected == {p \in Provider : conn[p] # Null /\ conn[p].status # "DISCONNECTED"}

Put(a, r) == ask' = [ask EXCEPT ![a] = r]
Goto(a, s) == Put(a, [ask[a] EXCEPT !.at = s])
Request(a, kind, p, arg) ==
    /\ ask[a] = Idle
    /\ asked < MaxAsks
    /\ asked' = asked + 1
    /\ Put(a, [Idle EXCEPT !.at = "read", !.kind = kind, !.of = p, !.arg = arg])
    /\ UNCHANGED <<conn, shown, detail, failures, stale, stuck>>
Under(kinds) == \E a \in Ask : ask[a].kind \in kinds

-----------------------------------------------------------------------------
\* The page.

Step(s) == dialog' = [dialog EXCEPT !.step = s]
In(p, s) == dialog.of = p /\ dialog.step = s
OnlyDialog == UNCHANGED <<conn, ask, shown, detail, asked, failures, stale, stuck>>

\* "Connect" and "Upload PDF", or "Manage repositories".
OpenDialog(p) ==
    LET first == IF p \notin shown THEN "intro" ELSE "pick"
    IN  /\ dialog = Closed
        /\ dialog' = [of |-> p, step |-> first, first |-> first]
        /\ p \in shown => p = "GITHUB"
        /\ UNCHANGED popup /\ OnlyDialog

\* A dialog that waits cannot be closed; one that is done closes by itself.
CloseDialog ==
    /\ dialog.step \notin {"closed", "busy"}
    /\ dialog' = Closed
    /\ UNCHANGED popup /\ OnlyDialog

\* handleLogin: a stored installation is used again, else GitHub is opened;
\* "Manage GitHub App access" always opens it, unless the browser blocks it.
Login ==
    /\ In("GITHUB", "intro") \/ In("GITHUB", "pick")
    /\ IF conn["GITHUB"] # Null /\ dialog.step = "intro"
       THEN Step("pick") /\ UNCHANGED popup
       ELSE \/ Step("busy") /\ popup' = "open"
            \/ Step("error") /\ UNCHANGED popup
    /\ OnlyDialog

\* loadRepos fails; "Try Again" goes to the first page of the dialog.
LoadFails == In("GITHUB", "pick") /\ Step("error") /\ UNCHANGED popup /\ OnlyDialog
TryAgain == dialog.step = "error" /\ Step("intro") /\ UNCHANGED popup /\ OnlyDialog

\* GitHub sends the window to the callback with the installation.
Callback(a) ==
    /\ popup = "open" /\ ~Under({"connect"})
    /\ Request(a, "connect", "GITHUB", Null)
    /\ UNCHANGED <<dialog, popup>>

\* The seeker closes the window.
ClosePopup == popup = "open" /\ popup' = "closed" /\ UNCHANGED dialog /\ OnlyDialog

\* The message of a connected window arrives while the dialog listens for it.
HandleMessage ==
    /\ popup = "posted"
    /\ popup' = "closed"
    /\ IF dialog.step = "busy" THEN Step("pick") ELSE UNCHANGED dialog
    /\ OnlyDialog

\* The timer of checkPopupClosed: back to the step the dialog began with.
PopupClosed_Missed == FALSE
PopupClosed == popup \in {"closed", "posted"}
CheckPopupClosed ==
    /\ PopupClosed
    /\ popup' = "none"
    /\ IF dialog.step = "busy" THEN Step(dialog.first) ELSE UNCHANGED dialog
    /\ OnlyDialog

\* handleSaveRepos and the confirmation of a parsed PDF.
SaveRepos(a, choice) ==
    /\ In("GITHUB", "pick") /\ ~Under({"select"})
    /\ Request(a, "select", "GITHUB", choice)
    /\ UNCHANGED <<dialog, popup>>
Confirm ==
    /\ In("PDF", "pick")
    /\ Step("done")
    /\ shown' = Connected
    /\ UNCHANGED <<conn, ask, detail, popup, asked, failures, stale, stuck>>

\* The dialogs without GitHub: pick a file, or pretend to log in.
Upload(a, document) ==
    /\ In("PDF", "intro") /\ Step("busy")
    /\ Request(a, "upload", "PDF", document)
    /\ UNCHANGED popup
ConnectFixture(a) ==
    /\ In("SLACK", "intro") /\ Step("busy")
    /\ Request(a, "mock", "SLACK", Null)
    /\ UNCHANGED popup

\* The buttons of a card.  Details that were fetched once are kept.
Disconnect(a, p) ==
    p \in shown /\ Request(a, "disconnect", p, Null) /\ UNCHANGED <<dialog, popup>>
ViewDetails(a, p) ==
    /\ p \in shown /\ detail[p] = Null
    /\ Request(a, "detail", p, Null) /\ UNCHANGED <<dialog, popup>>
EditPdf(a, document) ==
    /\ "PDF" \in shown /\ detail["PDF"] # Null
    /\ Request(a, "edit", "PDF", document) /\ UNCHANGED <<dialog, popup>>
Resync(a, p) ==
    /\ p \in shown /\ ~Under({"resync"})
    /\ Request(a, "resync", p, Null) /\ UNCHANGED <<dialog, popup>>

-----------------------------------------------------------------------------
\* The service.

Data == {"detail", "resync"}
KeepPage == UNCHANGED <<shown, dialog, popup, asked, failures, stuck>>

\* Each request reads its connection once it needs it; where there is none, or
\* it is disconnected, some throw.
Refused(a) ==
    LET row == conn[ask[a].of]
    IN  \/ row = Null /\ ask[a].kind \notin {"mock", "connect", "upload"}
        \/ row # Null /\ row.status = "DISCONNECTED" /\ ask[a].kind \in Data

Read(a) ==
    /\ ask[a].at = "read"
    /\ ~Refused(a)
    /\ Put(a, [ask[a] EXCEPT !.read = conn[ask[a].of],
                             !.at = IF ask[a].kind \in Data THEN "fetch" ELSE "save"])
    /\ UNCHANGED <<conn, detail, stale>> /\ KeepPage

\* A save writes the whole entity that was read; a removed row comes back.
Save(a, row) ==
    LET p == ask[a].of
    IN  /\ conn' = [conn EXCEPT ![p] = row]
        /\ stale' = IF conn[p] # ask[a].read THEN stale \cup {p} ELSE stale

\* The entity each request saves.
Reselected_CacheKept(row, choice) == [row EXCEPT !.repos = choice, !.status = "CONNECTED"]
Reselected(row, choice) ==
    [row EXCEPT !.repos = choice, !.status = "CONNECTED", !.content = Null, !.fresh = FALSE]

Changed(a) ==
    LET row == ask[a].read
        arg == ask[a].arg
    IN  CASE ask[a].kind = "mock"    -> IF row = Null THEN Row("MOCK", All, Null) ELSE row
          [] ask[a].kind = "connect" -> Row("CONNECTED", IF row = Null THEN All ELSE row.repos, Null)
          [] ask[a].kind = "select"  -> Reselected(row, arg)
          [] ask[a].kind \in {"upload", "edit"} -> Row("CONNECTED", All, arg)
          [] OTHER -> IF ask[a].of = "GITHUB" THEN Row("DISCONNECTED", row.repos, Null) ELSE Null

Write(a) ==
    /\ ask[a].at = "save"
    /\ Save(a, Changed(a))
    /\ Goto(a, "answer")
    /\ UNCHANGED detail /\ KeepPage

\* getProviderData.  A PDF is its stored content.  The others are fetched, a
\* GitHub connection saved as synced, and analysed unless that is cached.
Fetched(row, p) == IF p = "GITHUB" THEN row.repos ELSE "fixture"
Result(a) == IF ask[a].of = "PDF" THEN ask[a].read.content
                                  ELSE Fetched(ask[a].read, ask[a].of)
Fetch(a) ==
    LET row == ask[a].read
        p   == ask[a].of
    IN  /\ ask[a].at = "fetch"
        /\ Goto(a, IF p = "PDF" \/ row.fresh THEN "answer"
                   ELSE IF row.content = Null THEN "analyse" ELSE "both")
        /\ IF p = "GITHUB" THEN Save(a, row) ELSE UNCHANGED <<conn, stale>>
        /\ UNCHANGED detail /\ KeepPage

\* A stale analysis is returned, and made again in the background.
Background(a) == \E b \in Ask :
    /\ ask[a].at = "both" /\ ask[b] = Idle
    /\ ask' = [ask EXCEPT ![b] = [ask[a] EXCEPT !.kind = "background", !.at = "analyse"],
                          ![a].at = "answer"]
    /\ UNCHANGED <<conn, detail, stale>> /\ KeepPage

\* The AI's analysis is saved with the connection read before, or fails.
Analyse(a) ==
    LET row == ask[a].read
    IN  /\ ask[a].at = "analyse"
        /\ \/ Save(a, [row EXCEPT !.content = Fetched(row, ask[a].of), !.fresh = TRUE])
           \/ UNCHANGED <<conn, stale>>
        /\ IF ask[a].kind = "background" THEN Put(a, Idle) ELSE Goto(a, "answer")
        /\ UNCHANGED detail /\ KeepPage

\* A day passes.
CacheExpires(p) ==
    /\ conn[p] # Null /\ conn[p].fresh
    /\ conn' = [conn EXCEPT ![p].fresh = FALSE]
    /\ UNCHANGED <<ask, detail, stale>> /\ KeepPage

\* The answer reaches the page, which fetches the status after a change.
Answer(a) ==
    LET kind == ask[a].kind
        p    == ask[a].of
        busy == dialog.of = p /\ dialog.step = "busy"
    IN  /\ ask[a].at = "answer"
        /\ Put(a, Idle)
        /\ shown' = IF kind \in {"mock", "select", "disconnect"} THEN Connected ELSE shown
        /\ detail' = CASE kind = "detail" -> [detail EXCEPT ![p] = Result(a)]
                       [] kind = "edit"   -> [detail EXCEPT ![p] = ask[a].arg]
                       [] OTHER           -> detail
        /\ dialog' = CASE kind = "upload" /\ busy           -> [dialog EXCEPT !.step = "pick"]
                       [] kind = "mock" /\ busy             -> [dialog EXCEPT !.step = "done"]
                       [] kind = "select" /\ In(p, "pick")  -> [dialog EXCEPT !.step = "done"]
                       [] OTHER                             -> dialog
        /\ popup' = IF kind = "connect" /\ popup = "open" THEN "posted" ELSE popup
        /\ UNCHANGED <<conn, asked, failures, stale, stuck>>

\* A request is refused, or fails.  The dialogs of the fixtures do not catch it.
Throw(a) ==
    LET kind == ask[a].kind
        busy == dialog.of = ask[a].of /\ dialog.step = "busy"
    IN  /\ ask[a].at \in {"read", "fetch", "save"}
        /\ \/ ask[a].at = "read" /\ Refused(a) /\ UNCHANGED failures
           \/ failures < MaxFaults /\ failures' = failures + 1
        /\ Put(a, Idle)
        /\ dialog' = CASE kind = "upload" /\ busy -> [dialog EXCEPT !.step = "intro"]
                       [] kind = "select" /\ In("GITHUB", "pick") -> [dialog EXCEPT !.step = "error"]
                       [] OTHER -> dialog
        /\ stuck' = (stuck \/ (kind = "mock" /\ busy))
        /\ UNCHANGED <<conn, shown, detail, popup, asked, stale>>

Work(a) ==
    Read(a) \/ Write(a) \/ Fetch(a) \/ Background(a) \/ Analyse(a) \/ Answer(a) \/ Throw(a)

Next ==
    \/ \E p \in Provider : OpenDialog(p) \/ CacheExpires(p)
    \/ CloseDialog \/ Login \/ LoadFails \/ TryAgain \/ ClosePopup
    \/ HandleMessage \/ CheckPopupClosed \/ Confirm
    \/ \E a \in Ask, p \in Provider : Disconnect(a, p) \/ ViewDetails(a, p) \/ Resync(a, p)
    \/ \E a \in Ask, d \in Document : Upload(a, d) \/ EditPdf(a, d)
    \/ \E a \in Ask, c \in Choice : SaveRepos(a, c)
    \/ \E a \in Ask : Callback(a) \/ ConnectFixture(a) \/ Work(a)

Spec == Init /\ [][Next]_vars

\* The server goes on; the seeker closes GitHub's window in the end, and the
\* dialog's timer looks for that.
Fairness ==
    /\ \A a \in Ask : WF_vars(Work(a))
    /\ WF_vars(ClosePopup) /\ WF_vars(CheckPopupClosed)

-----------------------------------------------------------------------------

\* Unless a save replaced a row it had not read, a cached analysis is one of
\* the repositories that are selected now, and a disconnected source has none:
\* no resume is made from what the seeker took away (updateSelectedRepos,
\* connectGithubApp, disconnect, getProviderData).
CacheFits(row) ==
    /\ row.content \in {Null, row.repos}
    /\ row.status = "DISCONNECTED" => row.content = Null
CacheIsOfSelection ==
    "GITHUB" \in stale \/ conn["GITHUB"] = Null \/ CacheFits(conn["GITHUB"])

\* A dialog that is waiting for a window, an upload or a connection does not
\* wait for ever, whatever fails; only the fixtures' dialogs do, if their
\* request fails (checkPopupClosed, handleFile, handleConnect).
Waiting == dialog.step = "busy" /\ ~stuck
DialogSettles == Waiting ~> ~Waiting

-----------------------------------------------------------------------------
\* Why a cached analysis is of the selection: a save that replaces what it read
\* writes none, the one of what it read, which was connected, or the one that was
\* there.
IsRow(r) == r = [status |-> r.status, repos |-> r.repos, content |-> r.content, fresh |-> r.fresh]
IsAsk(r) == r = [at |-> r.at, kind |-> r.kind, of |-> r.of, arg |-> r.arg, read |-> r.read]
TypeOK ==
    /\ conn = [p \in Provider |-> conn[p]]
    /\ \A p \in Provider : conn[p] # Null => IsRow(conn[p])
    /\ ask = [a \in Ask |-> ask[a]] /\ \A a \in Ask : IsAsk(ask[a]) /\ ask[a].of \in Provider
AsksAreSound ==
    \A a \in Ask :
        LET r == ask[a]
        IN  /\ r.of = "GITHUB" => r.kind \notin {"mock", "upload", "edit"}
            /\ r.at = "save" => r.kind \notin Data
            /\ r.read # Null => IsRow(r.read)
            /\ \/ r.at \in {"fetch", "both", "analyse"}
               \/ r.at = "save" /\ r.kind \notin {"mock", "connect", "upload"}
               => r.read # Null
            /\ r.at \in {"fetch", "both", "analyse"} => r.read.status # "DISCONNECTED"

CacheInv == TypeOK /\ AsksAreSound /\ CacheIsOfSelection
=============================================================================
