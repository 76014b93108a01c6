------------------------------ MODULE Settings ------------------------------
(***************************************************************************)
(* What a user sets about negotiations: backend/src/seeker on the user row, *)
(* the seeker's floor and limit (frontend app/datasource/page.tsx), the     *)
(* employer's ceiling (app/jobs/page.tsx), and the job seeking switch of    *)
(* the sidebar.                                                            *)
(*                                                                         *)
(* A page saves a change half a second after the last one, with one timer   *)
(* for all its fields.  Every save reads the row, and saves the entity      *)
(* (EntitySave).  Switching job seeking on starts a match run (Matching).   *)
(***************************************************************************)
EXTENDS Naturals, FiniteSets, TLC, EntitySave

CONSTANTS
    Amount,    \* salaries; Default is the one shown when none is stored
    Default,
    Limits,    \* limits of automatic negotiations, a part of 1..20
    Call,      \* requests that may be under way
    MaxEdits,  \* bound of the model: changes and switches
    MaxFaults, \* bound of the model: requests that fail
    Null

VARIABLES
    row,      \* the user: [job, floor, limit, ceiling]
    fields,   \* the fields of the user's page
    page,     \* what it shows, Null until the preferences are loaded
    loading,  \* the request for the preferences is under way
    timer,    \* the change that is to be saved, a function on its fields
    store,    \* the browser's storage
    switch,   \* the sidebar's switch
    calls,    \* what each request has in hand
    edits, faults,
    dropped,  \* history: a change was cancelled by one of another field, or
              \* the page was left before it was saved
    raced     \* history: two saves were under way at once

vars == <<row, fields, page, loading, timer, store, switch, calls, edits, faults,
          dropped, raced>>

DefaultOf == [floor |-> Default, limit |-> 1, ceiling |-> Default]
Values(f) == IF f = "limit" THEN Limits ELSE Amount
NoEdit == [f \in {} |-> Null]
Only(f, v) == [k \in {f} |-> v]
Idle == [at |-> "idle", kind |-> "none", edit |-> NoEdit, read |-> Null, seen |-> Null]

Init ==
    /\ row = [job |-> FALSE, floor |-> Null, limit |-> 1, ceiling |-> Null]
    /\ fields \in {{"floor", "limit"}, {"ceiling"}}
    /\ page = Null
    /\ loading = FALSE
    /\ timer = NoEdit
    /\ store = NoEdit
    /\ switch = FALSE
    /\ calls = [c \in Call |-> Idle]
    /\ edits = 0 /\ faults = 0
    /\ dropped = FALSE /\ raced = FALSE

Put(c, r) == calls' = [calls EXCEPT ![c] = r]
Begin(c, kind, edit) ==
    /\ calls[c].at = "idle"
    /\ Put(c, [Idle EXCEPT !.at = "read", !.kind = kind, !.edit = edit])

Saving == \E c \in Call : calls[c].kind = "put"

\* What getPreferences answers, shown with the defaults of the page.
Shown(r) == [f \in fields |-> IF r[f] = Null THEN DefaultOf[f] ELSE r[f]]
Over(r, edit) == [k \in DOMAIN r |-> IF k \in DOMAIN edit THEN edit[k] ELSE r[k]]

-----------------------------------------------------------------------------
\* The pages.

\* The page is opened again: it asks for the preferences, the sidebar for the
\* switch's state.  A timer of the page left behind goes on.
OpenPage(c) ==
    /\ ~loading
    /\ Begin(c, "get", NoEdit)
    /\ page' = Null /\ loading' = TRUE
    /\ dropped' = (dropped \/ timer # NoEdit \/ Saving)
    /\ UNCHANGED <<row, fields, timer, store, switch, edits, faults, raced>>
OpenSidebar(c) ==
    /\ Begin(c, "status", NoEdit)
    /\ switch' = FALSE
    /\ UNCHANGED <<row, fields, page, loading, timer, store, edits, faults, dropped, raced>>

\* handleFloorChange, handleLimitChange, handleCeilingChange.  The controls
\* appear with the loaded values.
Change(f, v) ==
    /\ page # Null
    /\ edits < MaxEdits /\ edits' = edits + 1
    /\ page' = [page EXCEPT ![f] = v]
    /\ store' = Only(f, v) @@ store
    /\ timer' = Only(f, v)
    /\ dropped' = (dropped \/ ~(DOMAIN timer \subseteq {f}))
    /\ UNCHANGED <<row, fields, loading, switch, calls, faults, raced>>

\* The half second is over.
SaveTimer(c) ==
    /\ timer # NoEdit
    /\ Begin(c, "put", timer)
    /\ timer' = NoEdit
    /\ raced' = (raced \/ Saving)
    /\ UNCHANGED <<row, fields, page, loading, store, switch, edits, faults, dropped>>

\* handleToggle and confirmActivate.
Switch(c) ==
    /\ edits < MaxEdits /\ edits' = edits + 1
    /\ switch' = ~switch
    /\ Begin(c, "put", Only("job", ~switch))
    /\ raced' = (raced \/ Saving)
    /\ UNCHANGED <<row, fields, page, loading, timer, store, faults, dropped>>

-----------------------------------------------------------------------------
\* The service: updateJobSeekingStatus, updatePreferences and their readers.

Read(c) ==
    /\ calls[c].at = "read"
    /\ Put(c, [calls[c] EXCEPT !.read = row,
                   !.at = IF calls[c].kind = "put" THEN "select" ELSE "answer"])
    /\ UNCHANGED <<row, fields, page, loading, timer, store, switch, edits, faults,
                   dropped, raced>>

Select(c) ==
    /\ calls[c].at = "select"
    /\ Put(c, [calls[c] EXCEPT !.seen = row, !.at = "update"])
    /\ UNCHANGED <<row, fields, page, loading, timer, store, switch, edits, faults,
                   dropped, raced>>

\* Only the fields that were sent are changed.
Merged_Defaults(r, edit) ==
    Over(r, IF "job" \in DOMAIN edit THEN edit ELSE edit @@ Only("limit", 1))
Merged(r, edit) == Over(r, edit)
Update(c) ==
    LET call == calls[c]
    IN  /\ call.at = "update"
        /\ row' = Saved(row, call.seen, Merged(call.read, call.edit))
        /\ Put(c, Idle)
        /\ UNCHANGED <<fields, page, loading, timer, store, switch, edits, faults, dropped,
                       raced>>

Answer(c) ==
    LET call == calls[c]
    IN  /\ call.at = "answer"
        /\ IF call.kind = "get" THEN page' = Shown(call.read) /\ loading' = FALSE
                                ELSE UNCHANGED <<page, loading>>
        /\ switch' = IF call.kind = "status" THEN call.read.job ELSE switch
        /\ Put(c, Idle)
        /\ UNCHANGED <<row, fields, timer, store, edits, faults, dropped, raced>>

\* A request fails: the page falls back to the browser's storage; a save that
\* failed is not told to anyone.
Throw(c) ==
    /\ calls[c].at # "idle"
    /\ faults < MaxFaults /\ faults' = faults + 1
    /\ IF calls[c].kind = "get"
       THEN page' = Over(Shown(DefaultOf), store) /\ loading' = FALSE
       ELSE UNCHANGED <<page, loading>>
    /\ Put(c, Idle)
    /\ UNCHANGED <<row, fields, timer, store, switch, edits, dropped, raced>>

Work(c) == SaveTimer(c) \/ Read(c) \/ Select(c) \/ Update(c) \/ Answer(c) \/ Throw(c)

Next ==
    \/ \E c \in Call : OpenPage(c) \/ OpenSidebar(c) \/ Switch(c) \/ Work(c)
    \/ \E f \in fields : \E v \in Values(f) : Change(f, v)

Spec == Init /\ [][Next]_vars

-----------------------------------------------------------------------------

\* When nothing is being saved, the page shows what negotiations will use, or a
\* default for what was never set, unless a request failed, two saves
\* overlapped, a change was cancelled by a change of another field, or the page
\* was left before it was saved (syncPreferences, updatePreferences).
Quiet == timer = NoEdit /\ (\A c \in Call : calls[c].at = "idle") /\ page # Null
ShownIsSaved ==
    Quiet /\ faults = 0 /\ ~raced /\ ~dropped =>
        \A f \in fields : page[f] = Shown(row)[f]

-----------------------------------------------------------------------------
\* Why it does: a save that overlaps no other finds the row as it has read it,
\* and changes what it was asked to; the page shows the change that waits, or
\* else the one under way, or else the row; and while it loads nothing but the
\* job seeking status is saved.
Column == {"job", "floor", "limit", "ceiling"}
IsRow(r) == r = [k \in Column |-> r[k]] /\ r["job"] \in BOOLEAN
IsEdit(e) ==
    \/ e = NoEdit
    \/ \E k \in Column : /\ DOMAIN e = {k} /\ e = Only(k, e[k])
                        /\ IF k = "job" THEN e[k] \in BOOLEAN ELSE e[k] # Null
IsCall(r) ==
    /\ r = [at |-> r.at, kind |-> r.kind, edit |-> r.edit, read |-> r.read, seen |-> r.seen]
    /\ r.at \in {"idle", "read", "select", "update", "answer"}
    /\ r.kind \in {"none", "get", "status", "put"}
    /\ IsEdit(r.edit)
TypeOK ==
    /\ IsRow(row)
    /\ fields \subseteq Column \ {"job"}
    /\ page = Null \/ page = [f \in fields |-> page[f]]
    /\ loading \in BOOLEAN /\ switch \in BOOLEAN
    /\ IsEdit(timer)
    /\ calls = [c \in Call |-> calls[c]] /\ \A c \in Call : IsCall(calls[c])
    /\ faults \in Nat

InStep(r) ==
    /\ r.kind = "none" <=> r.at = "idle"
    /\ r.kind = "put" => r.at \in {"read", "select", "update"}
    /\ r.kind \in {"get", "status"} => r.at \in {"read", "answer"}
    /\ r.at \in {"select", "update", "answer"} => IsRow(r.read)
    /\ r.at = "update" => IsRow(r.seen)
LoadsOnce ==
    /\ \A c \in Call : InStep(calls[c]) /\ (calls[c].kind = "get" => loading)
    /\ \A c, d \in Call : calls[c].kind = "get" /\ calls[d].kind = "get" => c = d
    /\ loading => page = Null

OneSave ==
    /\ \A c, d \in Call : calls[c].kind = "put" /\ calls[d].kind = "put" => c = d
    /\ \A c \in Call : calls[c].kind = "put" =>
           /\ calls[c].at \in {"select", "update"} => calls[c].read = row
           /\ calls[c].at = "update" => calls[c].seen = row
Touched(f) == \E c \in Call : calls[c].kind = "put" /\ f \in DOMAIN calls[c].edit
LoadsTheRow ==
    loading => /\ timer = NoEdit
               /\ \A f \in fields : ~Touched(f)
               /\ \A c \in Call : calls[c].kind = "get" /\ calls[c].at = "answer" =>
                      \A f \in fields : calls[c].read[f] = row[f]
ShowsTheChange ==
    page # Null => \A f \in fields :
        /\ f \in DOMAIN timer => page[f] = timer[f]
        /\ f \notin DOMAIN timer =>
               /\ \A c \in Call : calls[c].kind = "put" /\ f \in DOMAIN calls[c].edit =>
                      page[f] = calls[c].edit[f]
               /\ ~Touched(f) => page[f] = Shown(row)[f]

SettingsInv ==
    /\ TypeOK /\ LoadsOnce
    /\ faults = 0 /\ ~raced /\ ~dropped => OneSave /\ LoadsTheRow /\ ShowsTheChange
=============================================================================
