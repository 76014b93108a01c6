-------------------------------- MODULE Seed --------------------------------
(***************************************************************************)
(* The script that fills a database (backend/src/seed.ts): one row after   *)
(* the other is looked for and inserted if it is missing, then a real       *)
(* negotiation is started and watched.  The script may stop anywhere and be *)
(* run again.  Of what the server does to the same tables meanwhile, only   *)
(* the removal of a data source is here.  What it inserts is not: a source  *)
(* that is connected again, or a match of the same pair, could come between *)
(* the script's look and its insertion, and be there twice.                 *)
(***************************************************************************)
EXTENDS Naturals, Sequences, FiniteSets

CONSTANTS
    MaxRuns,   \* bound of the model: runs of the script
    MaxRounds,
    MaxTime,   \* MAX_WAIT_MS in polls
    Null

VARIABLES
    rows,      \* the rows of each kind: their ids and those they refer to
    run,       \* how many runs there were
    demoOnly,  \* of the run under way
    at,        \* the row the run is at, or the end of the plan, or Null
    missing,   \* the row was looked for and is not there
    found,     \* the ids of the rows the run has
    publicKey, \* of the real seeker: each run makes its own
    waited,    \* the polls of the run
    state, currentRound \* the real sessions, as in NegotiationProtocol

vars == <<rows, run, demoOnly, at, missing, found, publicKey, waited, state, currentRound>>

Protocol == INSTANCE NegotiationProtocol WITH Session <- 1..MaxRuns

\* One row of each kind, in the order of the script, with those it refers to.
Row(kind, refs) == [kind |-> kind, refs |-> refs]
Demo == << Row("seeker", {}), Row("employer", {}), Row("connection", {"seeker"}),
           Row("resume", {"seeker"}), Row("job", {"employer"}),
           Row("match", {"seeker", "job"}), Row("session", {"seeker", "job", "employer"}) >>
Real == << Row("real seeker", {}), Row("real employer", {}),
           Row("real resume", {"real seeker"}), Row("real job", {"real employer"}) >>
Plan == Demo \o Real
Kind == {Plan[i].kind : i \in 1..Len(Plan)}
End == Len(Plan) + 1

\* findOne: by what makes the row unique among its kind, never by its id.
Refs(r) == [k \in r.refs |-> found[k]]
Existing_Forgotten(r) == IF r.kind = "match" THEN {} ELSE {x \in rows[r.kind] : x.refs = Refs(r)}
Existing(r) == {x \in rows[r.kind] : x.refs = Refs(r)}

Init ==
    /\ rows = [k \in Kind |-> {}]
    /\ run = 0 /\ demoOnly = FALSE
    /\ at = Null /\ missing = FALSE
    /\ found = [k \in Kind |-> Null]
    /\ publicKey = 0 /\ waited = 0
    /\ Protocol!Init

Sessions == UNCHANGED <<state, currentRound>>

Begin ==
    /\ at = Null /\ run < MaxRuns
    /\ run' = run + 1
    /\ demoOnly' \in BOOLEAN
    /\ at' = 1 /\ missing' = FALSE /\ waited' = 0
    /\ found' = [k \in Kind |-> Null]
    /\ UNCHANGED <<rows, publicKey>> /\ Sessions

\* The row that was found or made; the real seeker gets a new key either way.
Keep(id) ==
    LET kind == Plan[at].kind
    IN  /\ found' = [found EXCEPT ![kind] = id]
        /\ at' = IF demoOnly /\ at = Len(Demo) THEN Null ELSE at + 1
        /\ missing' = FALSE
        /\ publicKey' = IF kind = "real seeker" THEN run ELSE publicKey

Find ==
    /\ at \in 1..Len(Plan) /\ ~missing
    /\ \/ Existing(Plan[at]) = {} /\ missing' = TRUE /\ UNCHANGED <<at, found, publicKey>>
       \/ \E x \in Existing(Plan[at]) : Keep(x.id)
    /\ UNCHANGED <<rows, run, demoOnly, waited>> /\ Sessions

Insert ==
    /\ missing
    /\ LET r == Plan[at]  id == <<run, r.kind>>
       IN  rows' = [rows EXCEPT ![r.kind] = @ \cup {[id |-> id, refs |-> Refs(r)]}] /\ Keep(id)
    /\ UNCHANGED <<run, demoOnly, waited>> /\ Sessions

\* createSession and startNegotiation.
Negotiation ==
    /\ at = End
    /\ \/ state[run] = "NONE" /\ Protocol!Create(run)
       \/ state[run] = "INITIATED" /\ Protocol!Start(run)
    /\ UNCHANGED <<rows, run, demoOnly, at, missing, found, publicKey, waited>>

\* The negotiation runs in the background of the script's own process.
Background ==
    /\ at = End
    /\ Protocol!Speak(run) \/ Protocol!Fail(run)
    /\ UNCHANGED <<rows, run, demoOnly, at, missing, found, publicKey, waited>>

\* It waits for a state that ends the negotiation, for some time.
Poll ==
    /\ at = End /\ state[run] \notin {"NONE", "INITIATED"}
    /\ waited' = waited + 1
    /\ at' = IF Protocol!IsTerminal(state[run]) \/ waited' = MaxTime THEN Null ELSE at
    /\ UNCHANGED <<rows, run, demoOnly, missing, found, publicKey>> /\ Sessions

\* The script is stopped, or a statement of it fails.
Stop ==
    /\ at # Null
    /\ at' = Null /\ missing' = FALSE
    /\ UNCHANGED <<rows, run, demoOnly, found, publicKey, waited>> /\ Sessions

\* A user of the server removes a data source.
Disconnect ==
    /\ \E x \in rows["connection"] : rows' = [rows EXCEPT !["connection"] = @ \ {x}]
    /\ UNCHANGED <<run, demoOnly, at, missing, found, publicKey, waited>> /\ Sessions

Next == Begin \/ Find \/ Insert \/ Negotiation \/ Background \/ Poll \/ Stop \/ Disconnect

Spec == Init /\ [][Next]_vars

-----------------------------------------------------------------------------

\* However often the script was stopped and run again, and as long as nothing
\* else inserts into its tables, every demo row is there at most once and all it
\* refers to is there; and of a run that has reached the negotiation none is
\* missing but a connection removed since (seed.ts).
SeededOnce ==
    /\ \A k \in Kind : Cardinality(rows[k]) <= 1
    /\ \A k \in Kind : \A x \in rows[k] : \A p \in DOMAIN x.refs :
           \E y \in rows[p] : y.id = x.refs[p]
    /\ at = End => \A k \in Kind \ {"connection"} : rows[k] # {}

-----------------------------------------------------------------------------
\* Why it is there once: the rows a run has found or made stay, as only a
\* connection can be removed and no row refers to one; so a row that is there
\* refers to the ones the run has, and is found.
Id == Nat \X Kind
TypeOK ==
    /\ run \in Nat /\ missing \in BOOLEAN
    /\ at \in 1..End \cup {Null}
    /\ DOMAIN rows = Kind
    /\ found \in [Kind -> Id \cup {Null}]
    /\ \A i \in 1..Len(Plan) :
           rows[Plan[i].kind] \subseteq [id : Id, refs : [Plan[i].refs -> Id \cup {Null}]]

Present(id, k) == \E y \in rows[k] : y.id = id
OneOfEach == \A k \in Kind : \A x, y \in rows[k] : x = y
RefersToRows == \A k \in Kind : \A x \in rows[k] : \A p \in DOMAIN x.refs : Present(x.refs[p], p)
HasWhatItPassed ==
    at # Null => \A i \in 1..Len(Plan) :
                     i < at /\ Plan[i].kind # "connection" => Present(found[Plan[i].kind], Plan[i].kind)
MissingIsAbsent == missing => at \in 1..Len(Plan) /\ rows[Plan[at].kind] = {}

SeededInv == TypeOK /\ OneOfEach /\ RefersToRows /\ HasWhatItPassed /\ MissingIsAbsent
=============================================================================
