----------------------------- MODULE Negotiation ----------------------------
(***************************************************************************)
(* The negotiation service (backend/src/negotiation/negotiation.service.ts)*)
(* on a Node.js server with a PostgreSQL database.                         *)
(*                                                                         *)
(* startNegotiation reads the session, checks it is INITIATED, saves it as *)
(* started and lets executeRounds run on in the background.  The code runs *)
(* on one thread; what interleaves are the pieces between two awaits, and  *)
(* each action below is such a piece together with the effect of the call  *)
(* it awaits.  The executor works on `session`, an object it loaded once,  *)
(* and sessionRepo.save(session) overwrites the row with that object.      *)
(*                                                                         *)
(* A Request is one call of startNegotiation and the background run it     *)
(* spawns; Target says which session it is for.  Users direct their agent  *)
(* through an in-memory map at any time.  A restart of the server loses    *)
(* that map and every background run: nothing resumes them.                *)
(*                                                                         *)
(* An operator whose name has an underscore is a plausible bug in the      *)
(* definition after it: the checked properties must notice it in that      *)
(* definition's place.                                                     *)
(***************************************************************************)
EXTENDS NegotiationEngine, Sequences, FiniteSets

CONSTANTS
    Session,          \* negotiation_session rows that may be created
    Request,          \* calls of POST /negotiation/sessions/:id/start
    Target,           \* the session each request is for
    Direction,        \* texts a user may send with /intervene
    NoDirection,      \* no entry in the interventions map
    MaxRounds,        \* negotiation_session.max_rounds
    KeyUndecodable,   \* sessions whose seeker's key parsePublicKey rejects
    MaxFaults         \* bound of the model: restarts and failed error saves

ASSUME NegotiationAssumption ==
    /\ Target \in [Request -> Session]
    /\ NoDirection \notin Direction
    /\ MaxRounds \in Nat
    /\ KeyUndecodable \subseteq Session
    /\ MaxFaults \in Nat

VARIABLES
    rows,           \* negotiation_session: state and current_round
    rounds,         \* negotiation_round, per session in insertion order; role
                    \* is the agent that was asked (the actor column is
                    \* whatever the AI wrote there)
    interventions,  \* the map `${session.id}:${role}` -> direction
    pc,             \* where each request and its background run is
    mem,            \* the `session` object each of them holds
    turn,           \* `role` of the loop iteration
    taken,          \* `intervention` of the loop iteration
    retried,        \* whether this round's second AI call was made
    completions,    \* times NEGOTIATION_COMPLETE was sent to both parties
    shown,          \* directions that reached a prompt, per map key
    faults          \* restarts and failed error saves so far

vars == <<rows, rounds, interventions, pc, mem, turn, taken, retried,
          completions, shown, faults>>

Key == Session \X Role

Row == [state : {"NONE"} \cup NegotiationState, currentRound : Nat]
NoRow == [state |-> "NONE", currentRound |-> 0]

\* idle: not sent yet.  checked: the row was read and is INITIATED.
\* loading .. finishing: the background run.  refused, done, dead: over.
Stage == {"idle", "checked", "loading", "preparing", "calling", "saving",
          "saved", "finishing", "refused", "done", "dead"}
Executing == {"loading", "preparing", "calling", "saving", "saved",
              "finishing"}

-----------------------------------------------------------------------------

Init ==
    /\ rows = [s \in Session |-> NoRow]
    /\ rounds = [s \in Session |-> <<>>]
    /\ interventions = [k \in Key |-> NoDirection]
    /\ pc = [x \in Request |-> "idle"]
    /\ mem = [x \in Request |-> NoRow]
    /\ turn = [x \in Request |-> "EMPLOYER"]
    /\ taken = [x \in Request |-> NoDirection]
    /\ retried = [x \in Request |-> FALSE]
    /\ completions = [s \in Session |-> 0]
    /\ shown = [k \in Key |-> {}]
    /\ faults = 0

\* createSession
Create(s) ==
    /\ rows[s].state = "NONE"
    /\ rows' = [rows EXCEPT ![s] = [state |-> "INITIATED", currentRound |-> 0]]
    /\ UNCHANGED <<rounds, interventions, pc, mem, turn, taken, retried,
                   completions, shown, faults>>

MayStart(state) == state = "INITIATED"

\* startNegotiation: the read and the 409 check.
StartRead(x) ==
    LET row == rows[Target[x]]
    IN  /\ pc[x] = "idle"
        /\ row.state # "NONE"
        /\ pc' = [pc EXCEPT ![x] = IF MayStart(row.state) THEN "checked"
                                                           ELSE "refused"]
        /\ mem' = [mem EXCEPT ![x] = row]
        /\ UNCHANGED <<rows, rounds, interventions, turn, taken, retried,
                       completions, shown, faults>>

\* startNegotiation: the object is changed and saved, then executeRounds is
\* called without awaiting it.
StartSave(x) ==
    /\ pc[x] = "checked"
    /\ mem' = [mem EXCEPT
           ![x] = [state |-> "EMPLOYER_OFFER", currentRound |-> 1]]
    /\ rows' = [rows EXCEPT ![Target[x]] = mem'[x]]
    /\ pc' = [pc EXCEPT ![x] = "loading"]
    /\ UNCHANGED <<rounds, interventions, turn, taken, retried, completions,
                   shown, faults>>

\* executeRounds reloads the session.  Its branch for a missing job or seeker
\* is not here: both are foreign keys of the row, and nothing deletes them.
Reloaded(x) == rows[Target[x]]

Load(x) ==
    /\ pc[x] = "loading"
    /\ mem' = [mem EXCEPT ![x] = Reloaded(x)]
    /\ pc' = [pc EXCEPT ![x] = "preparing"]
    /\ UNCHANGED <<rows, rounds, interventions, turn, taken, retried,
                   completions, shown, faults>>

\* The head of the loop up to the AI call, for an active session object: the
\* direction of the speaking role is read and put in the prompt.
BeginTurn(x, session, map) ==
    LET role == RoleFor(session.state)
        key  == <<Target[x], role>>
    IN  /\ turn' = [turn EXCEPT ![x] = role]
        /\ taken' = [taken EXCEPT ![x] = map[key]]
        /\ retried' = [retried EXCEPT ![x] = FALSE]
        /\ shown' = [shown EXCEPT ![key] = @ \cup ({map[key]} \ {NoDirection})]
        /\ pc' = [pc EXCEPT ![x] = "calling"]

\* The lines after the loop.
Announced_Always(state) == TRUE
Announced_OnlyAgreed(state) == state = "AGREED"
Announced(state) == state \in {"AGREED", "FAILED"}

EndLoop(x, session) ==
    /\ completions' = IF Announced(session.state)
                      THEN [completions EXCEPT ![Target[x]] = @ + 1]
                      ELSE completions
    /\ pc' = [pc EXCEPT ![x] = "done"]

\* executeRounds derives the key and gets the profile.  A key that does not
\* decode throws outside the try: the run is over and the row stays.
Prepare(x) ==
    /\ pc[x] = "preparing"
    /\ IF Target[x] \in KeyUndecodable
       THEN /\ pc' = [pc EXCEPT ![x] = "dead"]
            /\ UNCHANGED <<turn, taken, retried, shown, completions>>
       ELSE IF IsTerminal(mem[x].state)
       THEN /\ EndLoop(x, mem[x])
            /\ UNCHANGED <<turn, taken, retried, shown>>
       ELSE /\ BeginTurn(x, mem[x], interventions)
            /\ UNCHANGED completions
    /\ UNCHANGED <<rows, rounds, interventions, mem, faults>>

\* The first answer is not JSON: the AI is asked once more.
GarbledReply(x) ==
    /\ pc[x] = "calling"
    /\ ~ retried[x]
    /\ retried' = [retried EXCEPT ![x] = TRUE]
    /\ UNCHANGED <<rows, rounds, interventions, pc, mem, turn, taken,
                   completions, shown, faults>>

\* A JSON answer: the round is saved and the transition made in memory.
Reply(x, decision) ==
    LET old  == mem[x]
        next == Transition(old.state, decision, old.currentRound, MaxRounds)
    IN  /\ pc[x] = "calling"
        /\ rounds' = [rounds EXCEPT ![Target[x]] =
               Append(@, [round |-> old.currentRound, role |-> turn[x],
                          decision |-> decision])]
        /\ mem' = [mem EXCEPT ![x] =
               [state |-> next,
                currentRound |-> NextRound(next, old.currentRound)]]
        /\ pc' = [pc EXCEPT ![x] = "saving"]
        /\ UNCHANGED <<rows, interventions, turn, taken, retried,
                       completions, shown, faults>>

\* sessionRepo.save(session) after the transition.
SaveSession(x) ==
    /\ pc[x] = "saving"
    /\ rows' = [rows EXCEPT ![Target[x]] = mem[x]]
    /\ pc' = [pc EXCEPT ![x] = "saved"]
    /\ UNCHANGED <<rounds, interventions, mem, turn, taken, retried,
                   completions, shown, faults>>

\* "Clear intervention after use": whatever the map holds by now is deleted,
\* but only if this iteration had read a direction.
Cleared(x) ==
    IF taken[x] = NoDirection THEN interventions
    ELSE [interventions EXCEPT ![<<Target[x], turn[x]>>] = NoDirection]

\* After the save: next iteration, or out of the loop.
EndTurn(x) ==
    /\ pc[x] = "saved"
    /\ interventions' = Cleared(x)
    /\ IF IsTerminal(mem[x].state)
       THEN /\ EndLoop(x, mem[x])
            /\ UNCHANGED <<turn, taken, retried, shown>>
       ELSE /\ BeginTurn(x, mem[x], Cleared(x))
            /\ UNCHANGED completions
    /\ UNCHANGED <<rows, rounds, mem, faults>>

\* The catch block: the AI or a save failed, or the second answer is no JSON
\* either.  The session object, round counter included, is saved as FAILED.
FailedSession_StateKept(x) == mem[x]
FailedSession_StartsAgain(x) == [mem[x] EXCEPT !.state = "INITIATED"]
FailedSession(x) == [mem[x] EXCEPT !.state = "FAILED"]

FailRound(x) ==
    /\ pc[x] \in {"calling", "saving"}
    /\ mem' = [mem EXCEPT ![x] = FailedSession(x)]
    /\ rows' = [rows EXCEPT ![Target[x]] = mem'[x]]
    /\ pc' = [pc EXCEPT ![x] = "finishing"]
    /\ UNCHANGED <<rounds, interventions, turn, taken, retried, completions,
                   shown, faults>>

Finish(x) ==
    /\ pc[x] = "finishing"
    /\ EndLoop(x, mem[x])
    /\ UNCHANGED <<rows, rounds, interventions, mem, turn, taken, retried,
                   shown, faults>>

\* The save in the catch block fails as well: only a log line is left.
FailureSaveLost(x) ==
    /\ pc[x] \in {"calling", "saving"}
    /\ faults < MaxFaults
    /\ faults' = faults + 1
    /\ pc' = [pc EXCEPT ![x] = "dead"]
    /\ UNCHANGED <<rows, rounds, interventions, mem, turn, taken, retried,
                   completions, shown>>

\* intervene: a later direction replaces an earlier one.
Intervene(s, role, direction) ==
    /\ rows[s].state # "NONE"
    /\ interventions' = [interventions EXCEPT ![<<s, role>>] = direction]
    /\ UNCHANGED <<rows, rounds, pc, mem, turn, taken, retried, completions,
                   shown, faults>>

\* The server process stops and comes up again.
Restart ==
    /\ faults < MaxFaults
    /\ faults' = faults + 1
    /\ interventions' = [k \in Key |-> NoDirection]
    /\ pc' = [x \in Request |->
                 IF pc[x] \in Executing \cup {"checked"} THEN "dead"
                                                        ELSE pc[x]]
    /\ UNCHANGED <<rows, rounds, mem, turn, taken, retried, completions,
                   shown>>

\* What the background run does on its own, given that the AI answers.
Run(x) ==
    \/ Load(x) \/ Prepare(x) \/ GarbledReply(x) \/ FailRound(x)
    \/ \E d \in Decision : Reply(x, d)
    \/ SaveSession(x) \/ EndTurn(x) \/ Finish(x)

Next ==
    \/ \E s \in Session : Create(s)
    \/ \E x \in Request : StartRead(x) \/ StartSave(x) \/ Run(x)
    \/ \E x \in Request : FailureSaveLost(x)
    \/ \E k \in Key, d \in Direction : Intervene(k[1], k[2], d)
    \/ Restart

Spec == Init /\ [][Next]_vars

\* Node runs the continuation of every await that settles, and the AI client
\* answers or fails within its timeout.  Users and faults owe nothing.
FairSpec ==
    Spec /\ \A x \in Request : WF_vars(StartSave(x)) /\ WF_vars(Run(x))

-----------------------------------------------------------------------------
(***************************************************************************)
(* Properties of sessions that are started by one request each, as         *)
(* RealNegotiationHandoff does it.                                         *)
(***************************************************************************)

TypeOK ==
    /\ rows \in [Session -> Row]
    /\ rounds \in [Session -> Seq([round : Nat, role : Role,
                                   decision : Decision])]
    /\ interventions \in [Key -> Direction \cup {NoDirection}]
    /\ pc \in [Request -> Stage]
    /\ mem \in [Request -> Row]
    /\ turn \in [Request -> Role]
    /\ taken \in [Request -> Direction \cup {NoDirection}]
    /\ retried \in [Request -> BOOLEAN]
    /\ completions \in [Session -> Nat]
    /\ shown \in [Key -> SUBSET Direction]
    /\ faults \in 0 .. MaxFaults

\* At least one round is played whatever max_rounds says: the limit is only
\* looked at after a round.
RoundLimit == IF MaxRounds = 0 THEN 1 ELSE MaxRounds

\* negotiation_session and negotiation_round are saved one after the other,
\* and a failure or a restart may come between the two saves.  Still the
\* rounds of a session are 1, 2, .. n, the employer's agent wrote the odd
\* ones, n is the session's current round or the one before it, and a
\* session that agreed or ran out of rounds has exactly the rounds that say
\* so (executeRounds).
RoundsMatchSession ==
    \A s \in Session :
        LET n   == Len(rounds[s])
            row == rows[s]
        IN  /\ \A i \in 1 .. n :
                   /\ rounds[s][i].round = i
                   /\ (rounds[s][i].role = "EMPLOYER") <=> (i % 2 = 1)
            /\ n \in {row.currentRound - 1, row.currentRound}
            /\ n <= RoundLimit
            /\ row.state \in ActiveState \ {"EMPLOYER_OFFER"} =>
                   /\ n > 0
                   /\ (row.state = "SEEKER_COUNTER") <=>
                          (row.currentRound % 2 = 0)
            /\ row.state = "AGREED" =>
                   n > 0 /\ rounds[s][n].decision = "ACCEPT"
            /\ row.state = "MAX_ROUNDS" => n = RoundLimit

\* An ACCEPT or a REJECT is the last word: no agent is asked again after it,
\* not even when saving the session fails and the error path runs
\* (executeRounds, transition).
VerdictEnds ==
    \A s \in Session : \A i \in DOMAIN rounds[s] :
        rounds[s][i].decision \in {"ACCEPT", "REJECT"} => i = Len(rounds[s])

\* NEGOTIATION_COMPLETE goes out at most once per session, and when it does
\* the stored session already is what it announces: a client that refetches
\* on the event finds a finished session (executeRounds).
CompletionIsTrue ==
    \A s \in Session :
        /\ completions[s] <= 1
        /\ completions[s] = 1 => rows[s].state \in {"AGREED", "FAILED"}

\* The stored session follows the protocol, whatever the AI, the users and
\* the faults do.
Protocol ==
    INSTANCE NegotiationProtocol WITH
        state        <- [s \in Session |-> rows[s].state],
        currentRound <- [s \in Session |-> rows[s].currentRound]

ImplementsProtocol == Protocol!Spec

(***************************************************************************)
(* Liveness, when no fault occurs and the seekers' keys decode.            *)
(***************************************************************************)

\* A started negotiation reaches an end: the AI may counter, err and garble
\* as it likes (executeRounds).
StartedTerminates ==
    \A s \in Session :
        rows[s].state \in ActiveState ~> rows[s].state \in TerminalState

\* Both parties hear of every agreement and every failure (executeRounds).
OutcomeAnnounced ==
    \A s \in Session :
        rows[s].state \in {"AGREED", "FAILED"} ~> completions[s] > 0

(***************************************************************************)
(* What is left when two requests start the same session at once.          *)
(***************************************************************************)

\* A session stored as AGREED has an ACCEPT round: approving the agreement
\* looks the agreed terms up there (AgreementService.approve).
AgreementHasAcceptRound ==
    \A s \in Session : rows[s].state = "AGREED" =>
        \E i \in DOMAIN rounds[s] : rounds[s][i].decision = "ACCEPT"

(***************************************************************************)
(* What a document says of the service, and the code does not do.          *)
(***************************************************************************)

\* docs/superpowers/specs/team/seungyeon-negotiation.md: a direction does not
\* touch the round in progress and is applied from the next turn on, so
\* without a restart none is deleted that no prompt has contained (the
\* delete at the end of a turn).
DirectionApplied ==
    [][\A k \in Key :
          /\ interventions[k] # NoDirection
          /\ interventions'[k] = NoDirection
          => interventions[k] \in shown[k]]_vars
=============================================================================
