------------------------- MODULE NegotiationProtocol ------------------------
(***************************************************************************)
(* What a negotiation promises to the rest of the system, with the AI      *)
(* calls, the two tables, the start requests and the server's memory       *)
(* abstracted away: the stored session moves only along the engine's       *)
(* table, one round at a time, and a finished one never moves again.       *)
(* Negotiation implements this specification when each session is started  *)
(* by one request.                                                         *)
(***************************************************************************)
EXTENDS NegotiationEngine

CONSTANTS Session, MaxRounds

VARIABLES state, currentRound

protocolVars == <<state, currentRound>>

Init ==
    /\ state = [s \in Session |-> "NONE"]
    /\ currentRound = [s \in Session |-> 0]

MoveTo(s, newState, newRound) ==
    /\ state' = [state EXCEPT ![s] = newState]
    /\ currentRound' = [currentRound EXCEPT ![s] = newRound]

Create(s) ==
    state[s] = "NONE" /\ MoveTo(s, "INITIATED", 0)

Start(s) ==
    state[s] = "INITIATED" /\ MoveTo(s, "EMPLOYER_OFFER", 1)

\* One agent speaks: the decision alone determines where the session goes.
Speak(s) ==
    /\ state[s] \in ActiveState
    /\ \E d \in Decision :
           LET next == Transition(state[s], d, currentRound[s], MaxRounds)
           IN  MoveTo(s, next, NextRound(next, currentRound[s]))

\* An error ends the negotiation, perhaps after the round was counted.
Fail(s) ==
    /\ state[s] \in ActiveState
    /\ \E n \in {currentRound[s], currentRound[s] + 1} : MoveTo(s, "FAILED", n)

Next == \E s \in Session : Create(s) \/ Start(s) \/ Speak(s) \/ Fail(s)

Spec == Init /\ [][Next]_protocolVars

\* A started negotiation does not hang.
FairSpec ==
    Spec /\ \A s \in Session : WF_protocolVars(Speak(s) \/ Fail(s))
=============================================================================
