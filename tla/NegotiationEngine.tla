-------------------------- MODULE NegotiationEngine -------------------------
(***************************************************************************)
(* The negotiation state machine as pure operators                         *)
(* (backend/src/negotiation/negotiation-engine.ts).                        *)
(***************************************************************************)
EXTENDS Integers

ActiveState == {"EMPLOYER_OFFER", "SEEKER_COUNTER", "EMPLOYER_COUNTER"}
TerminalState == {"AGREED", "FAILED", "MAX_ROUNDS"}
NegotiationState == {"INITIATED"} \cup ActiveState \cup TerminalState

\* The decision is a string an AI model wrote.  OTHER stands for one that is
\* none of the three words but short enough for its varchar(10) column.
Decision == {"COUNTER", "ACCEPT", "REJECT", "OTHER"}

Role == {"EMPLOYER", "SEEKER"}

IsTerminal(state) == state \in TerminalState

\* Whose agent speaks in an active state.
RoleFor(state) == IF state = "SEEKER_COUNTER" THEN "SEEKER" ELSE "EMPLOYER"

\* Every decision that is not ACCEPT or REJECT counts as a counter-offer.
Transition_LimitOffByOne(state, decision, currentRound, maxRounds) ==
    CASE decision = "ACCEPT" -> "AGREED"
      [] decision = "REJECT" -> "FAILED"
      [] OTHER -> IF currentRound > maxRounds THEN "MAX_ROUNDS"
                  ELSE IF state = "SEEKER_COUNTER" THEN "EMPLOYER_COUNTER"
                  ELSE "SEEKER_COUNTER"
Transition_OtherAccepts(state, decision, currentRound, maxRounds) ==
    CASE decision = "REJECT" -> "FAILED"
      [] decision \in {"ACCEPT", "OTHER"} -> "AGREED"
      [] OTHER -> IF currentRound >= maxRounds THEN "MAX_ROUNDS"
                  ELSE IF state = "SEEKER_COUNTER" THEN "EMPLOYER_COUNTER"
                  ELSE "SEEKER_COUNTER"
Transition_RejectIgnored(state, decision, currentRound, maxRounds) ==
    CASE decision = "ACCEPT" -> "AGREED"
      [] OTHER -> IF currentRound >= maxRounds THEN "MAX_ROUNDS"
                  ELSE IF state = "SEEKER_COUNTER" THEN "EMPLOYER_COUNTER"
                  ELSE "SEEKER_COUNTER"
Transition(state, decision, currentRound, maxRounds) ==
    CASE decision = "ACCEPT" -> "AGREED"
      [] decision = "REJECT" -> "FAILED"
      [] OTHER -> IF currentRound >= maxRounds THEN "MAX_ROUNDS"
                  ELSE IF state = "SEEKER_COUNTER" THEN "EMPLOYER_COUNTER"
                  ELSE "SEEKER_COUNTER"

\* The round number saved with the next state.
NextRound_CountsDown(nextState, currentRound) ==
    IF IsTerminal(nextState) THEN currentRound ELSE currentRound - 1
NextRound(nextState, currentRound) ==
    IF IsTerminal(nextState) THEN currentRound ELSE currentRound + 1
=============================================================================
