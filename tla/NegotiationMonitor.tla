------------------------- MODULE NegotiationMonitor ------------------------
(***************************************************************************)
(* What a user sees of a negotiation: the monitor page (frontend/src/app/  *)
(* negotiation/[sessionId]/page.tsx), the agent status in the header        *)
(* (hooks/AgentStatusProvider.tsx), and the lists (app/negotiations,        *)
(* components/dashboard/negotiation-list.tsx).  The server's side is the    *)
(* module NegotiationProtocol; its answers come back in any order.          *)
(* The pages share no state, so a behaviour follows the one that is open.   *)
(***************************************************************************)
EXTENDS Naturals

CONSTANTS
    Ask,       \* polls that may be under way at the same time
    MaxRounds,
    MaxFaults, \* bound of the model: lost requests and pages opened
    Null

VARIABLES
    state, currentRound, \* the session, as in NegotiationProtocol
    rounds,   \* how many rounds are stored
    view,     \* "monitor", "status" or "list"
    shown,    \* the session the page has, or Null
    listed,   \* how many rounds the page has
    badge,    \* the list's row is marked as completed
    due,      \* an effect of the page has still to ask
    asks,     \* the requests for the session and for its rounds
    faults

page == <<view, shown, listed, badge, due>>
vars == <<state, currentRound, rounds, page, asks, faults>>

Protocol == INSTANCE NegotiationProtocol WITH Session <- {"s"}

Kind == {"session", "rounds"}
View == {"monitor", "status", "list"}

IsTerminal(st) == st \in {"AGREED", "FAILED", "MAX_ROUNDS"}
Over(session) == session # Null /\ IsTerminal(session.state)

Init ==
    /\ Protocol!Init
    /\ rounds = 0
    /\ view \in View
    /\ shown = Null /\ listed = 0 /\ badge = FALSE /\ due = TRUE
    /\ asks = [x \in Ask \X Kind |-> Null]
    /\ faults = 0

-----------------------------------------------------------------------------
\* The server: a round is stored before the session that counts it.

SaveRound ==
    /\ state["s"] \in Protocol!ActiveState
    /\ rounds < currentRound["s"]
    /\ rounds' = rounds + 1
    /\ UNCHANGED <<state, currentRound, page, asks, faults>>

Negotiate ==
    /\ \/ Protocol!Create("s") \/ Protocol!Start("s") \/ Protocol!Fail("s")
       \/ rounds = currentRound["s"] /\ Protocol!Speak("s")
    /\ UNCHANGED <<rounds, page, asks, faults>>

\* The agreement is rejected by a party.
Reject ==
    /\ state["s"] = "AGREED"
    /\ state' = [state EXCEPT !["s"] = "FAILED"]
    /\ UNCHANGED <<currentRound, rounds, page, asks, faults>>

Row == [state |-> state["s"], round |-> currentRound["s"]]

\* getSession, listSessions, getRounds.
Serve(i, k) ==
    /\ asks[i, k] # Null /\ asks[i, k].at = "sent"
    /\ asks' = [asks EXCEPT ![<<i, k>>] = [at |-> "back", session |-> Row, rounds |-> rounds]]
    /\ UNCHANGED <<state, currentRound, rounds, page, faults>>

-----------------------------------------------------------------------------
\* The pages.

\* Whether a page asks again without being told to: the monitor until the
\* session has ended, the status always, a list never.
MayPoll_Never == FALSE
MayPoll ==
    CASE view = "status" -> TRUE
      [] view = "list" -> FALSE
      [] OTHER -> ~Over(shown)

Asked(k) == k = "session" \/ view = "monitor"

Poll(i) ==
    /\ state["s"] # "NONE"
    /\ due \/ MayPoll
    /\ \A k \in Kind : asks[i, k] = Null
    /\ asks' = [x \in Ask \X Kind |->
                  IF x[1] = i /\ Asked(x[2]) THEN [at |-> "sent"] ELSE asks[x]]
    /\ due' = FALSE
    /\ UNCHANGED <<state, currentRound, rounds, view, shown, listed, badge, faults>>

\* The monitor's effect runs again when the session it shows ends, or is
\* active again because an older answer came late.
Reruns(session) == view = "monitor" /\ Over(session) # Over(shown)

Show(session) ==
    /\ shown' = session
    /\ due' = (due \/ Reruns(session))

Return(i, k) ==
    /\ asks[i, k] # Null /\ asks[i, k].at = "back"
    /\ asks' = [asks EXCEPT ![<<i, k>>] = Null]
    /\ IF k = "session"
       THEN Show(asks[i, k].session) /\ UNCHANGED listed
       ELSE listed' = asks[i, k].rounds /\ UNCHANGED <<shown, due>>
    /\ UNCHANGED <<state, currentRound, rounds, view, badge, faults>>

\* A lost request or answer: the status shows no session, the others keep theirs.
Lose(i, k) ==
    /\ faults < MaxFaults /\ faults' = faults + 1
    /\ asks[i, k] # Null
    /\ asks' = [asks EXCEPT ![<<i, k>>] = Null]
    /\ shown' = IF view = "status" THEN Null ELSE shown
    /\ UNCHANGED <<state, currentRound, rounds, view, listed, badge, due>>

\* The negotiation_complete event; it does not make the list ask again.
Complete ==
    /\ view = "list" /\ shown # Null
    /\ state["s"] \in {"AGREED", "FAILED"}
    /\ badge' = TRUE
    /\ UNCHANGED <<state, currentRound, rounds, view, shown, listed, due, asks, faults>>

\* The section of a row, and the page its link leads to.
Section(session) ==
    CASE session.state = "AGREED" -> "agreed"
      [] session.state \in {"FAILED", "MAX_ROUNDS"} -> "ended"
      [] OTHER -> "active"

Open(v) ==
    /\ faults < MaxFaults /\ faults' = faults + 1
    /\ view' = v /\ shown' = Null /\ listed' = 0 /\ badge' = FALSE /\ due' = TRUE
    /\ asks' = [x \in Ask \X Kind |-> Null]
    /\ UNCHANGED <<state, currentRound, rounds>>

Follow ==
    /\ view = "list" /\ shown # Null
    /\ Section(shown) \in {"active", "ended"}
    /\ Open("monitor")

Back == view # "list" /\ Open("list")

-----------------------------------------------------------------------------

Next ==
    \/ SaveRound \/ Negotiate \/ Reject \/ Complete \/ Follow \/ Back
    \/ \E i \in Ask : Poll(i)
    \/ \E i \in Ask, k \in Kind : Serve(i, k) \/ Return(i, k) \/ Lose(i, k)

\* The server answers, and the browser's timers and effects run.
Answer(i, k) == Serve(i, k) \/ Return(i, k)
Fairness ==
    /\ \A i \in Ask : WF_vars(Poll(i))
    /\ \A i \in Ask, k \in Kind : WF_vars(Answer(i, k))

Spec == Init /\ [][Next]_vars /\ Fairness

-----------------------------------------------------------------------------

\* Once a negotiation is over, the page that follows it ends up showing that it
\* is, for good, however late and in whatever order the answers of its polls
\* come (negotiation/[sessionId]/page.tsx, AgentStatusProvider.tsx).
Settled == IsTerminal(state["s"]) => view = "list" \/ Over(shown)
MonitorSettles == <>[]Settled
=============================================================================
