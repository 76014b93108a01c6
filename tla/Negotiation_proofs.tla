------------------------- MODULE Negotiation_proofs -------------------------
(***************************************************************************)
(* Proofs about Negotiation, for any number of sessions, requests,         *)
(* directions, rounds and faults.  TypeCorrect and AgreementsHaveTerms     *)
(* hold for every assignment of requests to sessions; the others are about *)
(* sessions that are started by one request each (OneRequestEach), as      *)
(* RealNegotiationHandoff starts them.  FollowsProtocol is the refinement  *)
(* of NegotiationProtocol, step by step.                                   *)
(***************************************************************************)
EXTENDS Negotiation, TLAPS

-----------------------------------------------------------------------------
\* What the operators of the engine return.

Round == [round : Nat, role : Role, decision : Decision]

LEMMA EngineTypes ==
    /\ \A state : RoleFor(state) \in Role
    /\ \A state, n, d : Transition(state, d, n, MaxRounds) \in NegotiationState
    /\ \A state : \A n \in Nat : NextRound(state, n) \in Nat
BY DEF RoleFor, Role, Transition, NegotiationState, ActiveState,
       TerminalState, NextRound

\* Types of the session that one more answer leads to.
LEMMA SpokenRow ==
    ASSUME NEW r \in Row, NEW d
    PROVE  LET next == Transition(r.state, d, r.currentRound, MaxRounds)
           IN  [state |-> next,
                currentRound |-> NextRound(next, r.currentRound)] \in Row
BY EngineTypes DEF Row

\* The two ways into the next part of a run, in the terms of TypeOK.
LEMMA BeginTurnTypes ==
    ASSUME TypeOK, NEW x \in Request, NEW session,
           NEW map \in [Key -> Direction \cup {NoDirection}],
           BeginTurn(x, session, map)
    PROVE  /\ turn' \in [Request -> Role]
           /\ taken' \in [Request -> Direction \cup {NoDirection}]
           /\ retried' \in [Request -> BOOLEAN]
           /\ shown' \in [Key -> SUBSET Direction]
           /\ pc' \in [Request -> Stage]
<1> DEFINE role == RoleFor(session.state)
           key  == <<Target[x], role>>
<1>1. role \in Role /\ key \in Key
  BY EngineTypes, NegotiationAssumption DEF Key
<1>2. map[key] \in Direction \cup {NoDirection}
  BY <1>1
<1>3. shown[key] \cup ({map[key]} \ {NoDirection}) \in SUBSET Direction
  BY <1>1, <1>2 DEF TypeOK
<1>4. /\ turn' = [turn EXCEPT ![x] = role]
      /\ taken' = [taken EXCEPT ![x] = map[key]]
      /\ retried' = [retried EXCEPT ![x] = FALSE]
      /\ shown' = [shown EXCEPT
                      ![key] = shown[key] \cup ({map[key]} \ {NoDirection})]
      /\ pc' = [pc EXCEPT ![x] = "calling"]
  BY DEF BeginTurn
<1>5. "calling" \in Stage
  BY DEF Stage
<1>. HIDE DEF role, key
<1>. QED
  BY <1>1, <1>2, <1>3, <1>4, <1>5 DEF TypeOK

LEMMA EndLoopTypes ==
    ASSUME TypeOK, NEW x \in Request, NEW session, EndLoop(x, session)
    PROVE  completions' \in [Session -> Nat] /\ pc' \in [Request -> Stage]
<1>1. Target[x] \in Session
  BY NegotiationAssumption
<1>2. completions' = [completions EXCEPT ![Target[x]] = @ + 1]
      \/ completions' = completions
  BY DEF EndLoop
<1>3. "done" \in Stage /\ pc' = [pc EXCEPT ![x] = "done"]
  BY DEF EndLoop, Stage
<1>. QED
  BY <1>1, <1>2, <1>3 DEF TypeOK

LEMMA ClearedTypes ==
    ASSUME TypeOK, NEW x \in Request
    PROVE  Cleared(x) \in [Key -> Direction \cup {NoDirection}]
BY NegotiationAssumption DEF TypeOK, Cleared, Key

LEMMA TypesInductive == TypeOK /\ [Next]_vars => TypeOK'
<1>. SUFFICES ASSUME TypeOK, [Next]_vars PROVE TypeOK'
  OBVIOUS
<1>. USE NegotiationAssumption
<1>0. \A x \in Request : Target[x] \in Session
  OBVIOUS
<1>1. ASSUME NEW s \in Session, Create(s) PROVE TypeOK'
  <2>1. [state |-> "INITIATED", currentRound |-> 0] \in Row
    BY DEF Row, NegotiationState
  <2>. QED
    BY <1>1, <2>1 DEF Create, TypeOK
<1>2. ASSUME NEW x \in Request, StartRead(x) PROVE TypeOK'
  <2>1. rows[Target[x]] \in Row
    BY <1>0 DEF TypeOK
  <2>2. PICK p \in Stage : pc' = [pc EXCEPT ![x] = p]
    BY <1>2 DEF StartRead, Stage
  <2>. QED
    BY <1>2, <2>1, <2>2 DEF StartRead, TypeOK
<1>3. ASSUME NEW x \in Request, StartSave(x) PROVE TypeOK'
  <2>1. [state |-> "EMPLOYER_OFFER", currentRound |-> 1] \in Row
    BY DEF Row, NegotiationState, ActiveState
  <2>2. "loading" \in Stage
    BY DEF Stage
  <2>3. /\ mem' \in [Request -> Row]
        /\ mem'[x] = [state |-> "EMPLOYER_OFFER", currentRound |-> 1]
    BY <1>0, <1>3, <2>1 DEF StartSave, TypeOK
  <2>4. rows' \in [Session -> Row]
    BY <1>0, <1>3, <2>1, <2>3 DEF StartSave, TypeOK
  <2>. QED
    BY <1>3, <2>2, <2>3, <2>4 DEF StartSave, TypeOK
<1>4. ASSUME NEW x \in Request, Load(x) PROVE TypeOK'
  <2>1. Reloaded(x) \in Row /\ "preparing" \in Stage
    BY <1>0 DEF Stage, TypeOK, Reloaded
  <2>. QED
    BY <1>4, <2>1 DEF Load, TypeOK
<1>5. ASSUME NEW x \in Request, Prepare(x) PROVE TypeOK'
  <2>0. UNCHANGED <<rows, rounds, interventions, mem, faults>>
    BY <1>5 DEF Prepare
  <2>1. CASE Target[x] \in KeyUndecodable
    <3>1. "dead" \in Stage
      BY DEF Stage
    <3>. QED
      BY <1>5, <2>0, <2>1, <3>1 DEF Prepare, TypeOK
  <2>2. CASE Target[x] \notin KeyUndecodable /\ IsTerminal(mem[x].state)
    <3>1. EndLoop(x, mem[x]) /\ UNCHANGED <<turn, taken, retried, shown>>
      BY <1>5, <2>2 DEF Prepare
    <3>. QED
      BY <2>0, <3>1, EndLoopTypes DEF TypeOK
  <2>3. CASE Target[x] \notin KeyUndecodable /\ ~ IsTerminal(mem[x].state)
    <3>1. BeginTurn(x, mem[x], interventions) /\ UNCHANGED completions
      BY <1>5, <2>3 DEF Prepare
    <3>2. interventions \in [Key -> Direction \cup {NoDirection}]
      BY DEF TypeOK
    <3>. QED
      BY <2>0, <3>1, <3>2, BeginTurnTypes DEF TypeOK
  <2>. QED
    BY <2>1, <2>2, <2>3
<1>6. ASSUME NEW x \in Request, GarbledReply(x) PROVE TypeOK'
  BY <1>6 DEF GarbledReply, TypeOK
<1>7. ASSUME NEW x \in Request, NEW d \in Decision, Reply(x, d) PROVE TypeOK'
  <2>. DEFINE new == [round |-> mem[x].currentRound, role |-> turn[x],
                      decision |-> d]
              next == Transition(mem[x].state, d, mem[x].currentRound,
                                 MaxRounds)
              row == [state |-> next,
                      currentRound |-> NextRound(next, mem[x].currentRound)]
  <2>1. new \in Round
    BY DEF TypeOK, Row, Round
  <2>2. row \in Row
    BY SpokenRow DEF TypeOK
  <2>3. "saving" \in Stage
    BY DEF Stage
  <2>4. /\ rounds' = [rounds EXCEPT
                          ![Target[x]] = Append(rounds[Target[x]], new)]
        /\ mem' = [mem EXCEPT ![x] = row]
        /\ pc' = [pc EXCEPT ![x] = "saving"]
        /\ UNCHANGED <<rows, interventions, turn, taken, retried,
                       completions, shown, faults>>
    BY <1>7 DEF Reply
  <2>. HIDE DEF new, row
  <2>5. rounds[Target[x]] \in Seq(Round)
    BY <1>0 DEF TypeOK, Round
  <2>6. Append(rounds[Target[x]], new) \in Seq(Round)
    BY <2>1, <2>5
  <2>7. rounds' \in [Session -> Seq(Round)]
    BY <2>4, <2>6 DEF TypeOK, Round
  <2>. QED
    BY <2>2, <2>3, <2>4, <2>7 DEF TypeOK, Round
<1>8. ASSUME NEW x \in Request, SaveSession(x) PROVE TypeOK'
  <2>1. mem[x] \in Row /\ "saved" \in Stage
    BY DEF Stage, TypeOK
  <2>. QED
    BY <1>8, <2>1 DEF SaveSession, TypeOK
<1>9. ASSUME NEW x \in Request, EndTurn(x) PROVE TypeOK'
  <2>0. /\ UNCHANGED <<rows, rounds, mem, faults>>
        /\ interventions' = Cleared(x)
    BY <1>9 DEF EndTurn
  <2>1. interventions' \in [Key -> Direction \cup {NoDirection}]
    BY <2>0, ClearedTypes
  <2>2. CASE IsTerminal(mem[x].state)
    <3>1. EndLoop(x, mem[x]) /\ UNCHANGED <<turn, taken, retried, shown>>
      BY <1>9, <2>2 DEF EndTurn
    <3>. QED
      BY <2>0, <2>1, <3>1, EndLoopTypes DEF TypeOK
  <2>3. CASE ~ IsTerminal(mem[x].state)
    <3>1. BeginTurn(x, mem[x], Cleared(x)) /\ UNCHANGED completions
      BY <1>9, <2>3 DEF EndTurn
    <3>. QED
      BY <2>0, <2>1, <3>1, ClearedTypes, BeginTurnTypes DEF TypeOK
  <2>. QED
    BY <2>2, <2>3
<1>10. ASSUME NEW x \in Request, FailRound(x) PROVE TypeOK'
  <2>1. FailedSession(x) \in Row
    BY DEF TypeOK, FailedSession, Row, NegotiationState, TerminalState
  <2>2. /\ mem' = [mem EXCEPT ![x] = FailedSession(x)]
        /\ mem'[x] = FailedSession(x)
        /\ rows' = [rows EXCEPT ![Target[x]] = mem'[x]]
    BY <1>10 DEF FailRound, TypeOK
  <2>3. "finishing" \in Stage
    BY DEF Stage
  <2>4. /\ rows' = [rows EXCEPT ![Target[x]] = FailedSession(x)]
        /\ pc' = [pc EXCEPT ![x] = "finishing"]
        /\ UNCHANGED <<rounds, interventions, turn, taken, retried,
                       completions, shown, faults>>
    BY <1>10, <2>2 DEF FailRound
  <2>5. rows' \in [Session -> Row] /\ mem' \in [Request -> Row]
    BY <2>1, <2>2, <2>4 DEF TypeOK
  <2>. QED
    BY <2>3, <2>4, <2>5 DEF TypeOK
<1>11. ASSUME NEW x \in Request, Finish(x) PROVE TypeOK'
  <2>1. EndLoop(x, mem[x])
    BY <1>11 DEF Finish
  <2>. QED
    BY <1>11, <2>1, EndLoopTypes DEF Finish, TypeOK
<1>12. ASSUME NEW x \in Request, FailureSaveLost(x) PROVE TypeOK'
  <2>1. "dead" \in Stage
    BY DEF Stage
  <2>2. faults' \in 0 .. MaxFaults
    BY <1>12 DEF FailureSaveLost, TypeOK
  <2>. QED
    BY <1>12, <2>1, <2>2 DEF FailureSaveLost, TypeOK
<1>13. ASSUME NEW k \in Key, NEW d \in Direction, Intervene(k[1], k[2], d)
       PROVE TypeOK'
  <2>1. <<k[1], k[2]>> \in Key
    BY DEF Key
  <2>. QED
    BY <1>13, <2>1 DEF Intervene, TypeOK
<1>14. ASSUME Restart PROVE TypeOK'
  <2>1. "dead" \in Stage
    BY DEF Stage
  <2>2. faults' \in 0 .. MaxFaults
    BY <1>14 DEF Restart, TypeOK
  <2>3. \A x \in Request :
            (IF pc[x] \in Executing \cup {"checked"} THEN "dead" ELSE pc[x])
                \in Stage
    BY <2>1 DEF TypeOK
  <2>4. pc' \in [Request -> Stage]
    BY <1>14, <2>3 DEF Restart
  <2>5. interventions' \in [Key -> Direction \cup {NoDirection}]
    BY <1>14 DEF Restart
  <2>. QED
    BY <1>14, <2>2, <2>4, <2>5 DEF Restart, TypeOK
<1>15. ASSUME UNCHANGED vars PROVE TypeOK'
  BY <1>15 DEF vars, TypeOK
<1>. QED
  BY <1>1, <1>2, <1>3, <1>4, <1>5, <1>6, <1>7, <1>8, <1>9, <1>10, <1>11,
     <1>12, <1>13, <1>14, <1>15 DEF Next, Run

LEMMA TypesInitially == Init => TypeOK
<1>. SUFFICES ASSUME Init PROVE TypeOK
  OBVIOUS
<1>1. NoRow \in Row /\ <<>> \in Seq(Round)
  BY DEF Row, NoRow
<1>. QED
  BY <1>1, NegotiationAssumption
     DEF Init, TypeOK, Round, Role, Stage

\* Every session row, round, direction and run has its type, for every
\* assignment of requests to sessions and any number of them.
THEOREM TypeCorrect == Spec => []TypeOK
<1>. QED
  BY TypesInitially, TypesInductive, PTL DEF Spec

-----------------------------------------------------------------------------
\* An agreement has the round it was made in, even when several requests
\* start one session: the session object of a run says AGREED only after the
\* run has saved an ACCEPT round, and rounds are never deleted.

HasAccept(h) == \E i \in DOMAIN h : h[i].decision = "ACCEPT"

AcceptBehind ==
    /\ \A s \in Session : rows[s].state = "AGREED" => HasAccept(rounds[s])
    /\ \A x \in Request :
           mem[x].state = "AGREED" => HasAccept(rounds[Target[x]])

LEMMA AppendedAccept ==
    ASSUME NEW h \in Seq(Round), NEW e \in Round
    PROVE  /\ HasAccept(h) => HasAccept(Append(h, e))
           /\ e.decision = "ACCEPT" => HasAccept(Append(h, e))
<1>1. /\ DOMAIN Append(h, e) = 1 .. Len(h) + 1
      /\ DOMAIN h = 1 .. Len(h) /\ Len(h) \in Nat
      /\ \A i \in 1 .. Len(h) : Append(h, e)[i] = h[i]
      /\ Append(h, e)[Len(h) + 1] = e
  OBVIOUS
<1>. QED
  BY <1>1 DEF HasAccept

LEMMA AgreedByAccept ==
    \A state, n, d : Transition(state, d, n, MaxRounds) = "AGREED"
                         <=> d = "ACCEPT"
BY DEF Transition

LEMMA AcceptInductive ==
    TypeOK /\ AcceptBehind /\ [Next]_vars => AcceptBehind'
<1>. SUFFICES ASSUME TypeOK, AcceptBehind, [Next]_vars
              PROVE  AcceptBehind'
  OBVIOUS
<1>0. \A x \in Request : Target[x] \in Session
  BY NegotiationAssumption
\* Most steps touch neither the rows nor the rounds nor a session object.
<1>a. ASSUME UNCHANGED <<rows, rounds, mem>> PROVE AcceptBehind'
  BY <1>a DEF AcceptBehind
<1>1. ASSUME NEW s \in Session, Create(s) PROVE AcceptBehind'
  <2>1. \A z \in Session : rows'[z].state = "AGREED" => rows'[z] = rows[z]
    BY <1>1 DEF Create, TypeOK
  <2>. QED
    BY <1>1, <2>1 DEF Create, AcceptBehind
<1>2. ASSUME NEW x \in Request,
             mem' = [mem EXCEPT ![x] = rows[Target[x]]],
             UNCHANGED <<rows, rounds>>
      PROVE  AcceptBehind'
  <2>1. \A z \in Request : mem'[z] = mem[z] \/ mem'[z] = rows[Target[z]]
    BY <1>2 DEF TypeOK
  <2>. QED
    BY <1>0, <1>2, <2>1 DEF AcceptBehind
<1>3. ASSUME NEW x \in Request, StartSave(x) PROVE AcceptBehind'
  <2>1. /\ mem'[x].state = "EMPLOYER_OFFER"
        /\ \A z \in Request \ {x} : mem'[z] = mem[z]
    BY <1>0, <1>3 DEF StartSave, TypeOK
  <2>2. \A z \in Session : rows'[z].state = "AGREED" => rows'[z] = rows[z]
    BY <1>0, <1>3, <2>1 DEF StartSave, TypeOK
  <2>3. /\ \A z \in Request : mem'[z].state = "AGREED" => mem'[z] = mem[z]
        /\ UNCHANGED rounds
    BY <1>3, <2>1 DEF StartSave
  <2>. QED
    BY <2>2, <2>3 DEF AcceptBehind
<1>4. ASSUME NEW x \in Request, NEW d \in Decision, Reply(x, d)
      PROVE  AcceptBehind'
  <2>. DEFINE new == [round |-> mem[x].currentRound, role |-> turn[x],
                      decision |-> d]
  <2>1. new \in Round /\ new.decision = d
    BY DEF TypeOK, Row, Round
  <2>2. rounds[Target[x]] \in Seq(Round)
    BY <1>0 DEF TypeOK, Round
  <2>3. /\ rounds' = [rounds EXCEPT
                          ![Target[x]] = Append(rounds[Target[x]], new)]
        /\ rows' = rows
        /\ \A z \in Request : z # x => mem'[z] = mem[z]
        /\ mem'[x].state = "AGREED" => d = "ACCEPT"
    BY <1>4, AgreedByAccept DEF Reply, TypeOK
  <2>. HIDE DEF new
  <2>4. \A s \in Session : HasAccept(rounds[s]) => HasAccept(rounds'[s])
    BY <2>1, <2>2, <2>3, AppendedAccept DEF TypeOK
  <2>5. d = "ACCEPT" => HasAccept(rounds'[Target[x]])
    BY <1>0, <2>1, <2>2, <2>3, AppendedAccept DEF TypeOK
  <2>. QED
    BY <1>0, <2>3, <2>4, <2>5 DEF AcceptBehind
<1>5. ASSUME NEW x \in Request, SaveSession(x) PROVE AcceptBehind'
  <2>1. \A z \in Session :
            rows'[z] = rows[z] \/ (z = Target[x] /\ rows'[z] = mem[x])
    BY <1>5 DEF SaveSession, TypeOK
  <2>. QED
    BY <1>5, <2>1 DEF SaveSession, AcceptBehind
<1>6. ASSUME NEW x \in Request, FailRound(x) PROVE AcceptBehind'
  <2>1. FailedSession(x).state = "FAILED"
    BY DEF FailedSession, TypeOK, Row
  <2>2. /\ rounds' = rounds
        /\ mem' = [mem EXCEPT ![x] = FailedSession(x)]
        /\ rows' = [rows EXCEPT ![Target[x]] = mem'[x]]
    BY <1>6 DEF FailRound
  <2>3. \A z \in Request : mem'[z] = mem[z] \/ mem'[z].state = "FAILED"
    BY <2>1, <2>2 DEF TypeOK
  <2>4. mem'[x].state = "FAILED"
    BY <2>1, <2>2 DEF TypeOK
  <2>5. \A z \in Session : rows'[z] = rows[z] \/ rows'[z].state = "FAILED"
    BY <2>2, <2>4 DEF TypeOK
  <2>. QED
    BY <2>2, <2>3, <2>5 DEF AcceptBehind
<1>. QED
  BY <1>a, <1>1, <1>2, <1>3, <1>4, <1>5, <1>6
     DEF Next, Run, StartRead, Load, Reloaded, Prepare, GarbledReply, EndTurn,
         Finish, FailureSaveLost, Intervene, Restart, vars

\* However many requests start a session and however their runs overwrite
\* each other's saves, AgreementService.approve finds the agreed terms of a
\* session stored as AGREED.
THEOREM AgreementsHaveTerms == Spec => []AgreementHasAcceptRound
<1>1. Init => AcceptBehind
  BY NegotiationAssumption DEF Init, AcceptBehind, NoRow
<1>2. AcceptBehind => AgreementHasAcceptRound
  BY DEF AcceptBehind, AgreementHasAcceptRound, HasAccept
<1>. QED
  BY <1>1, <1>2, TypeCorrect, AcceptInductive, PTL DEF Spec

-----------------------------------------------------------------------------
(***************************************************************************)
(* Sessions that are started by one request each: where the stored row,    *)
(* its rounds and the session object of its run stand to each other.  r is *)
(* a row, h the rounds of its session.                                     *)
(***************************************************************************)

OneRequestEach == \A x, y \in Request : Target[x] = Target[y] => x = y

Turns(h) ==
    \A i \in 1 .. Len(h) :
        h[i].round = i /\ (h[i].role = "EMPLOYER" <=> i % 2 = 1)

\* None of the first n rounds was the last word.
NoVerdict(h, n) ==
    \A i \in 1 .. n : h[i].decision \notin {"ACCEPT", "REJECT"}

InTurn(r) ==
    /\ r.state \in ActiveState
    /\ r.currentRound \in 1 .. RoundLimit
    /\ r.state = "EMPLOYER_OFFER" <=> r.currentRound = 1
    /\ r.state = "SEEKER_COUNTER" <=> r.currentRound % 2 = 0

\* Not started, the current round not played, played but not yet counted in
\* the row, over.
Fresh(r, h) ==
    h = <<>> /\ r \in {NoRow, [state |-> "INITIATED", currentRound |-> 0]}
Awaits(r, h) ==
    InTurn(r) /\ Len(h) = r.currentRound - 1 /\ NoVerdict(h, Len(h))
Heard(r, h) ==
    InTurn(r) /\ Len(h) = r.currentRound /\ NoVerdict(h, Len(h) - 1)
Ended(r, h) ==
    /\ r.state \in TerminalState
    /\ Len(h) \in {r.currentRound - 1, r.currentRound}
    /\ Len(h) <= RoundLimit
    /\ NoVerdict(h, Len(h) - 1)
    /\ r.state = "AGREED" => Len(h) > 0 /\ h[Len(h)].decision = "ACCEPT"
    /\ r.state = "MAX_ROUNDS" => Len(h) = RoundLimit

\* The row after an answer to r.
Spoken(r, d) ==
    LET next == Transition(r.state, d, r.currentRound, MaxRounds)
    IN  [state |-> next, currentRound |-> NextRound(next, r.currentRound)]

SessionAt(r, h) ==
    Turns(h) /\ (Fresh(r, h) \/ Awaits(r, h) \/ Heard(r, h) \/ Ended(r, h))

\* What a run at stage p with session object m and role t knows of its
\* session, c times announced.
StageAt(p, m, t, r, h, c) ==
    /\ p # "refused"
    /\ p = "idle" => Fresh(r, h)
    /\ p = "checked" => Fresh(r, h) /\ r.state = "INITIATED"
    /\ p = "loading" => Awaits(r, h)
    /\ p = "preparing" => m = r /\ Awaits(r, h)
    /\ p = "calling" => m = r /\ Awaits(r, h) /\ t = RoleFor(r.state)
    /\ p = "saving" => Heard(r, h) /\ m = Spoken(r, h[Len(h)].decision)
    /\ p = "saved" => m = r /\ (Awaits(r, h) \/ Ended(r, h))
    /\ p = "finishing" => m = r /\ Ended(r, h) /\ r.state = "FAILED"
    /\ p = "done" => /\ Ended(r, h)
                     /\ c = 0 \/ (c = 1 /\ r.state \in {"AGREED", "FAILED"})
    /\ p # "done" => c = 0

InStep(x) == StageAt(pc[x], mem[x], turn[x], rows[Target[x]],
                     rounds[Target[x]], completions[Target[x]])

Orderly ==
    /\ \A s \in Session :
           /\ SessionAt(rows[s], rounds[s])
           /\ (\A x \in Request : Target[x] # s) => completions[s] = 0
    /\ \A x \in Request : InStep(x)

-----------------------------------------------------------------------------
\* One answer, in terms of one row and its rounds.

LEMMA LimitType == RoundLimit \in Nat \ {0} /\ MaxRounds <= RoundLimit
BY NegotiationAssumption DEF RoundLimit

LEMMA AppendedRound ==
    ASSUME NEW h \in Seq(Round), NEW e \in Round
    PROVE  /\ Len(Append(h, e)) = Len(h) + 1 /\ Len(h) \in Nat
           /\ \A i \in 1 .. Len(h) : Append(h, e)[i] = h[i]
           /\ Append(h, e)[Len(h) + 1] = e
OBVIOUS

\* The answer to an awaited turn is the round the row is waiting for.
LEMMA ReplyIsHeard ==
    ASSUME NEW r \in Row, NEW h \in Seq(Round), NEW d \in Decision,
           Turns(h), Awaits(r, h),
           NEW e, e = [round |-> r.currentRound, role |-> RoleFor(r.state),
                       decision |-> d]
    PROVE  LET new == Append(h, e)
           IN  /\ Turns(new) /\ Heard(r, new)
               /\ new[Len(new)].decision = d
<1> DEFINE new == Append(h, e)
<1>1. /\ r.currentRound \in Nat /\ r.currentRound = Len(h) + 1
      /\ InTurn(r) /\ NoVerdict(h, Len(h)) /\ Len(h) \in Nat
  BY DEF Awaits, Row
<1>2. e \in Round
  BY EngineTypes, <1>1 DEF Round
<1>3. /\ Len(new) = Len(h) + 1
      /\ \A i \in 1 .. Len(h) : new[i] = h[i]
      /\ new[Len(h) + 1] = e
  BY <1>2, AppendedRound
<1>. HIDE DEF new
<1>4. e.role = "EMPLOYER" <=> r.currentRound % 2 = 1
  <2>1. e.role = RoleFor(r.state)
    OBVIOUS
  <2>2. r.state = "SEEKER_COUNTER" <=> r.currentRound % 2 = 0
    BY <1>1 DEF InTurn
  <2>3. r.currentRound % 2 \in {0, 1}
    BY <1>1
  <2>. QED
    BY <2>1, <2>2, <2>3 DEF RoleFor
<1>5. Turns(new)
  <2>. SUFFICES ASSUME NEW i \in 1 .. Len(new)
                PROVE  /\ new[i].round = i
                       /\ new[i].role = "EMPLOYER" <=> i % 2 = 1
    BY DEF Turns
  <2>1. CASE i \in 1 .. Len(h)
    BY <1>3, <2>1 DEF Turns
  <2>2. CASE i = Len(h) + 1
    BY <1>1, <1>3, <1>4, <2>2
  <2>. QED
    BY <1>1, <1>3, <2>1, <2>2
<1>6. NoVerdict(new, Len(new) - 1)
  <2>1. Len(new) - 1 = Len(h)
    BY <1>1, <1>3
  <2>. QED
    BY <1>1, <1>3, <2>1 DEF NoVerdict
<1>7. Heard(r, new)
  BY <1>1, <1>3, <1>6 DEF Heard
<1>. QED
  BY <1>1, <1>3, <1>5, <1>7 DEF new

\* Saving the transition leads to the next turn or to the end.
LEMMA HeardGoesOn ==
    ASSUME NEW r \in Row, NEW h \in Seq(Round), Turns(h), Heard(r, h)
    PROVE  LET m == Spoken(r, h[Len(h)].decision)
           IN  Awaits(m, h) \/ Ended(m, h)
<1> DEFINE d == h[Len(h)].decision
           n == r.currentRound
           next == Transition(r.state, d, n, MaxRounds)
           m == Spoken(r, d)
<1>. SUFFICES Awaits(m, h) \/ Ended(m, h)
  OBVIOUS
<1>1. /\ n \in Nat \ {0} /\ Len(h) = n /\ Len(h) \in Nat
      /\ n <= RoundLimit /\ RoundLimit \in Nat \ {0}
      /\ MaxRounds \in Nat
      /\ r.state \in ActiveState
      /\ r.state = "EMPLOYER_OFFER" <=> n = 1
      /\ r.state = "SEEKER_COUNTER" <=> n % 2 = 0
      /\ NoVerdict(h, Len(h) - 1)
  BY LimitType, NegotiationAssumption DEF Heard, InTurn, Row
<1>2. m.state = next /\ m.currentRound = NextRound(next, n)
  BY DEF Spoken
<1>. HIDE DEF n, m
<1>3. CASE d = "ACCEPT"
  <2>1. next = "AGREED"
    BY <1>3 DEF Transition
  <2>2. m.state = "AGREED" /\ m.currentRound = n
    BY <1>2, <2>1 DEF NextRound, IsTerminal, TerminalState
  <2>. QED
    BY <1>1, <1>3, <2>2 DEF Ended, TerminalState
<1>4. CASE d = "REJECT"
  <2>1. next = "FAILED"
    BY <1>4 DEF Transition
  <2>2. m.state = "FAILED" /\ m.currentRound = n
    BY <1>2, <2>1 DEF NextRound, IsTerminal, TerminalState
  <2>. QED
    BY <1>1, <2>2 DEF Ended, TerminalState
<1>5. CASE d \notin {"ACCEPT", "REJECT"} /\ n >= MaxRounds
  <2>1. next = "MAX_ROUNDS"
    BY <1>5 DEF Transition
  <2>2. m.state = "MAX_ROUNDS" /\ m.currentRound = n
    BY <1>2, <2>1 DEF NextRound, IsTerminal, TerminalState
  <2>3. n = RoundLimit
    BY <1>1, <1>5 DEF RoundLimit
  <2>. QED
    BY <1>1, <2>2, <2>3 DEF Ended, TerminalState
<1>6. CASE d \notin {"ACCEPT", "REJECT"} /\ ~ (n >= MaxRounds)
  <2>1. next = IF r.state = "SEEKER_COUNTER" THEN "EMPLOYER_COUNTER"
                                              ELSE "SEEKER_COUNTER"
    BY <1>6 DEF Transition
  <2>2. m.state = next /\ m.currentRound = n + 1
    BY <1>2, <2>1 DEF NextRound, IsTerminal, TerminalState
  <2>3. n + 1 \in 1 .. RoundLimit /\ n + 1 # 1 /\ Len(h) = n + 1 - 1
    BY <1>1, <1>6, LimitType
  <2>4. n % 2 = 0 <=> (n + 1) % 2 # 0
    BY <1>1
  <2>5. m.state \in ActiveState /\ m.state # "EMPLOYER_OFFER"
        /\ (m.state = "SEEKER_COUNTER" <=> r.state # "SEEKER_COUNTER")
    BY <2>1, <2>2 DEF ActiveState
  <2>6. InTurn(m)
    BY <1>1, <2>2, <2>3, <2>4, <2>5 DEF InTurn
  <2>7. NoVerdict(h, Len(h))
    BY <1>1, <1>6 DEF NoVerdict
  <2>8. Len(h) = m.currentRound - 1
    BY <1>1, <2>2
  <2>. QED
    BY <2>6, <2>7, <2>8 DEF Awaits
<1>. QED
  BY <1>3, <1>4, <1>5, <1>6 DEF n

\* The error path ends a session, before or after its transition was made in
\* memory.
LEMMA FailureEnds ==
    ASSUME NEW r \in Row, NEW h \in Seq(Round), Turns(h), NEW m \in Row,
           \/ Awaits(r, h) /\ m = r
           \/ Heard(r, h) /\ m = Spoken(r, h[Len(h)].decision)
    PROVE  Ended([m EXCEPT !.state = "FAILED"], h)
<1> DEFINE f == [m EXCEPT !.state = "FAILED"]
<1>1. f.state = "FAILED" /\ f.currentRound = m.currentRound
  BY DEF Row
<1>2. Awaits(m, h) \/ Ended(m, h)
  BY HeardGoesOn
<1>3. RoundLimit \in Nat /\ Len(h) \in Nat /\ m.currentRound \in Nat
  BY LimitType DEF Row
<1>4. /\ Len(h) \in {m.currentRound - 1, m.currentRound}
      /\ Len(h) <= RoundLimit /\ NoVerdict(h, Len(h) - 1)
  <2>1. CASE Awaits(m, h)
    BY <1>3, <2>1 DEF Awaits, InTurn, NoVerdict
  <2>2. CASE Ended(m, h)
    BY <2>2 DEF Ended
  <2>. QED
    BY <1>2, <2>1, <2>2
<1>. QED
  BY <1>1, <1>4 DEF Ended, TerminalState

-----------------------------------------------------------------------------
\* No step of a run, a user or a fault disturbs that order.

\* What a step does to the session of one request leaves the others alone.
LEMMA OneSessionStep ==
    ASSUME OneRequestEach, TypeOK, Orderly, NEW x \in Request,
           \A z \in Session \ {Target[x]} :
               /\ rows'[z] = rows[z] /\ rounds'[z] = rounds[z]
               /\ completions'[z] = completions[z],
           \A y \in Request \ {x} :
               pc'[y] = pc[y] /\ mem'[y] = mem[y] /\ turn'[y] = turn[y],
           SessionAt(rows'[Target[x]], rounds'[Target[x]]),
           StageAt(pc'[x], mem'[x], turn'[x], rows'[Target[x]],
                   rounds'[Target[x]], completions'[Target[x]])
    PROVE  Orderly'
<1>1. \A y \in Request : Target[y] \in Session
  BY NegotiationAssumption
<1>2. \A y \in Request \ {x} : Target[y] \in Session \ {Target[x]}
  BY <1>1 DEF OneRequestEach
<1>3. ASSUME NEW y \in Request PROVE InStep(y)'
  <2>1. CASE y = x
    BY <2>1 DEF InStep
  <2>2. CASE y # x
    BY <1>2, <2>2 DEF InStep, Orderly
  <2>. QED
    BY <2>1, <2>2
<1>4. ASSUME NEW s \in Session
      PROVE  /\ SessionAt(rows'[s], rounds'[s])
             /\ (\A y \in Request : Target[y] # s) => completions'[s] = 0
  BY DEF Orderly
<1>. QED
  BY <1>3, <1>4 DEF Orderly

\* Out of the loop at an end that is stored.
LEMMA EndLoopStep ==
    ASSUME TypeOK, NEW x \in Request, EndLoop(x, mem[x]),
           completions[Target[x]] = 0
    PROVE  /\ pc'[x] = "done"
           /\ \A y \in Request \ {x} : pc'[y] = pc[y]
           /\ \A z \in Session \ {Target[x]} : completions'[z] = completions[z]
           /\ \/ completions'[Target[x]] = 0
              \/ /\ completions'[Target[x]] = 1
                 /\ mem[x].state \in {"AGREED", "FAILED"}
<1>1. Target[x] \in Session
  BY NegotiationAssumption
<1>2. CASE Announced(mem[x].state)
  BY <1>1, <1>2 DEF EndLoop, TypeOK, Announced
<1>3. CASE ~ Announced(mem[x].state)
  BY <1>1, <1>3 DEF EndLoop, TypeOK
<1>. QED
  BY <1>2, <1>3

LEMMA BeginTurnStep ==
    ASSUME TypeOK, NEW x \in Request, NEW session, NEW map,
           BeginTurn(x, session, map)
    PROVE  /\ pc'[x] = "calling" /\ turn'[x] = RoleFor(session.state)
           /\ \A y \in Request \ {x} : pc'[y] = pc[y] /\ turn'[y] = turn[y]
BY DEF BeginTurn, TypeOK

LEMMA OrderInductive ==
    OneRequestEach /\ TypeOK /\ Orderly /\ [Next]_vars => Orderly'
<1>. SUFFICES ASSUME OneRequestEach, TypeOK, Orderly, [Next]_vars
              PROVE  Orderly'
  OBVIOUS
<1>0. \A x \in Request : /\ Target[x] \in Session
                         /\ InStep(x)
                         /\ SessionAt(rows[Target[x]], rounds[Target[x]])
                         /\ rows[Target[x]] \in Row /\ mem[x] \in Row
                         /\ rounds[Target[x]] \in Seq(Round)
  BY NegotiationAssumption DEF Orderly, TypeOK, Round
\* Steps that touch nothing of it.
<1>a. ASSUME UNCHANGED <<rows, rounds, pc, mem, turn, completions>>
      PROVE  Orderly'
  BY <1>a DEF Orderly, InStep
<1>1. ASSUME NEW s \in Session, Create(s) PROVE Orderly'
  <2>1. /\ rows' = [rows EXCEPT ![s] = [state |-> "INITIATED",
                                        currentRound |-> 0]]
        /\ rows[s].state = "NONE"
        /\ UNCHANGED <<rounds, pc, mem, turn, completions>>
    BY <1>1 DEF Create
  <2>2. Fresh(rows[s], rounds[s]) /\ Turns(rounds[s])
    BY <2>1 DEF Orderly, SessionAt, Awaits, Heard, Ended, InTurn, ActiveState,
                TerminalState
  <2>3. rows'[s] = [state |-> "INITIATED", currentRound |-> 0]
        /\ \A z \in Session \ {s} : rows'[z] = rows[z]
    BY <2>1 DEF TypeOK
  <2>4. Fresh(rows'[s], rounds'[s])
    BY <2>1, <2>2, <2>3 DEF Fresh
  <2>5. ASSUME NEW x \in Request PROVE InStep(x)'
    <3>1. CASE Target[x] # s
      BY <1>0, <2>1, <2>3, <3>1 DEF InStep
    <3>2. CASE Target[x] = s
      <4>0. pc[x] \in Stage /\ InStep(x)
        BY <1>0 DEF TypeOK
      <4>1. pc[x] = "idle" \/ pc[x] = "dead"
        BY <4>0, <2>1, <3>2 DEF InStep, StageAt, Stage, Awaits, Ended,
            Heard, InTurn, ActiveState, TerminalState
      <4>2. completions[s] = 0
        BY <1>0, <4>1, <3>2 DEF InStep, StageAt
      <4>. QED
        BY <2>1, <2>4, <3>2, <4>1, <4>2 DEF InStep, StageAt
    <3>. QED
      BY <3>1, <3>2
  <2>6. ASSUME NEW z \in Session
        PROVE  SessionAt(rows'[z], rounds'[z])
    BY <2>1, <2>2, <2>3, <2>4 DEF SessionAt, Orderly
  <2>. QED
    BY <2>1, <2>5, <2>6 DEF Orderly
<1>2. ASSUME NEW x \in Request, StartRead(x) PROVE Orderly'
  <2>. DEFINE r == rows[Target[x]] h == rounds[Target[x]]
  <2>1. pc[x] = "idle" /\ r.state # "NONE"
        /\ UNCHANGED <<rows, rounds, turn, completions>>
    BY <1>2 DEF StartRead
  <2>2. Fresh(r, h) /\ completions[Target[x]] = 0
    BY <1>0, <2>1 DEF InStep, StageAt
  <2>3. r.state = "INITIATED"
    BY <2>1, <2>2 DEF Fresh, NoRow
  <2>4. /\ pc'[x] = "checked"
        /\ \A y \in Request \ {x} : pc'[y] = pc[y] /\ mem'[y] = mem[y]
    BY <1>2, <2>3 DEF StartRead, MayStart, TypeOK
  <2>5. StageAt(pc'[x], mem'[x], turn'[x], r, h, completions[Target[x]])
    BY <2>2, <2>3, <2>4 DEF StageAt
  <2>. QED
    BY <1>0, <2>1, <2>4, <2>5, OneSessionStep
<1>3. ASSUME NEW x \in Request, StartSave(x) PROVE Orderly'
  <2>. DEFINE h == rounds[Target[x]]
              r == [state |-> "EMPLOYER_OFFER", currentRound |-> 1]
  <2>1. /\ pc[x] = "checked"
        /\ pc'[x] = "loading"
        /\ mem'[x] = r
        /\ rows'[Target[x]] = r
        /\ \A z \in Session \ {Target[x]} : rows'[z] = rows[z]
        /\ \A y \in Request \ {x} : pc'[y] = pc[y] /\ mem'[y] = mem[y]
        /\ UNCHANGED <<rounds, turn, completions>>
    BY <1>0, <1>3 DEF StartSave, TypeOK
  <2>2. h = <<>> /\ completions[Target[x]] = 0 /\ Turns(h)
    BY <1>0, <2>1 DEF InStep, StageAt, Fresh, SessionAt
  <2>3. Awaits(r, h)
    BY <2>2, LimitType DEF Awaits, InTurn, ActiveState, NoVerdict
  <2>4. SessionAt(r, h)
    BY <2>2, <2>3 DEF SessionAt
  <2>5. StageAt("loading", r, turn[x], r, h, 0)
    BY <2>3 DEF StageAt
  <2>. QED
    BY <2>1, <2>2, <2>4, <2>5, OneSessionStep
<1>4. ASSUME NEW x \in Request, Load(x) PROVE Orderly'
  <2>1. /\ pc[x] = "loading" /\ pc'[x] = "preparing"
        /\ mem'[x] = rows[Target[x]]
        /\ \A y \in Request \ {x} : pc'[y] = pc[y] /\ mem'[y] = mem[y]
        /\ UNCHANGED <<rows, rounds, turn, completions>>
    BY <1>4 DEF Load, Reloaded, TypeOK
  <2>2. /\ Awaits(rows[Target[x]], rounds[Target[x]])
        /\ completions[Target[x]] = 0
    BY <1>0, <2>1 DEF InStep, StageAt
  <2>3. StageAt(pc'[x], mem'[x], turn'[x], rows'[Target[x]],
                rounds'[Target[x]], completions'[Target[x]])
    BY <2>1, <2>2 DEF StageAt
  <2>. QED
    BY <1>0, <2>1, <2>3, OneSessionStep
<1>5. ASSUME NEW x \in Request, Prepare(x) PROVE Orderly'
  <2>1. /\ pc[x] = "preparing"
        /\ UNCHANGED <<rows, rounds, mem>>
    BY <1>5 DEF Prepare
  <2>2. /\ mem[x] = rows[Target[x]]
        /\ Awaits(rows[Target[x]], rounds[Target[x]])
        /\ completions[Target[x]] = 0
    BY <1>0, <2>1 DEF InStep, StageAt
  <2>3. ~ IsTerminal(mem[x].state)
    BY <2>2 DEF Awaits, InTurn, ActiveState, IsTerminal, TerminalState
  <2>4. CASE Target[x] \in KeyUndecodable
    <3>1. /\ pc'[x] = "dead"
          /\ \A y \in Request \ {x} : pc'[y] = pc[y]
          /\ UNCHANGED <<turn, completions>>
      BY <1>5, <2>4 DEF Prepare, TypeOK
    <3>2. StageAt(pc'[x], mem'[x], turn'[x], rows'[Target[x]],
                  rounds'[Target[x]], completions'[Target[x]])
      BY <2>1, <2>2, <3>1 DEF StageAt
    <3>. QED
      BY <1>0, <2>1, <3>1, <3>2, OneSessionStep
  <2>5. CASE Target[x] \notin KeyUndecodable
    <3>1. BeginTurn(x, mem[x], interventions) /\ UNCHANGED completions
      BY <1>5, <2>3, <2>5 DEF Prepare
    <3>2. /\ pc'[x] = "calling" /\ turn'[x] = RoleFor(mem[x].state)
          /\ \A y \in Request \ {x} : pc'[y] = pc[y] /\ turn'[y] = turn[y]
      BY <3>1, BeginTurnStep
    <3>3. StageAt(pc'[x], mem'[x], turn'[x], rows'[Target[x]],
                  rounds'[Target[x]], completions'[Target[x]])
      BY <2>1, <2>2, <3>1, <3>2 DEF StageAt
    <3>. QED
      BY <1>0, <2>1, <3>1, <3>2, <3>3, OneSessionStep
  <2>. QED
    BY <2>4, <2>5
<1>6. ASSUME NEW x \in Request, NEW d \in Decision, Reply(x, d) PROVE Orderly'
  <2>. DEFINE r == rows[Target[x]] h == rounds[Target[x]]
              e == [round |-> r.currentRound, role |-> RoleFor(r.state),
                    decision |-> d]
              new == Append(h, e)
  <2>1. pc[x] = "calling"
    BY <1>6 DEF Reply
  <2>2. /\ mem[x] = r /\ Awaits(r, h) /\ turn[x] = RoleFor(r.state)
        /\ completions[Target[x]] = 0 /\ Turns(h)
    BY <1>0, <2>1 DEF InStep, StageAt, SessionAt
  <2>3. rounds' = [rounds EXCEPT ![Target[x]] = new]
    BY <1>6, <2>2 DEF Reply
  <2>4. mem' = [mem EXCEPT ![x] = Spoken(r, d)]
    BY <1>6, <2>2 DEF Reply, Spoken
  <2>5. /\ pc' = [pc EXCEPT ![x] = "saving"]
        /\ UNCHANGED <<rows, turn, completions>>
    BY <1>6 DEF Reply
  <2>6. r \in Row /\ h \in Seq(Round)
    BY <1>0
  <2>. HIDE DEF r, h
  <2>7. Turns(new) /\ Heard(r, new) /\ new[Len(new)].decision = d
    BY <2>2, <2>6, ReplyIsHeard
  <2>. HIDE DEF e, new
  <2>8. /\ rounds'[Target[x]] = new /\ mem'[x] = Spoken(r, d)
        /\ pc'[x] = "saving" /\ rows'[Target[x]] = r
        /\ completions'[Target[x]] = 0
        /\ \A z \in Session \ {Target[x]} : rounds'[z] = rounds[z]
        /\ \A y \in Request \ {x} : pc'[y] = pc[y] /\ mem'[y] = mem[y]
    BY <1>0, <2>2, <2>3, <2>4, <2>5 DEF TypeOK, r
  <2>9. SessionAt(r, new)
    BY <2>7 DEF SessionAt
  <2>10. StageAt("saving", Spoken(r, d), turn'[x], r, new, 0)
    BY <2>7 DEF StageAt
  <2>. QED
    BY <2>5, <2>8, <2>9, <2>10, OneSessionStep
<1>7. ASSUME NEW x \in Request, SaveSession(x) PROVE Orderly'
  <2>. DEFINE r == rows[Target[x]] h == rounds[Target[x]] m == mem[x]
  <2>1. /\ pc[x] = "saving" /\ pc'[x] = "saved"
        /\ rows'[Target[x]] = m
        /\ \A z \in Session \ {Target[x]} : rows'[z] = rows[z]
        /\ \A y \in Request \ {x} : pc'[y] = pc[y]
        /\ UNCHANGED <<rounds, mem, turn, completions>>
    BY <1>0, <1>7 DEF SaveSession, TypeOK
  <2>2. /\ Heard(r, h) /\ m = Spoken(r, h[Len(h)].decision) /\ Turns(h)
        /\ completions[Target[x]] = 0
    BY <1>0, <2>1 DEF InStep, StageAt, SessionAt
  <2>3. Awaits(m, h) \/ Ended(m, h)
    BY <1>0, <2>2, HeardGoesOn
  <2>4. SessionAt(m, h)
    BY <2>2, <2>3 DEF SessionAt
  <2>5. StageAt("saved", m, turn[x], m, h, 0)
    BY <2>3 DEF StageAt
  <2>. QED
    BY <2>1, <2>2, <2>4, <2>5, OneSessionStep
<1>8. ASSUME NEW x \in Request, EndTurn(x) PROVE Orderly'
  <2>1. pc[x] = "saved" /\ UNCHANGED <<rows, rounds, mem>>
    BY <1>8 DEF EndTurn
  <2>2. /\ mem[x] = rows[Target[x]] /\ completions[Target[x]] = 0
        /\ \/ Awaits(rows[Target[x]], rounds[Target[x]])
           \/ Ended(rows[Target[x]], rounds[Target[x]])
    BY <1>0, <2>1 DEF InStep, StageAt
  <2>3. CASE IsTerminal(mem[x].state)
    <3>1. EndLoop(x, mem[x]) /\ UNCHANGED turn
      BY <1>8, <2>3 DEF EndTurn
    <3>2. Ended(rows[Target[x]], rounds[Target[x]])
      BY <2>2, <2>3 DEF Awaits, InTurn, ActiveState, IsTerminal, TerminalState
    <3>3. /\ pc'[x] = "done"
          /\ \A y \in Request \ {x} : pc'[y] = pc[y]
          /\ \A z \in Session \ {Target[x]} :
                 completions'[z] = completions[z]
          /\ \/ completions'[Target[x]] = 0
             \/ /\ completions'[Target[x]] = 1
                /\ mem[x].state \in {"AGREED", "FAILED"}
      BY <2>2, <3>1, EndLoopStep
    <3>4. StageAt(pc'[x], mem'[x], turn'[x], rows'[Target[x]],
                  rounds'[Target[x]], completions'[Target[x]])
      BY <2>1, <2>2, <3>2, <3>3 DEF StageAt
    <3>. QED
      BY <1>0, <2>1, <3>1, <3>3, <3>4, OneSessionStep
  <2>4. CASE ~ IsTerminal(mem[x].state)
    <3>1. BeginTurn(x, mem[x], Cleared(x)) /\ UNCHANGED completions
      BY <1>8, <2>4 DEF EndTurn
    <3>2. Awaits(rows[Target[x]], rounds[Target[x]])
      BY <2>2, <2>4 DEF Ended, IsTerminal
    <3>3. /\ pc'[x] = "calling" /\ turn'[x] = RoleFor(mem[x].state)
          /\ \A y \in Request \ {x} : pc'[y] = pc[y] /\ turn'[y] = turn[y]
      BY <3>1, BeginTurnStep
    <3>4. StageAt(pc'[x], mem'[x], turn'[x], rows'[Target[x]],
                  rounds'[Target[x]], completions'[Target[x]])
      BY <2>1, <2>2, <3>1, <3>2, <3>3 DEF StageAt
    <3>. QED
      BY <1>0, <2>1, <3>1, <3>3, <3>4, OneSessionStep
  <2>. QED
    BY <2>3, <2>4
<1>9. ASSUME NEW x \in Request, FailRound(x) PROVE Orderly'
  <2>. DEFINE r == rows[Target[x]] h == rounds[Target[x]]
              f == FailedSession(x)
  <2>1. /\ pc[x] \in {"calling", "saving"}
        /\ mem' = [mem EXCEPT ![x] = f]
        /\ rows' = [rows EXCEPT ![Target[x]] = mem'[x]]
        /\ pc' = [pc EXCEPT ![x] = "finishing"]
        /\ UNCHANGED <<rounds, turn, completions>>
    BY <1>9 DEF FailRound
  <2>2. /\ completions[Target[x]] = 0 /\ Turns(h)
        /\ \/ Awaits(r, h) /\ mem[x] = r
           \/ Heard(r, h) /\ mem[x] = Spoken(r, h[Len(h)].decision)
    BY <1>0, <2>1 DEF InStep, StageAt, SessionAt
  <2>3. Ended(f, h)
    BY <1>0, <2>2, FailureEnds DEF FailedSession
  <2>4. f.state = "FAILED"
    BY <1>0 DEF FailedSession, Row
  <2>. HIDE DEF f, r
  <2>5. mem'[x] = f /\ \A y \in Request \ {x} : mem'[y] = mem[y]
    BY <2>1 DEF TypeOK
  <2>6. /\ rows'[Target[x]] = f /\ pc'[x] = "finishing"
        /\ \A z \in Session \ {Target[x]} : rows'[z] = rows[z]
        /\ \A y \in Request \ {x} : pc'[y] = pc[y]
    BY <1>0, <2>1, <2>5 DEF TypeOK
  <2>7. SessionAt(f, h)
    BY <2>2, <2>3 DEF SessionAt
  <2>8. StageAt("finishing", f, turn'[x], f, h, 0)
    BY <2>3, <2>4 DEF StageAt
  <2>. QED
    BY <2>1, <2>2, <2>5, <2>6, <2>7, <2>8, OneSessionStep
<1>10. ASSUME NEW x \in Request, Finish(x) PROVE Orderly'
  <2>1. /\ pc[x] = "finishing" /\ EndLoop(x, mem[x])
        /\ UNCHANGED <<rows, rounds, mem, turn>>
    BY <1>10 DEF Finish
  <2>2. /\ mem[x] = rows[Target[x]] /\ completions[Target[x]] = 0
        /\ Ended(rows[Target[x]], rounds[Target[x]])
        /\ rows[Target[x]].state = "FAILED"
    BY <1>0, <2>1 DEF InStep, StageAt
  <2>3. /\ pc'[x] = "done"
        /\ \A y \in Request \ {x} : pc'[y] = pc[y]
        /\ \A z \in Session \ {Target[x]} : completions'[z] = completions[z]
        /\ \/ completions'[Target[x]] = 0
           \/ /\ completions'[Target[x]] = 1
              /\ mem[x].state \in {"AGREED", "FAILED"}
    BY <2>1, <2>2, EndLoopStep
  <2>4. StageAt(pc'[x], mem'[x], turn'[x], rows'[Target[x]],
                rounds'[Target[x]], completions'[Target[x]])
    BY <2>1, <2>2, <2>3 DEF StageAt
  <2>. QED
    BY <1>0, <2>1, <2>3, <2>4, OneSessionStep
<1>11. ASSUME NEW x \in Request, FailureSaveLost(x) PROVE Orderly'
  <2>1. /\ pc[x] \in {"calling", "saving"} /\ pc'[x] = "dead"
        /\ \A y \in Request \ {x} : pc'[y] = pc[y]
        /\ UNCHANGED <<rows, rounds, mem, turn, completions>>
    BY <1>11 DEF FailureSaveLost, TypeOK
  <2>2. completions[Target[x]] = 0
    BY <1>0, <2>1 DEF InStep, StageAt
  <2>3. StageAt(pc'[x], mem'[x], turn'[x], rows'[Target[x]],
                rounds'[Target[x]], completions'[Target[x]])
    BY <2>1, <2>2 DEF StageAt
  <2>. QED
    BY <1>0, <2>1, <2>3, OneSessionStep
<1>12. ASSUME Restart PROVE Orderly'
  <2>1. UNCHANGED <<rows, rounds, mem, turn, completions>>
    BY <1>12 DEF Restart
  <2>2. ASSUME NEW x \in Request PROVE InStep(x)'
    <3>1. CASE pc'[x] = pc[x]
      BY <1>0, <2>1, <3>1 DEF InStep
    <3>2. CASE pc'[x] # pc[x]
      <4>1. pc'[x] = "dead" /\ pc[x] \in Executing \cup {"checked"}
        BY <1>12, <3>2 DEF Restart
      <4>2. completions[Target[x]] = 0
        BY <1>0, <4>1 DEF InStep, StageAt, Executing
      <4>. QED
        BY <2>1, <4>1, <4>2 DEF InStep, StageAt
    <3>. QED
      BY <3>1, <3>2
  <2>. QED
    BY <2>1, <2>2 DEF Orderly
<1>. QED
  BY <1>a, <1>1, <1>2, <1>3, <1>4, <1>5, <1>6, <1>7, <1>8, <1>9, <1>10,
     <1>11, <1>12 DEF Next, Run, GarbledReply, Intervene, vars

LEMMA OrderInitially == Init => Orderly
<1>. SUFFICES ASSUME Init PROVE Orderly
  OBVIOUS
<1>1. Fresh(NoRow, <<>>) /\ Turns(<<>>)
  BY DEF Fresh, Turns
<1>2. SessionAt(NoRow, <<>>) /\ StageAt("idle", NoRow, "EMPLOYER", NoRow,
                                       <<>>, 0)
  BY <1>1 DEF SessionAt, StageAt
<1>. QED
  BY <1>2, NegotiationAssumption DEF Init, Orderly, InStep

-----------------------------------------------------------------------------
\* What the order gives.

LEMMA OrderHolds == OneRequestEach => (Spec => [](TypeOK /\ Orderly))
<1>. SUFFICES ASSUME OneRequestEach PROVE Spec => [](TypeOK /\ Orderly)
  OBVIOUS
<1>1. Init => TypeOK /\ Orderly
  BY TypesInitially, OrderInitially
<1>2. TypeOK /\ Orderly /\ [Next]_vars => TypeOK' /\ Orderly'
  BY TypesInductive, OrderInductive
<1>. QED
  BY <1>1, <1>2, PTL DEF Spec

\* The rounds of one session match its row.
LEMMA SessionAtMatches ==
    ASSUME NEW r \in Row, NEW h \in Seq(Round), SessionAt(r, h)
    PROVE  /\ \A i \in 1 .. Len(h) :
                  /\ h[i].round = i
                  /\ (h[i].role = "EMPLOYER") <=> (i % 2 = 1)
           /\ Len(h) \in {r.currentRound - 1, r.currentRound}
           /\ Len(h) <= RoundLimit
           /\ r.state \in ActiveState \ {"EMPLOYER_OFFER"} =>
                  /\ Len(h) > 0
                  /\ (r.state = "SEEKER_COUNTER") <=>
                         (r.currentRound % 2 = 0)
           /\ r.state = "AGREED" =>
                  Len(h) > 0 /\ h[Len(h)].decision = "ACCEPT"
           /\ r.state = "MAX_ROUNDS" => Len(h) = RoundLimit
           /\ NoVerdict(h, Len(h) - 1)
<1>0. Len(h) \in Nat /\ r.currentRound \in Nat /\ RoundLimit \in Nat \ {0}
  BY LimitType DEF Row
<1>1. \A i \in 1 .. Len(h) : /\ h[i].round = i
                             /\ (h[i].role = "EMPLOYER") <=> (i % 2 = 1)
  BY DEF SessionAt, Turns
<1>2. CASE Fresh(r, h)
  <2>1. Len(h) = 0 /\ r.currentRound = 0 /\ r.state \in {"NONE", "INITIATED"}
    BY <1>2 DEF Fresh, NoRow
  <2>2. NoVerdict(h, Len(h) - 1)
    BY <2>1 DEF NoVerdict
  <2>. QED
    BY <1>0, <1>1, <2>1, <2>2 DEF ActiveState
<1>3. CASE Awaits(r, h)
  <2>1. InTurn(r) /\ Len(h) = r.currentRound - 1
    BY <1>3 DEF Awaits
  <2>2. NoVerdict(h, Len(h) - 1)
    BY <1>0, <1>3 DEF Awaits, NoVerdict
  <2>3. r.state # "EMPLOYER_OFFER" => Len(h) > 0
    BY <1>0, <2>1 DEF InTurn
  <2>4. Len(h) <= RoundLimit
    BY <1>0, <2>1 DEF InTurn
  <2>. QED
    BY <1>0, <1>1, <2>1, <2>2, <2>3, <2>4 DEF InTurn, ActiveState
<1>4. CASE Heard(r, h)
  <2>1. InTurn(r) /\ Len(h) = r.currentRound /\ NoVerdict(h, Len(h) - 1)
    BY <1>4 DEF Heard
  <2>2. Len(h) > 0 /\ Len(h) <= RoundLimit
    BY <1>0, <2>1 DEF InTurn
  <2>. QED
    BY <1>0, <1>1, <2>1, <2>2 DEF InTurn, ActiveState
<1>5. CASE Ended(r, h)
  BY <1>0, <1>1, <1>5 DEF Ended, ActiveState, TerminalState
<1>. QED
  BY <1>2, <1>3, <1>4, <1>5 DEF SessionAt

LEMMA OrderMatches ==
    ASSUME TypeOK, Orderly, NEW s \in Session
    PROVE  /\ rows[s] \in Row /\ rounds[s] \in Seq(Round)
           /\ SessionAt(rows[s], rounds[s])
BY DEF TypeOK, Round, Orderly

\* Started by one request each, sessions and rounds, saved one after the
\* other, match at any moment and for any limit of rounds: played in turn,
\* counted, and ended by the round that says so.
THEOREM RoundsMatch == OneRequestEach => (Spec => []RoundsMatchSession)
<1>1. TypeOK /\ Orderly => RoundsMatchSession
  BY OrderMatches, SessionAtMatches DEF RoundsMatchSession
<1>. QED
  BY <1>1, OrderHolds, PTL

\* Nobody is asked after an ACCEPT or a REJECT, for any limit of rounds.
THEOREM VerdictIsLast == OneRequestEach => (Spec => []VerdictEnds)
<1>1. TypeOK /\ Orderly => VerdictEnds
  <2>. SUFFICES ASSUME TypeOK, Orderly, NEW s \in Session,
                       NEW i \in DOMAIN rounds[s], i # Len(rounds[s])
                PROVE  rounds[s][i].decision \notin {"ACCEPT", "REJECT"}
    BY DEF VerdictEnds
  <2>1. NoVerdict(rounds[s], Len(rounds[s]) - 1)
    BY OrderMatches, SessionAtMatches
  <2>2. i \in 1 .. Len(rounds[s]) - 1
    <3>1. rounds[s] \in Seq(Round)
      BY OrderMatches
    <3>. QED
      BY <3>1
  <2>. QED
    BY <2>1, <2>2 DEF NoVerdict
<1>. QED
  BY <1>1, OrderHolds, PTL

\* An outcome is announced once at the most, and only when it is stored.
THEOREM AnnouncementsAreTrue == OneRequestEach => (Spec => []CompletionIsTrue)
<1>1. TypeOK /\ Orderly => CompletionIsTrue
  <2>. SUFFICES ASSUME TypeOK, Orderly, NEW s \in Session
                PROVE  /\ completions[s] <= 1
                       /\ completions[s] = 1 =>
                              rows[s].state \in {"AGREED", "FAILED"}
    BY DEF CompletionIsTrue
  <2>1. CASE \A x \in Request : Target[x] # s
    BY <2>1 DEF Orderly
  <2>2. ASSUME NEW x \in Request, Target[x] = s
        PROVE  completions[s] = 0
               \/ (completions[s] = 1 /\ rows[s].state \in {"AGREED", "FAILED"})
    BY <2>2 DEF Orderly, InStep, StageAt
  <2>. QED
    BY <2>1, <2>2
<1>. QED
  BY <1>1, OrderHolds, PTL

-----------------------------------------------------------------------------
\* The refinement.  The stored rows move as NegotiationProtocol says: one
\* step of the service is at most one of the protocol.

PState == [s \in Session |-> rows[s].state]
PRound == [s \in Session |-> rows[s].currentRound]

\* The rows of one session are replaced.
LEMMA ProtocolMove ==
    ASSUME TypeOK, NEW s \in Session, NEW r \in Row,
           rows' = [rows EXCEPT ![s] = r]
    PROVE  /\ PState' = [PState EXCEPT ![s] = r.state]
           /\ PRound' = [PRound EXCEPT ![s] = r.currentRound]
<1>1. \A z \in Session : rows'[z] = IF z = s THEN r ELSE rows[z]
  BY DEF TypeOK
<1>2. PState' = [PState EXCEPT ![s] = r.state]
  <2>1. [z \in Session |-> rows'[z].state]
            = [z \in Session |-> IF z = s THEN r.state ELSE rows[z].state]
    BY <1>1
  <2>2. [PState EXCEPT ![s] = r.state]
            = [z \in Session |-> IF z = s THEN r.state ELSE rows[z].state]
    BY DEF PState
  <2>. QED
    BY <2>1, <2>2 DEF PState
<1>3. PRound' = [PRound EXCEPT ![s] = r.currentRound]
  <2>1. [z \in Session |-> rows'[z].currentRound]
            = [z \in Session |-> IF z = s THEN r.currentRound
                                          ELSE rows[z].currentRound]
    BY <1>1
  <2>2. [PRound EXCEPT ![s] = r.currentRound]
            = [z \in Session |-> IF z = s THEN r.currentRound
                                          ELSE rows[z].currentRound]
    BY DEF PRound
  <2>. QED
    BY <2>1, <2>2 DEF PRound
<1>. QED
  BY <1>2, <1>3

LEMMA ProtocolEngine ==
    /\ Protocol!ActiveState = ActiveState /\ Protocol!Decision = Decision
    /\ \A state, d, n : Protocol!Transition(state, d, n, MaxRounds)
                            = Transition(state, d, n, MaxRounds)
    /\ \A state, n : Protocol!NextRound(state, n) = NextRound(state, n)
BY DEF Protocol!ActiveState, ActiveState, Protocol!Decision, Decision,
       Protocol!Transition, Transition, Protocol!NextRound, NextRound,
       Protocol!IsTerminal, IsTerminal, Protocol!TerminalState, TerminalState

LEMMA ProtocolStep ==
    OneRequestEach /\ TypeOK /\ Orderly /\ [Next]_vars
        => [Protocol!Next]_(Protocol!protocolVars)
<1>. SUFFICES ASSUME OneRequestEach, TypeOK, Orderly, [Next]_vars
              PROVE  Protocol!Next \/ UNCHANGED Protocol!protocolVars
  OBVIOUS
<1>0. \A x \in Request : /\ Target[x] \in Session
                         /\ InStep(x)
                         /\ Turns(rounds[Target[x]])
                         /\ rows[Target[x]] \in Row /\ mem[x] \in Row
                         /\ rounds[Target[x]] \in Seq(Round)
  BY NegotiationAssumption DEF Orderly, TypeOK, Round, SessionAt
<1>p. \A s \in Session : PState[s] = rows[s].state
                         /\ PRound[s] = rows[s].currentRound
  BY DEF PState, PRound
<1>a. ASSUME rows' = rows PROVE UNCHANGED Protocol!protocolVars
  BY <1>a DEF Protocol!protocolVars
<1>1. ASSUME NEW s \in Session, Create(s) PROVE Protocol!Next
  <2>1. /\ rows[s].state = "NONE"
        /\ rows' = [rows EXCEPT ![s] = [state |-> "INITIATED",
                                        currentRound |-> 0]]
    BY <1>1 DEF Create
  <2>2. [state |-> "INITIATED", currentRound |-> 0] \in Row
    BY DEF Row, NegotiationState
  <2>3. /\ PState' = [PState EXCEPT ![s] = "INITIATED"]
        /\ PRound' = [PRound EXCEPT ![s] = 0]
    BY <2>1, <2>2, ProtocolMove
  <2>4. Protocol!Create(s)
    BY <1>p, <2>1, <2>3 DEF Protocol!Create, Protocol!MoveTo, PState, PRound
  <2>. QED
    BY <2>4 DEF Protocol!Next
<1>2. ASSUME NEW x \in Request, StartSave(x) PROVE Protocol!Next
  <2>. DEFINE s == Target[x]
              first == [state |-> "EMPLOYER_OFFER", currentRound |-> 1]
  <2>1. /\ pc[x] = "checked" /\ s \in Session
        /\ rows' = [rows EXCEPT ![s] = first]
    BY <1>0, <1>2 DEF StartSave, InStep, TypeOK
  <2>2. /\ first \in Row
        /\ first.state = "EMPLOYER_OFFER" /\ first.currentRound = 1
    BY DEF Row, NegotiationState, ActiveState
  <2>3. rows[s].state = "INITIATED"
    BY <1>0, <2>1 DEF InStep, StageAt
  <2>. HIDE DEF s, first
  <2>4. /\ PState' = [PState EXCEPT ![s] = first.state]
        /\ PRound' = [PRound EXCEPT ![s] = first.currentRound]
    BY <2>1, <2>2, ProtocolMove
  <2>5. Protocol!Start(s)
    BY <1>p, <2>1, <2>2, <2>3, <2>4
       DEF Protocol!Start, Protocol!MoveTo, PState, PRound
  <2>. QED
    BY <2>1, <2>5 DEF Protocol!Next
<1>3. ASSUME NEW x \in Request, SaveSession(x) PROVE Protocol!Next
  <2>. DEFINE s == Target[x] r == rows[s] h == rounds[s]
              d == h[Len(h)].decision
              next == Transition(r.state, d, r.currentRound, MaxRounds)
  <2>1. pc[x] = "saving" /\ rows' = [rows EXCEPT ![s] = mem[x]]
    BY <1>3 DEF SaveSession
  <2>2. Heard(r, h) /\ mem[x] = Spoken(r, d)
    BY <1>0, <2>1 DEF InStep, StageAt
  <2>3. r.state \in ActiveState /\ Len(h) > 0
    BY <1>0, <2>2, LimitType DEF Heard, InTurn
  <2>4. d \in Decision
    <3>1. h \in Seq(Round) /\ Len(h) \in 1 .. Len(h)
      BY <1>0, <2>3
    <3>2. h[Len(h)] \in Round
      BY <3>1
    <3>. QED
      BY <3>2 DEF Round
  <2>5. mem[x].state = next
        /\ mem[x].currentRound = NextRound(next, r.currentRound)
    BY <2>2 DEF Spoken
  <2>6. PState[s] = r.state /\ PRound[s] = r.currentRound
    BY <1>0, <1>p
  <2>7. /\ PState' = [PState EXCEPT ![s] = mem[x].state]
        /\ PRound' = [PRound EXCEPT ![s] = mem[x].currentRound]
    BY <1>0, <2>1, ProtocolMove
  <2>. HIDE DEF r, h, d
  <2>8. /\ d \in Protocol!Decision
        /\ PState[s] \in Protocol!ActiveState
        /\ PState' = [PState EXCEPT ![s] =
               Protocol!Transition(PState[s], d, PRound[s], MaxRounds)]
        /\ PRound' = [PRound EXCEPT ![s] =
               Protocol!NextRound(
                   Protocol!Transition(PState[s], d, PRound[s], MaxRounds),
                   PRound[s])]
    BY <2>3, <2>4, <2>5, <2>6, <2>7, ProtocolEngine
  <2>9. Protocol!Speak(s)
    BY <2>8 DEF Protocol!Speak, Protocol!MoveTo, PState, PRound
  <2>. QED
    BY <1>0, <2>9 DEF Protocol!Next
<1>4. ASSUME NEW x \in Request, FailRound(x) PROVE Protocol!Next
  <2>. DEFINE s == Target[x] r == rows[s] h == rounds[s]
              f == FailedSession(x)
  <2>1. /\ pc[x] \in {"calling", "saving"}
        /\ rows' = [rows EXCEPT ![s] = f]
    BY <1>4 DEF FailRound, TypeOK
  <2>2. /\ f \in Row /\ f.state = "FAILED"
        /\ f.currentRound = mem[x].currentRound
    BY <1>0 DEF FailedSession, Row, NegotiationState, TerminalState
  <2>3. \/ Awaits(r, h) /\ mem[x] = r
        \/ Heard(r, h) /\ mem[x] = Spoken(r, h[Len(h)].decision)
    BY <1>0, <2>1 DEF InStep, StageAt
  <2>4. r.state \in ActiveState
    BY <2>3 DEF Awaits, Heard, InTurn
  <2>5. f.currentRound \in {r.currentRound, r.currentRound + 1}
    BY <2>2, <2>3 DEF Spoken, NextRound
  <2>6. PState[s] = r.state /\ PRound[s] = r.currentRound
    BY <1>0, <1>p
  <2>7. /\ PState' = [PState EXCEPT ![s] = "FAILED"]
        /\ PRound' = [PRound EXCEPT ![s] = f.currentRound]
    <3>1. s \in Session
      BY <1>0
    <3>. HIDE DEF f, s
    <3>2. /\ PState' = [PState EXCEPT ![s] = f.state]
          /\ PRound' = [PRound EXCEPT ![s] = f.currentRound]
      BY <2>1, <2>2, <3>1, ProtocolMove
    <3>. QED
      BY <2>2, <3>2
  <2>. HIDE DEF r, h, f
  <2>8. /\ PState[s] \in Protocol!ActiveState
        /\ f.currentRound \in {PRound[s], PRound[s] + 1}
    BY <2>4, <2>5, <2>6, ProtocolEngine
  <2>9. Protocol!Fail(s)
    BY <2>7, <2>8 DEF Protocol!Fail, Protocol!MoveTo, PState, PRound
  <2>. QED
    BY <1>0, <2>9 DEF Protocol!Next
<1>. QED
  BY <1>a, <1>1, <1>2, <1>3, <1>4
     DEF Next, Run, StartRead, Load, Prepare, GarbledReply, Reply, EndTurn,
         Finish, FailureSaveLost, Intervene, Restart, vars

\* The stored sessions follow the negotiation protocol, for any number of
\* sessions and rounds, whatever the AI answers and whatever fails.
THEOREM FollowsProtocol == OneRequestEach => (Spec => ImplementsProtocol)
<1>. SUFFICES ASSUME OneRequestEach PROVE Spec => ImplementsProtocol
  OBVIOUS
<1>1. Init => Protocol!Init
  BY DEF Init, NoRow, Protocol!Init
<1>. QED
  BY <1>1, ProtocolStep, OrderHolds, PTL
     DEF Spec, ImplementsProtocol, Protocol!Spec
=============================================================================
