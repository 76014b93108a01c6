--------------------------- MODULE AgreementPage ----------------------------
(***************************************************************************)
(* The two browsers of an agreement (frontend/src/app/negotiation/         *)
(* [sessionId]/agree/page.tsx with lib/sse.tsx), the events the server      *)
(* pushes to them (backend/src/sse) and the interview messages of           *)
(* backend/src/agreement/agreement.service.ts.                              *)
(*                                                                         *)
(* A request is served in one step: what calls of approve, reject and       *)
(* confirmTx do to each other in the database is the module Agreement.      *)
(* Its answer comes back later, in any order, to the page that asked.       *)
(***************************************************************************)
EXTENDS Naturals, Sequences, FiniteSets

CONSTANTS
    Party,       \* the seeker and the employer
    Call,        \* requests that may be under way at the same time
    MaxMessages, \* bound of the model
    MaxFaults,   \* bound of the model: lost requests, lost streams, reloads
    Null

VARIABLES
    agreement,  \* the agreement columns of the session
    agreements, \* what the contract has recorded
    messages,   \* the interview_message rows, by sender
    page,       \* the state of each page
    calls,      \* the requests, with their answers
    stream,     \* the events on each party's stream, or Null without one
    faults

vars == <<agreement, agreements, messages, page, calls, stream, faults>>

\* The contract; the parties' accounts are their names here.
Contract == INSTANCE AgreementContract WITH
    Account <- Party, Session <- {"session"}, Summary <- {}, Key <- {},
    owner <- "owner", system_agent <- Null

Blank == [flow |-> "idle", loaded |-> FALSE, list |-> <<>>, fetch |-> FALSE, sending |-> FALSE]

Ask(p, kind) == [kind |-> kind, party |-> p, at |-> "sent", live |-> TRUE, answer |-> Null]

Init ==
    /\ agreement = [approved |-> {}, rejected |-> FALSE, recorded |-> FALSE]
    /\ agreements = [s \in {"session"} |-> Null]
    /\ messages = <<>>
    /\ page = [p \in Party |-> Blank]
    /\ calls = [c \in Call |-> Null]
    /\ stream = [p \in Party |-> <<>>]
    /\ faults = 0

Put(c, r) == calls' = [calls EXCEPT ![c] = r]
Show(p, r) == page' = [page EXCEPT ![p] = r]
Pending(p, kind) == \E c \in Call : calls[c] # Null /\ calls[c].live
                                   /\ calls[c].party = p /\ calls[c].kind = kind
Begin(c, p, kind) ==
    /\ calls[c] = Null
    /\ Put(c, Ask(p, kind))
    /\ UNCHANGED <<agreement, agreements, messages, stream, faults>>

-----------------------------------------------------------------------------
\* What the user and the page's effects ask for.

\* The first effect; a page without an agreement shows nothing else.
Load(c, p) ==
    /\ ~page[p].loaded /\ ~Pending(p, "load")
    /\ Begin(c, p, "load") /\ UNCHANGED page

\* The buttons are there while the flow is idle, also when one was clicked.
Approve(c, p) ==
    /\ page[p].loaded /\ page[p].flow = "idle"
    /\ Begin(c, p, "approve")
    /\ Show(p, [page[p] EXCEPT !.flow = "approving"])

Reject(c, p) ==
    /\ page[p].loaded /\ page[p].flow = "idle"
    /\ Begin(c, p, "reject") /\ UNCHANGED page

\* The effect of becoming completed.
Fetch(c, p) ==
    /\ page[p].fetch
    /\ Begin(c, p, "list") /\ Show(p, [page[p] EXCEPT !.fetch = FALSE])

Sending == Cardinality({c \in Call : calls[c] # Null /\ calls[c].kind = "send"
                                                   /\ calls[c].at = "sent"})
SendMessage(c, p) ==
    /\ page[p].flow = "completed" /\ ~page[p].sending
    /\ Len(messages) + Sending < MaxMessages
    /\ Begin(c, p, "send") /\ Show(p, [page[p] EXCEPT !.sending = TRUE])

\* An event reaches the page, which asks again; message events only when
\* completed.
Receive(c, p) ==
    /\ stream[p] # Null /\ stream[p] # <<>>
    /\ calls[c] = Null
    /\ stream' = [stream EXCEPT ![p] = Tail(@)]
    /\ IF Head(stream[p]) = "message"
       THEN IF page[p].flow = "completed" THEN Put(c, Ask(p, "list")) ELSE UNCHANGED calls
       ELSE Put(c, Ask(p, "update"))
    /\ UNCHANGED <<agreement, agreements, messages, page, faults>>

-----------------------------------------------------------------------------
\* The server.

Other(p) == CHOOSE q \in Party : q # p

\* pushToUser: to the open streams only.
Push(p, event) == stream' = IF stream[p] = Null THEN stream
                            ELSE [stream EXCEPT ![p] = Append(@, event)]

Answered(c, answer) == Put(c, [calls[c] EXCEPT !.at = "back", !.answer = answer])
Refused(c) == Put(c, [calls[c] EXCEPT !.at = "failed"]) /\ UNCHANGED <<agreement, messages, stream>>

ServeApprove(c, p) ==
    IF agreement.rejected THEN Refused(c)
    ELSE LET now == agreement.approved \cup {p}
         IN  /\ agreement' = [agreement EXCEPT !.approved = now]
             /\ Answered(c, IF now = Party THEN "both_approved" ELSE "waiting")
             /\ IF now = Party THEN UNCHANGED stream ELSE Push(Other(p), "update")
             /\ UNCHANGED messages

ServeReject(c, p) ==
    IF agreement.rejected THEN Refused(c)
    ELSE /\ agreement' = [agreement EXCEPT !.rejected = TRUE]
         /\ Answered(c, "rejected")
         /\ Push(Other(p), "update")
         /\ UNCHANGED messages

\* sendMessage, which needs both approvals and not the state of the session.
MayTalk == agreement.approved = Party
ServeSend(c, p) ==
    IF ~MayTalk THEN Refused(c)
    ELSE /\ messages' = Append(messages, p)
         /\ Answered(c, Len(messages'))
         /\ Push(Other(p), "message")
         /\ UNCHANGED agreement

\* getAgreement and getMessages.
Asked(kind) == kind \in {"load", "update", "check", "refetch"}
ServeGet(c) ==
    /\ Answered(c, IF calls[c].kind = "list" THEN [i \in 1..Len(messages) |-> i] ELSE agreement)
    /\ UNCHANGED <<agreement, messages, stream>>

Serve(c) ==
    /\ calls[c] # Null /\ calls[c].at = "sent"
    /\ LET p == calls[c].party
       IN  CASE calls[c].kind = "approve" -> ServeApprove(c, p)
             [] calls[c].kind = "reject" -> ServeReject(c, p)
             [] calls[c].kind = "send" -> ServeSend(c, p)
             [] OTHER -> ServeGet(c)
    /\ UNCHANGED <<agreements, page, faults>>

-----------------------------------------------------------------------------
\* The pages go on with the answers.

Whole_Half(a) == a.approved # {}
Whole(a) == a.approved = Party
Settled(r, flow) == [r EXCEPT !.flow = flow, !.loaded = TRUE,
                              !.fetch = @ \/ (flow = "completed" /\ r.flow # "completed")]

\* What the page makes of an agreement it was sent.
Outcome(kind, r, a, p) ==
    IF kind \in {"load", "update"} /\ a.rejected THEN Settled(r, "rejected")
    ELSE IF kind = "refetch" \/ Whole(a) THEN Settled(r, "completed")
    ELSE IF kind = "load" /\ p \in a.approved THEN Settled(r, "waiting")
    ELSE IF kind = "check" THEN r ELSE Settled(r, r.flow)

\* The end of a continuation, if its page is still there.
Done(c, r) ==
    /\ Put(c, Null)
    /\ IF calls[c].live THEN Show(calls[c].party, r) ELSE UNCHANGED page
    /\ UNCHANGED <<agreement, agreements, messages, stream, faults>>

Return(c) ==
    /\ calls[c] # Null /\ calls[c].at = "back"
    /\ LET a == calls[c].answer  kind == calls[c].kind  p == calls[c].party  r == page[p]
       IN  \/ Asked(kind) /\ Done(c, Outcome(kind, r, a, p))
           \/ kind = "list" /\ Done(c, [r EXCEPT !.list = a])
           \/ kind = "send" /\ Done(c, [r EXCEPT !.sending = FALSE, !.list = Append(@, a)])
           \/ kind = "reject" /\ Done(c, Settled(r, "rejected"))

\* The catch of each: approving starts over, and without an agreement the page
\* builds one from the rounds.
Catch(c) ==
    /\ calls[c] # Null /\ calls[c].at = "failed"
    /\ LET kind == calls[c].kind  r == page[calls[c].party]
       IN  Done(c, CASE kind \in {"approve", "refetch"} -> [r EXCEPT !.flow = "idle"]
                     [] kind = "send" -> [r EXCEPT !.sending = FALSE]
                     [] kind = "load" -> [r EXCEPT !.loaded = TRUE]
                     [] OTHER -> r)

\* getRecordAgreementTxParams: no signatures, no keys, the hash of the session.
Params(p) == Contract!Arguments("session", Contract!Sha256("the ids of the session"),
    [position_title |-> <<"title">>, agreed_salary |-> <<"salary">>,
     start_date |-> <<"date">>, negotiation_rounds |-> <<"rounds">>],
    p, Other(p), Null, Null, Null, Null)

\* recordOnChain: whatever the contract says of the call, the page may get a
\* hash to confirm, or an error it swallows.
RecordOnChain(p) ==
    /\ agreements' = IF Contract!Accepted(p, Params(p))
                     THEN [agreements EXCEPT !["session"] = Params(p)] ELSE agreements
    /\ \E hash \in BOOLEAN : agreement' = [agreement EXCEPT !.recorded = @ \/ hash]

\* handleApprove after the answer: it records the agreement or waits, and asks again.
Approved(c) ==
    /\ calls[c] # Null /\ calls[c].at = "back" /\ calls[c].kind = "approve"
    /\ LET p == calls[c].party  next(kind) == [Ask(p, kind) EXCEPT !.live = calls[c].live]
       IN  \/ /\ calls[c].answer = "waiting"
              /\ Put(c, next("check"))
              /\ IF calls[c].live THEN Show(p, [page[p] EXCEPT !.flow = "waiting"])
                                  ELSE UNCHANGED page
              /\ UNCHANGED <<agreement, agreements>>
           \/ /\ calls[c].answer = "both_approved"
              /\ Put(c, next("refetch"))
              /\ RecordOnChain(p)
              /\ UNCHANGED page
    /\ UNCHANGED <<messages, stream, faults>>

-----------------------------------------------------------------------------
\* Faults.

Fault == faults < MaxFaults /\ faults' = faults + 1

\* A request is lost, or its answer.
Lose(c) ==
    /\ Fault
    /\ calls[c] # Null
    /\ Put(c, [calls[c] EXCEPT !.at = "failed"])
    /\ UNCHANGED <<agreement, agreements, messages, page, stream>>

Reload(p) ==
    /\ Fault
    /\ Show(p, Blank)
    /\ calls' = [c \in Call |-> IF calls[c] = Null \/ calls[c].party # p THEN calls[c]
                                ELSE [calls[c] EXCEPT !.live = FALSE]]
    /\ stream' = [stream EXCEPT ![p] = <<>>]
    /\ UNCHANGED <<agreement, agreements, messages>>

\* The stream breaks, and what is on it is lost; the page connects again.
Break(p) ==
    /\ Fault
    /\ stream[p] # Null
    /\ stream' = [stream EXCEPT ![p] = Null]
    /\ UNCHANGED <<agreement, agreements, messages, page, calls>>

Connect(p) ==
    /\ stream[p] = Null
    /\ stream' = [stream EXCEPT ![p] = <<>>]
    /\ UNCHANGED <<agreement, agreements, messages, page, calls, faults>>

-----------------------------------------------------------------------------

Next ==
    \/ \E c \in Call, p \in Party :
         Load(c, p) \/ Approve(c, p) \/ Reject(c, p) \/ Fetch(c, p) \/ SendMessage(c, p) \/ Receive(c, p)
    \/ \E c \in Call : Serve(c) \/ Return(c) \/ Catch(c) \/ Approved(c) \/ Lose(c)
    \/ \E p \in Party : Reload(p) \/ Break(p) \/ Connect(p)

Spec == Init /\ [][Next]_vars

-----------------------------------------------------------------------------

\* A page never claims more than what happened, whatever answer or event comes
\* late: completed means that both have approved, rejected that somebody has
\* rejected, waiting that the party's own approval is in (agree/page.tsx).
ShownIsTrue ==
    \A p \in Party :
        /\ page[p].flow = "completed" => agreement.approved = Party
        /\ page[p].flow = "rejected" => agreement.rejected
        /\ page[p].flow = "waiting" => p \in agreement.approved

\* agree/page.tsx: with both approvals the final terms are permanently recorded
\* on chain.
CompletedIsRecorded ==
    \A p \in Party : page[p].flow = "completed" => agreements["session"] # Null

-----------------------------------------------------------------------------
\* Why a page claims nothing else: approvals and rejections are never taken back,
\* so an answer that is late is still true, and a page asks as "refetch" only
\* once both have approved.
IsPage(r) == r = [flow |-> r.flow, loaded |-> r.loaded, list |-> r.list,
                  fetch |-> r.fetch, sending |-> r.sending]
IsCall(r) == /\ r = [kind |-> r.kind, party |-> r.party, at |-> r.at, live |-> r.live,
                     answer |-> r.answer]
             /\ r.party \in Party
TypeOK ==
    /\ agreement \in [approved : SUBSET Party, rejected : BOOLEAN, recorded : BOOLEAN]
    /\ page = [p \in Party |-> page[p]] /\ \A p \in Party : IsPage(page[p])
    /\ calls = [c \in Call |-> calls[c]] /\ \A c \in Call : calls[c] # Null => IsCall(calls[c])

Holds(r) ==
    /\ r.kind = "refetch" => agreement.approved = Party
    /\ r.at = "back" =>
          /\ Asked(r.kind) => /\ r.answer.approved \subseteq agreement.approved
                              /\ r.answer.rejected => agreement.rejected
          /\ r.kind = "approve" /\ r.answer = "both_approved" => agreement.approved = Party
          /\ r.kind = "approve" /\ r.answer = "waiting" => r.party \in agreement.approved
          /\ r.kind = "reject" => agreement.rejected
AnswersAreTrue == \A c \in Call : calls[c] # Null => Holds(calls[c])

ShownIsTrueInv == TypeOK /\ AnswersAreTrue /\ ShownIsTrue
=============================================================================
