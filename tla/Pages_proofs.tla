---------------------------- MODULE Pages_proofs ----------------------------
(***************************************************************************)
(* What the pages show, proved for every number of requests, messages and  *)
(* parties and for every value of the bounds: each page's property is an   *)
(* invariant of the platform, MCPlatform, whose constants are arbitrary    *)
(* but for the assumptions it names.  The inductive invariants are stated  *)
(* with the components.                                                    *)
(***************************************************************************)
EXTENDS MCPlatform, FiniteSetTheorems, SequenceTheorems, TLAPS

-----------------------------------------------------------------------------
\* The page of an agreement (AgreementPage).

\* Approvals and rejections are never taken back.
Grows ==
    /\ v1' \in [approved : SUBSET Party, rejected : BOOLEAN, recorded : BOOLEAN]
    /\ v1.approved \subseteq v1'.approved
    /\ v1.rejected => v1'.rejected

\* A page may say of itself what its flow claims.
Claims(p, flow) ==
    /\ flow = "completed" => v1.approved = Party
    /\ flow = "rejected" => v1.rejected
    /\ flow = "waiting" => p \in v1.approved

\* As the agreement's approvals only grow, an answer under way stays true.
LEMMA HoldsOn ==
    ASSUME P!TypeOK, Grows, NEW r, P!IsCall(r), P!Holds(r)
    PROVE  P!Holds(r)'
<1>1. v1.approved = Party => v1'.approved = Party
  BY DEF Grows
<1>. QED
  BY <1>1 DEF Grows, P!Holds, P!Asked, P!IsCall

\* So does what a page shows.
LEMMA ClaimsStay ==
    ASSUME P!TypeOK, Grows, NEW p \in Party, NEW flow, Claims(p, flow)
    PROVE  Claims(p, flow)'
BY DEF Grows, Claims

\* One call goes on, the others stay.
LEMMA OneCallGoesOn ==
    ASSUME P!TypeOK, P!AnswersAreTrue, Grows, NEW c \in Call,
           v5' = [v5 EXCEPT ![c] = v5'[c]],
           v5'[c] # Null => P!IsCall(v5'[c]) /\ P!Holds(v5[c])'
    PROVE  /\ v5' = [d \in Call |-> v5'[d]]
           /\ \A d \in Call : v5'[d] # Null => P!IsCall(v5'[d])
           /\ P!AnswersAreTrue'
<1>1. v5' = [d \in Call |-> v5'[d]] /\ \A d \in Call : d # c => v5'[d] = v5[d]
  BY DEF P!TypeOK
<1>2. ASSUME NEW d \in Call, d # c, v5'[d] # Null
      PROVE  P!IsCall(v5'[d]) /\ P!Holds(v5[d])'
  <2>1. v5[d] # Null /\ v5'[d] = v5[d] /\ P!IsCall(v5[d]) /\ P!Holds(v5[d])
    BY <1>1, <1>2 DEF P!TypeOK, P!AnswersAreTrue
  <2>2. \A r : r = v5[d] => P!Holds(r)'
    BY <2>1, HoldsOn
  <2>. QED
    BY <2>1, <2>2 DEF P!Holds
<1>. QED
  BY <1>1, <1>2 DEF P!AnswersAreTrue

\* One page shows something else, the others stay.
LEMMA OnePageGoesOn ==
    ASSUME P!TypeOK, P!ShownIsTrue, Grows, NEW p \in Party,
           v4' = [v4 EXCEPT ![p] = v4'[p]],
           P!IsPage(v4'[p]), Claims(p, v4[p].flow)'
    PROVE  /\ v4' = [q \in Party |-> v4'[q]]
           /\ \A q \in Party : P!IsPage(v4'[q])
           /\ P!ShownIsTrue'
<1>1. v4' = [q \in Party |-> v4'[q]] /\ \A q \in Party : q # p => v4'[q] = v4[q]
  BY DEF P!TypeOK
<1>2. \A q \in Party : P!IsPage(v4'[q])
  BY <1>1 DEF P!TypeOK
<1>3. ASSUME NEW q \in Party, q # p PROVE Claims(q, v4[q].flow)'
  <2>1. v4'[q] = v4[q] /\ Claims(q, v4[q].flow)
    BY <1>1, <1>3 DEF P!ShownIsTrue, Claims
  <2>. QED
    BY <2>1, ClaimsStay DEF Claims
<1>. QED
  BY <1>1, <1>2, <1>3 DEF P!ShownIsTrue, Claims

\* What is asked has no answer yet.
LEMMA AskedHolds ==
    ASSUME NEW p \in Party, NEW kind, kind # "refetch"
    PROVE  P!IsCall(P!Ask(p, kind)) /\ P!Holds(P!Ask(p, kind))
BY DEF P!Ask, P!IsCall, P!Holds

\* An agreement that did not change is one that grew.
LEMMA NothingNew ==
    ASSUME P!TypeOK, v1' = v1
    PROVE  Grows
BY DEF P!TypeOK, Grows

\* The steps that only ask.
LEMMA AsksKeep ==
    ASSUME P!ShownIsTrueInv, NEW c \in Call, NEW p \in Party,
           P!Load(c, p) \/ P!Approve(c, p) \/ P!Reject(c, p) \/ P!Fetch(c, p)
              \/ P!SendMessage(c, p) \/ P!Receive(c, p)
    PROVE  P!ShownIsTrueInv'
<1>1. v1' = v1
  BY DEF P!Load, P!Approve, P!Reject, P!Fetch, P!SendMessage, P!Receive, P!Begin
<1>2. Grows
  BY <1>1, NothingNew DEF P!ShownIsTrueInv
<1>3. \/ v5' = v5
      \/ \E kind : kind # "refetch" /\ v5' = [v5 EXCEPT ![c] = P!Ask(p, kind)]
  BY DEF P!Load, P!Approve, P!Reject, P!Fetch, P!SendMessage, P!Receive, P!Begin, P!Put
<1>4. /\ v5' = [d \in Call |-> v5'[d]]
      /\ \A d \in Call : v5'[d] # Null => P!IsCall(v5'[d])
      /\ P!AnswersAreTrue'
  <2>1. CASE v5' = v5
    BY <1>1, <2>1 DEF P!ShownIsTrueInv, P!TypeOK, P!AnswersAreTrue, P!Holds
  <2>2. CASE \E kind : kind # "refetch" /\ v5' = [v5 EXCEPT ![c] = P!Ask(p, kind)]
    <3>1. PICK kind : kind # "refetch" /\ v5' = [v5 EXCEPT ![c] = P!Ask(p, kind)]
      BY <2>2
    <3>2. v5'[c] = P!Ask(p, kind)
      BY <3>1 DEF P!ShownIsTrueInv, P!TypeOK
    <3>3. P!IsCall(v5'[c])
      BY <3>1, <3>2, AskedHolds
    <3>4. P!Holds(v5[c])'
      BY <3>1, <3>2 DEF P!Holds, P!Ask
    <3>5. v5' = [v5 EXCEPT ![c] = v5'[c]]
      BY <3>1, <3>2
    <3>. QED
      BY <1>2, <3>3, <3>4, <3>5, OneCallGoesOn DEF P!ShownIsTrueInv
  <2>. QED
    BY <1>3, <2>1, <2>2
<1>5. \/ v4' = v4
      \/ v4' = [v4 EXCEPT ![p] = [v4[p] EXCEPT !.flow = "approving"]]
      \/ v4' = [v4 EXCEPT ![p] = [v4[p] EXCEPT !.fetch = FALSE]]
      \/ v4' = [v4 EXCEPT ![p] = [v4[p] EXCEPT !.sending = TRUE]]
  BY DEF P!Load, P!Approve, P!Reject, P!Fetch, P!SendMessage, P!Receive, P!Show
<1>6. /\ v4' = [q \in Party |-> v4'[q]]
      /\ \A q \in Party : P!IsPage(v4'[q])
      /\ P!ShownIsTrue'
  <2>1. CASE v4' = v4
    BY <1>1, <2>1 DEF P!ShownIsTrueInv, P!TypeOK, P!ShownIsTrue
  <2>2. CASE v4' # v4
    <3>1. P!IsPage(v4[p]) /\ Claims(p, v4[p].flow) /\ v4 = [q \in Party |-> v4[q]]
      BY DEF P!ShownIsTrueInv, P!TypeOK, P!ShownIsTrue, Claims
    <3>2. /\ P!IsPage(v4'[p]) /\ v4' = [v4 EXCEPT ![p] = v4'[p]]
          /\ v4'[p].flow \in {v4[p].flow, "approving"}
      BY <1>5, <2>2, <3>1 DEF P!IsPage
    <3>3. Claims(p, v4[p].flow)'
      BY <1>1, <3>1, <3>2 DEF Claims
    <3>. QED
      BY <1>2, <3>2, <3>3, OnePageGoesOn DEF P!ShownIsTrueInv
  <2>. QED
    BY <2>1, <2>2
<1>. QED
  BY <1>2, <1>4, <1>6 DEF P!ShownIsTrueInv, P!TypeOK, Grows

\* The server answers what has happened until then.
LEMMA ServeKeeps ==
    ASSUME P!ShownIsTrueInv, NEW c \in Call, P!Serve(c)
    PROVE  P!ShownIsTrueInv'
<1> DEFINE p == v5[c].party
           kind == v5[c].kind
           back(answer) == [v5[c] EXCEPT !.at = "back", !.answer = answer]
           failed == [v5[c] EXCEPT !.at = "failed"]
<1>1. v5[c] # Null /\ P!IsCall(v5[c]) /\ P!Holds(v5[c]) /\ p \in Party /\ v4' = v4
  BY DEF P!ShownIsTrueInv, P!TypeOK, P!AnswersAreTrue, P!IsCall, P!Serve
<1>2. v1 \in [approved : SUBSET Party, rejected : BOOLEAN, recorded : BOOLEAN]
  BY DEF P!ShownIsTrueInv, P!TypeOK
<1>3. \/ v1' = v1 /\ v5' = [v5 EXCEPT ![c] = failed]
      \/ /\ kind = "approve" /\ v1' = [v1 EXCEPT !.approved = v1.approved \cup {p}]
         /\ v5' = [v5 EXCEPT ![c] = back(IF v1.approved \cup {p} = Party THEN "both_approved" ELSE "waiting")]
      \/ /\ kind = "reject" /\ v1' = [v1 EXCEPT !.rejected = TRUE]
         /\ v5' = [v5 EXCEPT ![c] = back("rejected")]
      \/ /\ kind \notin {"approve", "reject"} /\ ~P!Asked(kind) /\ v1' = v1
         /\ \E answer : v5' = [v5 EXCEPT ![c] = back(answer)]
      \/ P!Asked(kind) /\ v1' = v1 /\ v5' = [v5 EXCEPT ![c] = back(v1)]
  <2>1. CASE kind = "approve"
    <3>1. P!ServeApprove(c, p)
      BY <2>1 DEF P!Serve
    <3>. QED
      BY <2>1, <3>1 DEF P!ServeApprove, P!Refused, P!Answered, P!Put
  <2>2. CASE kind = "reject"
    <3>1. P!ServeReject(c, p)
      BY <2>2 DEF P!Serve
    <3>. QED
      BY <2>2, <3>1 DEF P!ServeReject, P!Refused, P!Answered, P!Put
  <2>3. CASE kind = "send"
    <3>1. P!ServeSend(c, p)
      BY <2>3 DEF P!Serve
    <3>. QED
      BY <2>3, <3>1 DEF P!ServeSend, P!Refused, P!Answered, P!Put, P!Asked
  <2>4. CASE kind \notin {"approve", "reject", "send"}
    <3>1. P!ServeGet(c)
      BY <2>4 DEF P!Serve
    <3>2. CASE kind = "list"
      BY <2>4, <3>1, <3>2 DEF P!ServeGet, P!Answered, P!Put, P!Asked
    <3>3. CASE kind # "list"
      BY <2>4, <3>1, <3>3 DEF P!ServeGet, P!Answered, P!Put, P!Asked
    <3>. QED
      BY <3>2, <3>3
  <2>. QED
    BY <2>1, <2>2, <2>3, <2>4
<1>4. Grows
  <2>1. CASE v1' = v1
    BY <1>2, <2>1 DEF Grows
  <2>2. CASE v1' = [v1 EXCEPT !.approved = v1.approved \cup {p}]
    <3>1. v1' = [approved |-> v1.approved \cup {p}, rejected |-> v1.rejected, recorded |-> v1.recorded]
      BY <1>2, <2>2
    <3>2. v1.approved \cup {p} \in SUBSET Party /\ v1.approved \subseteq v1.approved \cup {p}
      BY <1>1, <1>2
    <3>3. v1.rejected \in BOOLEAN /\ v1.recorded \in BOOLEAN
      BY <1>2
    <3>. QED
      BY <3>1, <3>2, <3>3 DEF Grows
  <2>3. CASE v1' = [v1 EXCEPT !.rejected = TRUE]
    <3>1. v1' = [approved |-> v1.approved, rejected |-> TRUE, recorded |-> v1.recorded]
      BY <1>2, <2>3
    <3>. QED
      BY <1>2, <3>1 DEF Grows
  <2>. QED
    BY <1>3, <2>1, <2>2, <2>3
<1>5. v5 = [d \in Call |-> v5[d]]
  BY DEF P!ShownIsTrueInv, P!TypeOK
<1>6. /\ v5' = [v5 EXCEPT ![c] = v5'[c]]
      /\ P!IsCall(v5'[c]) /\ P!Holds(v5[c])'
  <2>1. CASE v1' = v1 /\ v5' = [v5 EXCEPT ![c] = failed]
    BY <1>1, <1>5, <2>1 DEF P!IsCall, P!Holds
  <2>2. CASE /\ kind = "approve" /\ v1' = [v1 EXCEPT !.approved = v1.approved \cup {p}]
             /\ v5' = [v5 EXCEPT ![c] = back(IF v1.approved \cup {p} = Party THEN "both_approved" ELSE "waiting")]
    <3>1. v1'.approved = v1.approved \cup {p}
      BY <1>2, <2>2
    <3>. QED
      BY <1>1, <1>5, <2>2, <3>1 DEF P!IsCall, P!Holds, P!Asked
  <2>3. CASE /\ kind = "reject" /\ v1' = [v1 EXCEPT !.rejected = TRUE]
             /\ v5' = [v5 EXCEPT ![c] = back("rejected")]
    <3>1. v1'.rejected
      BY <1>2, <2>3
    <3>. QED
      BY <1>1, <1>5, <2>3, <3>1 DEF P!IsCall, P!Holds, P!Asked
  <2>4. CASE /\ kind \notin {"approve", "reject"} /\ ~P!Asked(kind) /\ v1' = v1
             /\ \E answer : v5' = [v5 EXCEPT ![c] = back(answer)]
    <3>1. PICK answer : v5' = [v5 EXCEPT ![c] = back(answer)]
      BY <2>4
    <3>2. kind # "refetch"
      BY <2>4 DEF P!Asked
    <3>. QED
      BY <1>1, <1>5, <2>4, <3>1, <3>2 DEF P!IsCall, P!Holds
  <2>5. CASE P!Asked(kind) /\ v1' = v1 /\ v5' = [v5 EXCEPT ![c] = back(v1)]
    BY <1>1, <1>5, <2>5 DEF P!IsCall, P!Holds, P!Asked
  <2>. QED
    BY <1>3, <2>1, <2>2, <2>3, <2>4, <2>5
<1>7. P!ShownIsTrue'
  BY <1>1, <1>4, ClaimsStay DEF P!ShownIsTrueInv, P!ShownIsTrue, Claims
<1>. QED
  BY <1>1, <1>4, <1>6, <1>7, OneCallGoesOn DEF P!ShownIsTrueInv, P!TypeOK, Grows

\* A continuation that ends.
LEMMA DoneKeeps ==
    ASSUME P!ShownIsTrueInv, NEW c \in Call, v5[c] # Null, NEW r, P!Done(c, r),
           P!IsPage(r), Claims(v5[c].party, r.flow)
    PROVE  P!ShownIsTrueInv'
<1> DEFINE p == v5[c].party
<1>1. v1' = v1 /\ v5' = [v5 EXCEPT ![c] = Null] /\ (v4' = v4 \/ v4' = [v4 EXCEPT ![p] = r])
  BY DEF P!Done, P!Put, P!Show
<1>2. p \in Party
  BY DEF P!ShownIsTrueInv, P!TypeOK, P!IsCall
<1>3. Grows
  BY <1>1, NothingNew DEF P!ShownIsTrueInv
<1>4. v5' = [v5 EXCEPT ![c] = v5'[c]] /\ v5'[c] = Null
  BY <1>1 DEF P!ShownIsTrueInv, P!TypeOK
<1>5. /\ v5' = [d \in Call |-> v5'[d]]
      /\ \A d \in Call : v5'[d] # Null => P!IsCall(v5'[d])
      /\ P!AnswersAreTrue'
  BY <1>3, <1>4, OneCallGoesOn DEF P!ShownIsTrueInv
<1>6. /\ v4' = [q \in Party |-> v4'[q]]
      /\ \A q \in Party : P!IsPage(v4'[q])
      /\ P!ShownIsTrue'
  <2>1. CASE v4' = v4
    BY <1>1, <2>1 DEF P!ShownIsTrueInv, P!TypeOK, P!ShownIsTrue
  <2>2. CASE v4' = [v4 EXCEPT ![p] = r]
    <3>1. v4'[p] = r /\ v4' = [v4 EXCEPT ![p] = v4'[p]]
      BY <1>2, <2>2 DEF P!ShownIsTrueInv, P!TypeOK
    <3>2. ASSUME NEW q, q = p PROVE Claims(q, v4[q].flow)'
      BY <1>1, <3>1, <3>2 DEF Claims
    <3>. QED
      BY <1>2, <1>3, <3>1, <3>2, OnePageGoesOn DEF P!ShownIsTrueInv
  <2>. QED
    BY <1>1, <2>1, <2>2
<1>. QED
  BY <1>3, <1>5, <1>6 DEF P!ShownIsTrueInv, P!TypeOK, Grows

\* A page that is settled shows the flow it is settled with.
LEMMA SettledIsPage ==
    ASSUME NEW r, P!IsPage(r), NEW flow
    PROVE  P!IsPage(P!Settled(r, flow)) /\ P!Settled(r, flow).flow = flow
<1>1. PICK x : P!Settled(r, flow) = [r EXCEPT !.flow = flow, !.loaded = TRUE, !.fetch = x]
  BY Zenon DEF P!Settled
<1>. QED
  BY <1>1 DEF P!IsPage

\* The page of an answer that came back.
LEMMA ReturnKeeps ==
    ASSUME P!ShownIsTrueInv, NEW c \in Call, P!Return(c)
    PROVE  P!ShownIsTrueInv'
<1> DEFINE a == v5[c].answer
           kind == v5[c].kind
           p == v5[c].party
           r == v4[p]
<1>1. v5[c] # Null /\ v5[c].at = "back" /\ P!IsCall(v5[c]) /\ P!Holds(v5[c]) /\ p \in Party
  BY DEF P!ShownIsTrueInv, P!TypeOK, P!AnswersAreTrue, P!IsCall, P!Return
<1>2. P!IsPage(r) /\ Claims(p, r.flow) /\ v1.approved \subseteq Party
  BY <1>1 DEF P!ShownIsTrueInv, P!TypeOK, P!ShownIsTrue, Claims
<1>3. \A flow : P!IsPage(P!Settled(r, flow)) /\ P!Settled(r, flow).flow = flow
  BY <1>2, SettledIsPage
<1>4. CASE P!Asked(kind) /\ P!Done(c, P!Outcome(kind, r, a, p))
  <2>1. /\ kind = "refetch" => v1.approved = Party
        /\ a.approved \subseteq v1.approved
        /\ a.rejected => v1.rejected
    BY <1>1, <1>4 DEF P!Holds
  <2>2. /\ P!IsPage(P!Outcome(kind, r, a, p))
        /\ Claims(p, P!Outcome(kind, r, a, p).flow)
    <3>1. CASE kind \in {"load", "update"} /\ a.rejected
      <4>1. P!Outcome(kind, r, a, p) = P!Settled(r, "rejected")
        BY <3>1 DEF P!Outcome
      <4>. QED
        BY <1>1, <1>3, <1>4, <3>1, <4>1 DEF Claims, P!Holds
    <3>2. CASE ~(kind \in {"load", "update"} /\ a.rejected) /\ (kind = "refetch" \/ P!Whole(a))
      <4>1. P!Outcome(kind, r, a, p) = P!Settled(r, "completed")
        BY <3>2 DEF P!Outcome
      <4>2. v1.approved = Party
        <5>1. CASE kind = "refetch"
          BY <2>1, <5>1
        <5>2. CASE P!Whole(a)
          <6>1. a.approved = Party
            BY <5>2 DEF P!Whole
          <6>2. Party \subseteq v1.approved
            BY <2>1, <6>1
          <6>. QED
            BY <1>2, <6>2
        <5>. QED
          BY <3>2, <5>1, <5>2
      <4>. QED
        BY <1>3, <4>1, <4>2 DEF Claims
    <3>3. CASE /\ ~(kind \in {"load", "update"} /\ a.rejected) /\ ~(kind = "refetch" \/ P!Whole(a))
               /\ kind = "load" /\ p \in a.approved
      <4>1. P!Outcome(kind, r, a, p) = P!Settled(r, "waiting")
        BY <3>3 DEF P!Outcome
      <4>2. p \in v1.approved
        BY <2>1, <3>3
      <4>3. Claims(p, "waiting")
        BY <4>2 DEF Claims
      <4>. QED
        BY <1>3, <4>1, <4>3
    <3>4. CASE /\ ~(kind \in {"load", "update"} /\ a.rejected) /\ ~(kind = "refetch" \/ P!Whole(a))
               /\ ~(kind = "load" /\ p \in a.approved)
      <4>1. P!Outcome(kind, r, a, p) \in {r, P!Settled(r, r.flow)}
        BY <3>4 DEF P!Outcome
      <4>. QED
        BY <1>2, <1>3, <4>1
    <3>. QED
      BY <3>1, <3>2, <3>3, <3>4
  <2>. QED
    BY <1>1, <1>4, <2>2, DoneKeeps
<1>5. CASE kind = "list" /\ P!Done(c, [r EXCEPT !.list = a])
  <2>1. /\ P!IsPage([r EXCEPT !.list = a])
        /\ [r EXCEPT !.list = a].flow = r.flow
    BY <1>2 DEF P!IsPage
  <2>. QED
    BY <1>1, <1>2, <1>5, <2>1, DoneKeeps
<1>6. CASE kind = "send" /\ P!Done(c, [r EXCEPT !.sending = FALSE, !.list = Append(@, a)])
  <2>1. PICK x : P!Done(c, [r EXCEPT !.sending = FALSE, !.list = x])
    BY <1>6, Zenon
  <2>2. PICK s : s = [r EXCEPT !.sending = FALSE, !.list = x]
    OBVIOUS
  <2>3. P!IsPage(s) /\ s.flow = r.flow
    BY <1>2, <2>2 DEF P!IsPage
  <2>. QED
    BY <1>1, <1>2, <2>1, <2>2, <2>3, DoneKeeps
<1>7. CASE kind = "reject" /\ P!Done(c, P!Settled(r, "rejected"))
  <2>1. v1.rejected
    BY <1>1, <1>7 DEF P!Holds
  <2>2. Claims(p, "rejected")
    BY <2>1 DEF Claims
  <2>. QED
    BY <1>1, <1>3, <1>7, <2>2, DoneKeeps
<1>. QED
  BY <1>4, <1>5, <1>6, <1>7 DEF P!Return

\* The page of an answer that was an error (Catch).
LEMMA CatchKeeps ==
    ASSUME P!ShownIsTrueInv, NEW c \in Call, P!Catch(c)
    PROVE  P!ShownIsTrueInv'
<1> DEFINE kind == v5[c].kind
           p == v5[c].party
           r == v4[p]
<1>1. v5[c] # Null /\ P!IsCall(v5[c]) /\ p \in Party
  BY DEF P!ShownIsTrueInv, P!TypeOK, P!IsCall, P!Catch
<1>2. P!IsPage(r) /\ Claims(p, r.flow)
  BY <1>1 DEF P!ShownIsTrueInv, P!TypeOK, P!ShownIsTrue, Claims
<1>3. PICK s : /\ P!Done(c, s)
               /\ s \in {[r EXCEPT !.flow = "idle"], [r EXCEPT !.sending = FALSE],
                         [r EXCEPT !.loaded = TRUE], r}
  <2> DEFINE s == CASE kind \in {"approve", "refetch"} -> [r EXCEPT !.flow = "idle"]
                    [] kind = "send" -> [r EXCEPT !.sending = FALSE]
                    [] kind = "load" -> [r EXCEPT !.loaded = TRUE]
                    [] OTHER -> r
  <2>1. P!Done(c, s)
    BY DEF P!Catch
  <2>2. s \in {[r EXCEPT !.flow = "idle"], [r EXCEPT !.sending = FALSE],
               [r EXCEPT !.loaded = TRUE], r}
    OBVIOUS
  <2> HIDE DEF s
  <2>. QED
    BY <2>1, <2>2
<1>4. P!IsPage(s) /\ s.flow \in {r.flow, "idle"}
  BY <1>2, <1>3 DEF P!IsPage
<1>5. Claims(p, s.flow)
  BY <1>2, <1>4 DEF Claims
<1>. QED
  BY <1>1, <1>3, <1>4, <1>5, DoneKeeps

\* After the approval the page asks again, and knows why.
LEMMA ApprovedKeeps ==
    ASSUME P!ShownIsTrueInv, NEW c \in Call, P!Approved(c)
    PROVE  P!ShownIsTrueInv'
<1>0. PICK p \in Party : p = v5[c].party
  BY DEF P!ShownIsTrueInv, P!TypeOK, P!IsCall, P!Approved
<1>1. v5[c] # Null /\ P!IsCall(v5[c]) /\ P!Holds(v5[c])
      /\ v5[c].at = "back" /\ v5[c].kind = "approve"
  BY DEF P!ShownIsTrueInv, P!TypeOK, P!AnswersAreTrue, P!Approved
<1>2. v1 \in [approved : SUBSET Party, rejected : BOOLEAN, recorded : BOOLEAN]
  BY DEF P!ShownIsTrueInv, P!TypeOK
<1>3. v5 = [d \in Call |-> v5[d]] /\ v4 = [q \in Party |-> v4[q]]
  BY DEF P!ShownIsTrueInv, P!TypeOK
<1>4. \A kind : [P!Ask(p, kind) EXCEPT !.live = v5[c].live]
                 = [kind |-> kind, party |-> p, at |-> "sent", live |-> v5[c].live,
                              answer |-> Null]
  BY DEF P!Ask
<1>5. CASE /\ v5[c].answer = "waiting" /\ v5' = [v5 EXCEPT ![c] = [P!Ask(p, "check") EXCEPT !.live = v5[c].live]] /\ v1' = v1
           /\ v4' = v4 \/ v4' = [v4 EXCEPT ![p] = [v4[p] EXCEPT !.flow = "waiting"]]
  <2>1. Grows
    BY <1>2, <1>5 DEF Grows
  <2>2. v5'[c] = [P!Ask(p, "check") EXCEPT !.live = v5[c].live] /\ v5' = [v5 EXCEPT ![c] = v5'[c]]
    BY <1>3, <1>5
  <2>5. p \in v1.approved
    BY <1>0, <1>1, <1>5 DEF P!Holds
  <2>7. v5'[c] = [kind |-> "check", party |-> p, at |-> "sent", live |-> v5[c].live, answer |-> Null]
    BY <1>0, <1>4, <2>2
  <2>3. P!IsCall(v5'[c]) /\ P!Holds(v5[c])'
    BY <2>7 DEF P!IsCall, P!Holds
  <2>4. /\ v5' = [d \in Call |-> v5'[d]]
        /\ \A d \in Call : v5'[d] # Null => P!IsCall(v5'[d])
        /\ P!AnswersAreTrue'
    BY <2>1, <2>2, <2>3, OneCallGoesOn DEF P!ShownIsTrueInv
  <2>6. /\ v4' = [q \in Party |-> v4'[q]]
        /\ \A q \in Party : P!IsPage(v4'[q])
        /\ P!ShownIsTrue'
    <3>1. CASE v4' = v4
      BY <1>5, <3>1 DEF P!ShownIsTrueInv, P!TypeOK, P!ShownIsTrue
    <3>2. CASE v4' = [v4 EXCEPT ![p] = [v4[p] EXCEPT !.flow = "waiting"]]
      <4>1. P!IsPage(v4[p])
        BY <1>1 DEF P!ShownIsTrueInv, P!TypeOK
      <4>2. P!IsPage(v4'[p]) /\ v4' = [v4 EXCEPT ![p] = v4'[p]] /\ v4'[p].flow = "waiting"
        BY <1>1, <1>3, <3>2, <4>1 DEF P!IsPage
      <4>3. Claims(p, v4[p].flow)'
        BY <1>5, <2>5, <4>2 DEF Claims
      <4>. QED
        BY <1>1, <2>1, <4>2, <4>3, OnePageGoesOn DEF P!ShownIsTrueInv
    <3>. QED
      BY <1>5, <3>1, <3>2
  <2>. QED
    BY <2>1, <2>4, <2>6 DEF P!ShownIsTrueInv, P!TypeOK, Grows
<1>6. CASE /\ v5[c].answer = "both_approved" /\ v5' = [v5 EXCEPT ![c] = [P!Ask(p, "refetch") EXCEPT !.live = v5[c].live]] /\ v4' = v4
           /\ \E hash \in BOOLEAN : v1' = [v1 EXCEPT !.recorded = @ \/ hash]
  <2>1. PICK hash \in BOOLEAN : v1' = [v1 EXCEPT !.recorded = @ \/ hash]
    BY <1>6
  <2>2. v1' = [approved |-> v1.approved, rejected |-> v1.rejected, recorded |-> v1.recorded \/ hash]
    BY <1>2, <2>1
  <2>3. Grows
    BY <1>2, <2>2 DEF Grows
  <2>4. v5'[c] = [P!Ask(p, "refetch") EXCEPT !.live = v5[c].live] /\ v5' = [v5 EXCEPT ![c] = v5'[c]]
    BY <1>3, <1>6
  <2>5. v1.approved = Party
    BY <1>1, <1>6 DEF P!Holds
  <2>6. v1'.approved = Party
    BY <2>2, <2>5
  <2>10. v5'[c] = [kind |-> "refetch", party |-> p, at |-> "sent", live |-> v5[c].live, answer |-> Null]
    BY <1>0, <1>4, <2>4
  <2>7. P!IsCall(v5'[c]) /\ P!Holds(v5[c])'
    BY <2>6, <2>10 DEF P!IsCall, P!Holds
  <2>8. /\ v5' = [d \in Call |-> v5'[d]]
        /\ \A d \in Call : v5'[d] # Null => P!IsCall(v5'[d])
        /\ P!AnswersAreTrue'
    BY <2>3, <2>4, <2>7, OneCallGoesOn DEF P!ShownIsTrueInv
  <2>9. P!ShownIsTrue'
    BY <1>6, <2>3, ClaimsStay DEF P!ShownIsTrueInv, P!ShownIsTrue, Claims
  <2>. QED
    BY <1>6, <2>3, <2>8, <2>9 DEF P!ShownIsTrueInv, P!TypeOK, Grows
<1>. QED
  BY <1>0, <1>5, <1>6 DEF P!Approved, P!RecordOnChain, P!Put, P!Show

\* Lost answers, reloads and broken streams.
LEMMA FaultsKeep ==
    ASSUME P!ShownIsTrueInv,
           \/ \E c \in Call : P!Lose(c)
           \/ \E p \in Party : P!Reload(p) \/ P!Break(p) \/ P!Connect(p)
    PROVE  P!ShownIsTrueInv'
<1>0. v1' = v1
  BY DEF P!Lose, P!Reload, P!Break, P!Connect
<1>1. Grows
  BY <1>0, NothingNew DEF P!ShownIsTrueInv
<1>2. ASSUME NEW c \in Call, P!Lose(c) PROVE P!ShownIsTrueInv'
  <2>1. v5[c] # Null /\ P!IsCall(v5[c]) /\ P!Holds(v5[c]) /\ v5 = [d \in Call |-> v5[d]]
    BY <1>2 DEF P!ShownIsTrueInv, P!TypeOK, P!AnswersAreTrue, P!Lose
  <2>2. v5' = [v5 EXCEPT ![c] = [v5[c] EXCEPT !.at = "failed"]] /\ v4' = v4
    BY <1>2 DEF P!Lose, P!Put
  <2>3. v5' = [v5 EXCEPT ![c] = v5'[c]] /\ P!IsCall(v5'[c]) /\ P!Holds(v5[c])'
    BY <1>0, <2>1, <2>2 DEF P!IsCall, P!Holds
  <2>4. P!ShownIsTrue'
    BY <1>0, <2>2 DEF P!ShownIsTrueInv, P!ShownIsTrue
  <2>. QED
    BY <1>1, <2>2, <2>3, <2>4, OneCallGoesOn DEF P!ShownIsTrueInv, P!TypeOK, Grows
<1>3. ASSUME NEW p \in Party, P!Reload(p) PROVE P!ShownIsTrueInv'
  <2>1. v4' = [v4 EXCEPT ![p] = P!Blank] /\ v4 = [q \in Party |-> v4[q]]
    BY <1>3 DEF P!Reload, P!Show, P!ShownIsTrueInv, P!TypeOK
  <2>2. v4'[p] = P!Blank /\ v4' = [v4 EXCEPT ![p] = v4'[p]]
    BY <2>1
  <2>3. P!IsPage(v4'[p]) /\ Claims(p, v4[p].flow)'
    BY <2>2 DEF P!IsPage, P!Blank, Claims
  <2>4. /\ v4' = [q \in Party |-> v4'[q]]
        /\ \A q \in Party : P!IsPage(v4'[q])
        /\ P!ShownIsTrue'
    BY <1>1, <2>2, <2>3, OnePageGoesOn DEF P!ShownIsTrueInv
  <2>5. v5' = [c \in Call |-> IF v5[c] = Null \/ v5[c].party # p THEN v5[c]
                              ELSE [v5[c] EXCEPT !.live = FALSE]]
    BY <1>3 DEF P!Reload
  <2>6. v5' = [c \in Call |-> v5'[c]]
    BY <2>5
  <2>7. ASSUME NEW c \in Call, v5'[c] # Null
        PROVE  P!IsCall(v5'[c]) /\ P!Holds(v5[c])'
    <3>1. v5[c] # Null => P!IsCall(v5[c]) /\ P!Holds(v5[c])
      BY DEF P!ShownIsTrueInv, P!TypeOK, P!AnswersAreTrue
    <3>2. CASE v5'[c] = v5[c]
      BY <1>0, <2>7, <3>1, <3>2 DEF P!Holds
    <3>3. CASE v5[c] # Null /\ v5'[c] = [v5[c] EXCEPT !.live = FALSE]
      BY <1>0, <3>1, <3>3 DEF P!IsCall, P!Holds
    <3>. QED
      BY <2>5, <3>2, <3>3
  <2>8. P!AnswersAreTrue'
    BY <2>7 DEF P!AnswersAreTrue
  <2>. QED
    BY <1>1, <2>4, <2>6, <2>7, <2>8 DEF P!ShownIsTrueInv, P!TypeOK, Grows
<1>4. ASSUME NEW p \in Party, P!Break(p) \/ P!Connect(p) PROVE P!ShownIsTrueInv'
  <2>1. v4' = v4 /\ v5' = v5
    BY <1>4 DEF P!Break, P!Connect
  <2>. QED
    BY <1>0, <2>1 DEF P!ShownIsTrueInv, P!TypeOK, P!AnswersAreTrue, P!ShownIsTrue, P!Holds
<1>. QED
  BY <1>2, <1>3, <1>4

\* Every step of the page, the service or the network keeps the invariant.
LEMMA PageStep ==
    P!ShownIsTrueInv /\ P!Next => P!ShownIsTrueInv'
BY AsksKeep, ServeKeeps, ReturnKeeps, CatchKeeps, ApprovedKeeps, FaultsKeep DEF P!Next

\* So does a step that changes nothing.
LEMMA PageStutters ==
    P!ShownIsTrueInv /\ UNCHANGED vars => P!ShownIsTrueInv'
BY DEF vars, P!ShownIsTrueInv, P!TypeOK, P!AnswersAreTrue, P!ShownIsTrue, P!Holds

\* The inductive invariant, of the behaviours of this component.
ShownInv == part = "agreePage" => P!ShownIsTrueInv

\* A page claims no approval and no rejection that did not happen, whatever was
\* lost, answered late or reloaded (agree/page.tsx, agreement.service.ts).
THEOREM PageTellsTheTruth == Spec => []ShownIsTrue
<1>1. Initially => ShownInv
  <2>. SUFFICES ASSUME P!Init PROVE P!ShownIsTrueInv
    BY DEF Initially, Init, ShownInv
  <2>1. \A q \in Party : P!IsPage(P!Blank) /\ v4[q] = P!Blank
    BY DEF P!Init, P!IsPage, P!Blank
  <2>. QED
    BY <2>1 DEF P!Init, P!ShownIsTrueInv, P!TypeOK, P!AnswersAreTrue, P!ShownIsTrue, P!Blank
<1>2. ShownInv /\ [Next]_vars => ShownInv'
  <2>. SUFFICES ASSUME ShownInv, [Next]_vars, part' = "agreePage" PROVE P!ShownIsTrueInv'
    BY DEF ShownInv
  <2>1. part = "agreePage" /\ (P!Next \/ UNCHANGED vars)
    BY DEF Next, vars
  <2>. QED
    BY <2>1, PageStep, PageStutters DEF ShownInv
<1>3. ShownInv => ShownIsTrue
  BY DEF ShownInv, ShownIsTrue, P!ShownIsTrueInv
<1>. QED
  BY <1>1, <1>2, <1>3, PTL DEF Spec

-----------------------------------------------------------------------------
\* The page of the escrow account (EscrowPage).

\* One call goes on; the page shows the key it showed, and is loaded or not as it was.
LEMMA OneEscrowCall ==
    ASSUME W!TypeOK, W!LoadsFirst, W!AnswersAreTrue, NEW c \in Call,
           v5' = [v5 EXCEPT ![c] = v5'[c]],
           v4'.agentPubKey = v4.agentPubKey, v4'.loading = v4.loading,
           v4.loading => v4'.escrow = Null,
           v2 \subseteq v2',
           v5'[c] # Null => /\ W!IsCall(v5'[c])
                            /\ W!Holds(v5[c])'
                            /\ v5'[c].kind = "load" <=> v4.loading
                            /\ v4.loading => \A d \in Call : d # c => v5[d] = Null
    PROVE  /\ v5' = [d \in Call |-> v5'[d]]
           /\ \A d \in Call : v5'[d] # Null => W!IsCall(v5'[d])
           /\ W!AnswersAreTrue'
           /\ W!LoadsFirst'
<1>1. v5' = [d \in Call |-> v5'[d]] /\ \A d \in Call : d # c => v5'[d] = v5[d]
  BY DEF W!TypeOK
<1>2. \A d \in Call : v5'[d] # Null => W!IsCall(v5'[d])
  BY <1>1 DEF W!TypeOK
<1>3. ASSUME NEW d \in Call, d # c, v5'[d] # Null PROVE W!Holds(v5[d])'
  <2>1. v5'[d] = v5[d] /\ W!Holds(v5[d])
    BY <1>1, <1>3 DEF W!AnswersAreTrue
  <2>. QED
    BY <2>1 DEF W!Holds
<1>4. W!AnswersAreTrue'
  BY <1>3 DEF W!AnswersAreTrue
<1>5. ASSUME NEW d \in Call, v5'[d] # Null PROVE v5'[d].kind = "load" <=> v4'.loading
  BY <1>1, <1>5 DEF W!LoadsFirst
<1>6. ASSUME v4.loading, NEW d \in Call, NEW e \in Call, v5'[d] # Null, v5'[e] # Null
      PROVE  d = e
  BY <1>1, <1>6 DEF W!LoadsFirst
<1>. QED
  BY <1>1, <1>2, <1>4, <1>5, <1>6 DEF W!LoadsFirst

\* A call that is new, or stays of its kind, is one where it may be.
LEMMA OneOfItsKind ==
    ASSUME W!TypeOK, W!LoadsFirst, NEW c \in Call, v5[c] # Null
    PROVE  /\ v5[c].kind = "load" <=> v4.loading
           /\ v4.loading => \A d \in Call : d # c => v5[d] = Null
BY DEF W!LoadsFirst

\* A request is sent: to load, to deposit or to add the key.
LEMMA EscrowBegins ==
    ASSUME W!KeyShownInv, NEW c \in Call, W!Load(c) \/ W!Deposit(c) \/ W!AddKey(c)
    PROVE  W!KeyShownInv'
<1>1. PICK kind \in {"load", "deposit", "addKey"} :
        /\ v5[c] = Null /\ v5' = [v5 EXCEPT ![c] = W!Ask(kind)]
        /\ v2' = v2 /\ v4' = v4
        /\ kind = "load" <=> v4.loading
        /\ v4.loading => \A d \in Call : v5[d] = Null
  <2>1. CASE W!Load(c)
    BY <2>1 DEF W!Load, W!Begin, W!Put, W!Pending, W!KeyShownInv, W!LoadsFirst
  <2>2. CASE W!Deposit(c)
    BY <2>2 DEF W!Deposit, W!Begin, W!Put
  <2>3. CASE W!AddKey(c)
    BY <2>3 DEF W!AddKey, W!Begin, W!Put
  <2>. QED
    BY <2>1, <2>2, <2>3
<1>2. v5' = [v5 EXCEPT ![c] = v5'[c]] /\ v5'[c] = [kind |-> kind, at |-> "sent", answer |-> Null, prev |-> W!Shown]
  <2>1. PICK shown : shown = W!Shown
    OBVIOUS
  <2>2. v5' = [v5 EXCEPT ![c] = [kind |-> kind, at |-> "sent", answer |-> Null, prev |-> shown]]
    BY <1>1, <2>1 DEF W!Ask
  <2>. QED
    BY <2>1, <2>2 DEF W!KeyShownInv, W!TypeOK
<1>3. W!IsCall(v5'[c]) /\ W!Holds(v5[c])'
  <2>1. PICK shown : shown = W!Shown
    OBVIOUS
  <2>2. v5'[c] = [kind |-> kind, at |-> "sent", answer |-> Null, prev |-> shown]
    BY <1>2, <2>1
  <2>. QED
    BY <2>2 DEF W!IsCall, W!Holds
<1>4. v5'[c].kind = kind
  BY <1>2
<1>. QED
  BY <1>1, <1>2, <1>3, <1>4, OneEscrowCall DEF W!KeyShownInv, W!TypeOK, W!LoadsFirst, W!KeyShownIsThere

\* What the server and the chain do, and requests that are lost.
LEMMA EscrowServes ==
    ASSUME W!KeyShownInv, NEW c \in Call, W!Serve(c) \/ W!Lose(c)
    PROVE  W!KeyShownInv'
<1> DEFINE r == v5[c]
<1>1. r # Null /\ W!IsCall(r) /\ W!Holds(r) /\ v4' = v4 /\ v5 = [d \in Call |-> v5[d]]
  BY DEF W!KeyShownInv, W!TypeOK, W!AnswersAreTrue, W!Serve, W!Lose
<1>2. v2 \subseteq v2' /\ v5' = [v5 EXCEPT ![c] = v5'[c]] /\ v5'[c].kind = r.kind
      /\ W!IsCall(v5'[c]) /\ W!Holds(v5[c])'
  <2>1. CASE /\ v2' = v2 /\ v5' = [v5 EXCEPT ![c] = [r EXCEPT !.at = "failed"]]
    <3>1. v5'[c] = [r EXCEPT !.at = "failed"]
      BY <1>1, <2>1
    <3>2. v5'[c].kind = r.kind /\ W!IsCall(v5'[c]) /\ W!Holds(v5[c])'
      BY <1>1, <2>1, <3>1 DEF W!IsCall, W!Holds
    <3>. QED
      BY <1>1, <2>1, <3>2
  <2>2. CASE /\ r.kind \in {"load", "refresh", "deposit"} /\ v2' = v2
             /\ \E a : v5' = [v5 EXCEPT ![c] = [r EXCEPT !.at = "back", !.answer = a]]
    <3>1. PICK a : v5' = [v5 EXCEPT ![c] = [r EXCEPT !.at = "back", !.answer = a]]
      BY <2>2
    <3>2. v5'[c] = [r EXCEPT !.at = "back", !.answer = a]
      BY <1>1, <3>1
    <3>3. v5'[c].kind = r.kind /\ W!IsCall(v5'[c]) /\ W!Holds(v5[c])'
      BY <1>1, <2>2, <3>2 DEF W!IsCall, W!Holds
    <3>. QED
      BY <1>1, <2>2, <3>1, <3>3
  <2>3. CASE /\ r.kind = "check" /\ v2' = v2
             /\ v5' = [v5 EXCEPT ![c] = [r EXCEPT !.at = "back", !.answer = W!HasKey(r.key)]]
    <3>0. PICK x \in BOOLEAN : x = W!HasKey(r.key) /\ (x => r.key \in v2)
      <4>1. CASE r.key \in v2
        <5>1. W!HasKey(r.key) = TRUE
          BY <4>1 DEF W!HasKey
        <5>. QED
          BY <4>1, <5>1
      <4>2. CASE r.key \notin v2
        <5>1. W!HasKey(r.key) = FALSE
          BY <4>2 DEF W!HasKey
        <5>. QED
          BY <4>2, <5>1
      <4>. QED
        BY <4>1, <4>2
    <3>1. v5'[c] = [kind |-> "check", at |-> "back", answer |-> x, key |-> r.key]
      BY <1>1, <2>3, <3>0 DEF W!IsCall
    <3>2. v5'[c].answer \in BOOLEAN /\ (v5'[c].answer => r.key \in v2)
      BY <3>0, <3>1
    <3>3. v5'[c].kind = r.kind /\ W!IsCall(v5'[c])
      <4>1. v5'[c].kind = "check" /\ W!IsCall(v5'[c])
        BY <3>1 DEF W!IsCall
      <4>2. r.kind = "check"
        BY <2>3
      <4>. QED
        BY <4>1, <4>2
    <3>4. W!Holds(v5[c])'
      BY <1>1, <2>3, <3>1, <3>2 DEF W!Holds
    <3>. QED
      BY <1>1, <2>3, <3>3, <3>4
  <2>4. CASE /\ r.kind = "addKey" /\ v2' = v2 \cup {v4.agentPubKey}
             /\ v5' = [v5 EXCEPT ![c] = [r EXCEPT !.at = "back", !.answer = Null]]
    <3>1. v5'[c] = [r EXCEPT !.at = "back", !.answer = Null]
      BY <1>1, <2>4
    <3>2. v5'[c].kind = r.kind /\ W!IsCall(v5'[c]) /\ W!Holds(v5[c])'
      BY <1>1, <2>4, <3>1 DEF W!IsCall, W!Holds
    <3>. QED
      BY <1>1, <2>4, <3>2
  <2>. QED
    <3>1. CASE W!Lose(c)
      <4>1. v2' = v2 /\ v5' = [v5 EXCEPT ![c] = [r EXCEPT !.at = "failed"]]
        BY <3>1 DEF W!Lose, W!Put
      <4>. QED
        BY <2>1, <4>1
    <3>2. CASE W!Serve(c)
      <4>1. r.kind \in {"load", "refresh", "deposit"} =>
              /\ v2' = v2
              /\ \E a : v5' = [v5 EXCEPT ![c] = [r EXCEPT !.at = "back", !.answer = a]]
        BY <3>2, Zenon DEF W!Serve, W!Answered, W!Put
      <4>2. r.kind = "check" =>
              /\ v2' = v2
              /\ v5' = [v5 EXCEPT ![c] = [r EXCEPT !.at = "back", !.answer = W!HasKey(r.key)]]
        BY <3>2 DEF W!Serve, W!Answered, W!Put
      <4>3. r.kind = "addKey" =>
              /\ v2' = v2 \cup {v4.agentPubKey}
              /\ v5' = [v5 EXCEPT ![c] = [r EXCEPT !.at = "back", !.answer = Null]]
        BY <3>2 DEF W!Serve, W!Answered, W!Put
      <4>4. r.kind \in {"load", "refresh", "deposit", "check", "addKey"}
        BY <1>1 DEF W!IsCall
      <4>5. CASE r.kind \in {"load", "refresh", "deposit"}
        BY <2>2, <4>1, <4>5
      <4>6. CASE r.kind = "check"
        BY <2>3, <4>2, <4>6
      <4>7. CASE r.kind = "addKey"
        BY <2>4, <4>3, <4>7
      <4>. QED
        BY <4>4, <4>5, <4>6, <4>7, Zenon
    <3>. QED
      BY <3>1, <3>2
<1>3. /\ r.kind = "load" <=> v4.loading
      /\ v4.loading => \A d \in Call : d # c => v5[d] = Null
  BY <1>1, OneOfItsKind DEF W!KeyShownInv
<1>. QED
  BY <1>1, <1>2, <1>3, OneEscrowCall DEF W!KeyShownInv, W!TypeOK, W!LoadsFirst, W!KeyShownIsThere

\* A page that goes on with a call that is not its first: what it shows as
\* configured it showed before, or it has learnt.
LEMMA EscrowPageGoesOn ==
    ASSUME W!KeyShownInv, NEW c \in Call, v5[c] # Null, v5[c].kind # "load",
           v2' = v2, v5' = [v5 EXCEPT ![c] = v5'[c]],
           v5'[c] # Null => W!IsCall(v5'[c]) /\ W!Holds(v5[c])' /\ v5'[c].kind # "load",
           \/ v4' = v4
           \/ \E e : /\ v4' = [v4 EXCEPT !.escrow = e]
                     /\ e # Null => W!IsEscrow(e) /\ (e.agentKeySet => v4.agentPubKey \in v2)
    PROVE  W!KeyShownInv'
<1>1. ~v4.loading
  BY OneOfItsKind DEF W!KeyShownInv
<1>2. /\ v4' = [escrow |-> v4'.escrow, agentPubKey |-> v4'.agentPubKey, loading |-> v4'.loading]
      /\ v4'.agentPubKey = v4.agentPubKey /\ v4'.loading = v4.loading
      /\ v4'.escrow # Null => /\ W!IsEscrow(v4'.escrow)
                              /\ v4'.escrow.agentKeySet => v4.agentPubKey \in v2
  <2>1. CASE v4' = v4
    BY <2>1 DEF W!KeyShownInv, W!TypeOK, W!KeyShownIsThere
  <2>2. CASE \E e : /\ v4' = [v4 EXCEPT !.escrow = e]
                    /\ e # Null => W!IsEscrow(e) /\ (e.agentKeySet => v4.agentPubKey \in v2)
    <3>1. PICK e : /\ v4' = [v4 EXCEPT !.escrow = e]
                   /\ e # Null => W!IsEscrow(e) /\ (e.agentKeySet => v4.agentPubKey \in v2)
      BY <2>2
    <3>2. v4' = [escrow |-> e, agentPubKey |-> v4.agentPubKey, loading |-> v4.loading]
      BY <3>1 DEF W!KeyShownInv, W!TypeOK
    <3>. QED
      BY <3>1, <3>2
  <2>. QED
    BY <2>1, <2>2
<1>. QED
  BY <1>1, <1>2, OneEscrowCall DEF W!KeyShownInv, W!TypeOK, W!LoadsFirst, W!KeyShownIsThere

\* The first answer: the page shows the key it asks about.
LEMMA EscrowLoads ==
    ASSUME W!KeyShownInv, NEW c \in Call, v5[c] # Null, v5[c].kind = "load",
           v2' = v2, v5' = [v5 EXCEPT ![c] = v5'[c]], NEW key, NEW b,
           v4' = [escrow |-> b, agentPubKey |-> key, loading |-> FALSE],
           b = Null \/ b = W!Escrow(b.balance),
           v5'[c] # Null => v5'[c] = [kind |-> "check", at |-> "sent", answer |-> Null, key |-> key]
    PROVE  W!KeyShownInv'
<1>1. v4.loading /\ \A d \in Call : d # c => v5[d] = Null
  BY OneOfItsKind DEF W!KeyShownInv
<1>2. v5' = [d \in Call |-> v5'[d]] /\ \A d \in Call : d # c => v5'[d] = Null
  BY <1>1 DEF W!KeyShownInv, W!TypeOK
<1>3. v5'[c] # Null => W!IsCall(v5'[c]) /\ W!Holds(v5[c])' /\ v5'[c].kind = "check"
  BY DEF W!IsCall, W!Holds
<1>4. b # Null => W!IsEscrow(b) /\ ~b.agentKeySet
  <2>1. ASSUME b # Null PROVE b = [balance |-> b.balance, agentKeySet |-> FALSE]
    BY <2>1 DEF W!Escrow
  <2>2. ASSUME b # Null PROVE b.agentKeySet = FALSE
    BY <2>1, <2>2
  <2>. QED
    BY <2>1, <2>2 DEF W!IsEscrow
<1>5. v4'.escrow = b /\ v4'.agentPubKey = key /\ v4'.loading = FALSE
  OBVIOUS
<1>6. W!TypeOK'
  BY <1>2, <1>3, <1>4, <1>5 DEF W!TypeOK
<1>7. W!LoadsFirst'
  BY <1>2, <1>3, <1>5 DEF W!LoadsFirst
<1>8. W!AnswersAreTrue'
  BY <1>2, <1>3 DEF W!AnswersAreTrue
<1>9. W!KeyShownIsThere'
  BY <1>4, <1>5 DEF W!KeyShownIsThere
<1>. QED
  BY <1>6, <1>7, <1>8, <1>9 DEF W!KeyShownInv

\* The page of an answer that came back.
LEMMA EscrowReturns ==
    ASSUME W!KeyShownInv, NEW c \in Call, W!Return(c)
    PROVE  W!KeyShownInv'
<1> DEFINE kind == v5[c].kind
           a == v5[c].answer
           e == v4.escrow
<1>1. /\ v5[c] # Null /\ v5[c].at = "back" /\ W!IsCall(v5[c]) /\ W!Holds(v5[c])
      /\ v5 = [d \in Call |-> v5[d]] /\ v2' = v2
      /\ e # Null => W!IsEscrow(e)
  BY DEF W!KeyShownInv, W!TypeOK, W!AnswersAreTrue, W!Return
<1>2. CASE /\ kind = "load"
           /\ v4' = [escrow |-> IF a.balance = Null THEN e ELSE W!Escrow(a.balance),
                     agentPubKey |-> a.key, loading |-> FALSE]
           /\ W!Put(c, IF a.key = Null THEN Null
                     ELSE [kind |-> "check", at |-> "sent", answer |-> Null, key |-> a.key])
  <2>1. v4.loading /\ e = Null
    BY <1>1, <1>2, OneOfItsKind DEF W!KeyShownInv, W!LoadsFirst
  <2>2. v5' = [v5 EXCEPT ![c] = v5'[c]]
        /\ (v5'[c] # Null => v5'[c] = [kind |-> "check", at |-> "sent", answer |-> Null, key |-> a.key])
    BY <1>1, <1>2 DEF W!Put
  <2>3. PICK b : b = IF a.balance = Null THEN e ELSE W!Escrow(a.balance)
    OBVIOUS
  <2>4. b = Null \/ b = W!Escrow(b.balance)
    BY <2>1, <2>3 DEF W!Escrow
  <2>5. v4' = [escrow |-> b, agentPubKey |-> a.key, loading |-> FALSE]
    BY <1>2, <2>3
  <2>. QED
    BY <1>1, <1>2, <2>2, <2>4, <2>5, EscrowLoads
<1>3. CASE /\ kind = "check"
           /\ IF a /\ e # Null THEN W!Show([e EXCEPT !.agentKeySet = TRUE]) ELSE UNCHANGED v4
           /\ W!Put(c, Null)
  <2>1. v5' = [v5 EXCEPT ![c] = v5'[c]] /\ v5'[c] = Null
    BY <1>1, <1>3 DEF W!Put
  <2>2. a \in BOOLEAN /\ (a => v4.agentPubKey \in v2)
    BY <1>1, <1>3 DEF W!Holds
  <2>3. CASE v4' = v4
    BY <1>1, <1>3, <2>1, <2>3, EscrowPageGoesOn
  <2>4. CASE a /\ e # Null /\ v4' = [v4 EXCEPT !.escrow = [e EXCEPT !.agentKeySet = TRUE]]
    <3>1. PICK f : f = [e EXCEPT !.agentKeySet = TRUE]
      OBVIOUS
    <3>2. W!IsEscrow(f)
      BY <1>1, <2>4, <3>1 DEF W!IsEscrow
    <3>. QED
      BY <1>1, <1>3, <2>1, <2>2, <2>4, <3>1, <3>2, EscrowPageGoesOn
  <2>. QED
    BY <1>3, <2>2, <2>3, <2>4 DEF W!Show
<1>4. CASE /\ kind = "addKey"
           /\ IF e # Null THEN W!Show([e EXCEPT !.agentKeySet = TRUE]) ELSE UNCHANGED v4
           /\ W!Put(c, Null)
  <2>1. v5' = [v5 EXCEPT ![c] = v5'[c]] /\ v5'[c] = Null
    BY <1>1, <1>4 DEF W!Put
  <2>2. v4.agentPubKey \in v2
    BY <1>1, <1>4 DEF W!Holds
  <2>3. CASE v4' = v4
    BY <1>1, <1>4, <2>1, <2>3, EscrowPageGoesOn
  <2>4. CASE e # Null /\ v4' = [v4 EXCEPT !.escrow = [e EXCEPT !.agentKeySet = TRUE]]
    <3>1. PICK f : f = [e EXCEPT !.agentKeySet = TRUE]
      OBVIOUS
    <3>2. W!IsEscrow(f)
      BY <1>1, <2>4, <3>1 DEF W!IsEscrow
    <3>. QED
      BY <1>1, <1>4, <2>1, <2>2, <2>4, <3>1, <3>2, EscrowPageGoesOn
  <2>. QED
    BY <1>4, <2>3, <2>4 DEF W!Show
<1>5. CASE /\ kind = "deposit"
           /\ IF e # Null THEN W!Show([e EXCEPT !.balance = @ + 1]) ELSE UNCHANGED v4
           /\ W!Put(c, W!Refresh(v5[c].prev))
  <2>0. PICK s : s = v5[c].prev
    OBVIOUS
  <2>1. v5' = [v5 EXCEPT ![c] = v5'[c]] /\ v5'[c] = W!Refresh(s)
    BY <1>1, <1>5, <2>0 DEF W!Put
  <2>2. W!IsCall(v5'[c]) /\ W!Holds(v5[c])' /\ v5'[c].kind # "load"
    BY <2>1 DEF W!Refresh, W!IsCall, W!Holds
  <2>3. CASE v4' = v4
    BY <1>1, <1>5, <2>1, <2>2, <2>3, EscrowPageGoesOn
  <2>4. CASE e # Null /\ v4' = [v4 EXCEPT !.escrow = [e EXCEPT !.balance = @ + 1]]
    <3>1. PICK f : f = [e EXCEPT !.balance = @ + 1]
      OBVIOUS
    <3>2. W!IsEscrow(f) /\ f.agentKeySet = e.agentKeySet
      BY <1>1, <2>4, <3>1 DEF W!IsEscrow
    <3>3. f.agentKeySet => v4.agentPubKey \in v2
      BY <2>4, <3>2 DEF W!KeyShownInv, W!KeyShownIsThere
    <3>. QED
      BY <1>1, <1>5, <2>1, <2>2, <2>4, <3>1, <3>2, <3>3, EscrowPageGoesOn
  <2>. QED
    BY <1>5, <2>3, <2>4 DEF W!Show
<1>6. CASE kind = "refresh" /\ W!Show(W!Escrow(a)) /\ W!Put(c, Null)
  <2>1. v5' = [v5 EXCEPT ![c] = v5'[c]] /\ v5'[c] = Null
    BY <1>1, <1>6 DEF W!Put
  <2>2. W!IsEscrow(W!Escrow(a)) /\ ~W!Escrow(a).agentKeySet /\ v4' = [v4 EXCEPT !.escrow = W!Escrow(a)]
    BY <1>6 DEF W!IsEscrow, W!Escrow, W!Show
  <2>. QED
    BY <1>1, <1>6, <2>1, <2>2, EscrowPageGoesOn
<1>7. CASE kind = "refresh" /\ v4' = v4 /\ W!Put(c, [v5[c] EXCEPT !.at = "sent", !.tries = @ + 1])
  <2>1. PICK n : v5' = [v5 EXCEPT ![c] = [v5[c] EXCEPT !.at = "sent", !.tries = n]]
    BY <1>7, Zenon DEF W!Put
  <2>2. v5' = [v5 EXCEPT ![c] = v5'[c]] /\ v5'[c] = [v5[c] EXCEPT !.at = "sent", !.tries = n]
    BY <1>1, <2>1
  <2>3. W!IsCall(v5'[c]) /\ W!Holds(v5[c])' /\ v5'[c].kind # "load"
    BY <1>1, <1>7, <2>2 DEF W!IsCall, W!Holds
  <2>. QED
    BY <1>1, <1>7, <2>2, <2>3, EscrowPageGoesOn
<1>. QED
  BY <1>2, <1>3, <1>4, <1>5, <1>6, <1>7 DEF W!Return

\* The page of a request that failed.
LEMMA EscrowCatches ==
    ASSUME W!KeyShownInv, NEW c \in Call, W!Catch(c)
    PROVE  W!KeyShownInv'
<1> DEFINE r == v5[c]
           e == v4.escrow
<1>1. /\ r # Null /\ W!IsCall(r) /\ W!Holds(r)
      /\ v5 = [d \in Call |-> v5[d]] /\ v2' = v2
      /\ e # Null => W!IsEscrow(e)
      /\ v4 = [escrow |-> e, agentPubKey |-> v4.agentPubKey, loading |-> v4.loading]
  BY DEF W!KeyShownInv, W!TypeOK, W!AnswersAreTrue, W!Catch
<1>2. CASE r.kind = "load" /\ v4' = [v4 EXCEPT !.loading = FALSE] /\ W!Put(c, Null)
  <2>1. v4.loading /\ e = Null
    BY <1>1, <1>2, OneOfItsKind DEF W!KeyShownInv, W!LoadsFirst
  <2>2. v5' = [v5 EXCEPT ![c] = v5'[c]] /\ v5'[c] = Null
    BY <1>1, <1>2 DEF W!Put
  <2>3. v4' = [escrow |-> Null, agentPubKey |-> v4.agentPubKey, loading |-> FALSE]
    BY <1>1, <1>2, <2>1
  <2>. QED
    BY <1>1, <1>2, <2>2, <2>3, EscrowLoads
<1>3. CASE r.kind # "load" /\ v4' = v4 /\ W!Put(c, Null)
  <2>1. v5' = [v5 EXCEPT ![c] = v5'[c]] /\ v5'[c] = Null
    BY <1>1, <1>3 DEF W!Put
  <2>. QED
    BY <1>1, <1>3, <2>1, EscrowPageGoesOn
<1>4. CASE r.kind = "refresh" /\ e # Null /\ W!Show([e EXCEPT !.balance = v1]) /\ W!Put(c, Null)
  <2>1. v5' = [v5 EXCEPT ![c] = v5'[c]] /\ v5'[c] = Null
    BY <1>1, <1>4 DEF W!Put
  <2>2. PICK f : f = [e EXCEPT !.balance = v1]
    OBVIOUS
  <2>3. W!IsEscrow(f) /\ f.agentKeySet = e.agentKeySet /\ v4' = [v4 EXCEPT !.escrow = f]
    BY <1>1, <1>4, <2>2 DEF W!IsEscrow, W!Show
  <2>4. f.agentKeySet => v4.agentPubKey \in v2
    BY <1>4, <2>3 DEF W!KeyShownInv, W!KeyShownIsThere
  <2>. QED
    BY <1>1, <1>4, <2>1, <2>3, <2>4, EscrowPageGoesOn
<1>5. CASE r.kind = "refresh" /\ v4' = v4 /\ W!Put(c, [r EXCEPT !.at = "sent", !.tries = @ + 1])
  <2>1. PICK n : v5' = [v5 EXCEPT ![c] = [v5[c] EXCEPT !.at = "sent", !.tries = n]]
    BY <1>5, Zenon DEF W!Put
  <2>2. v5' = [v5 EXCEPT ![c] = v5'[c]] /\ v5'[c] = [v5[c] EXCEPT !.at = "sent", !.tries = n]
    BY <1>1, <2>1
  <2>3. W!IsCall(v5'[c]) /\ W!Holds(v5[c])' /\ v5'[c].kind # "load"
    BY <1>1, <1>5, <2>2 DEF W!IsCall, W!Holds
  <2>. QED
    BY <1>1, <1>5, <2>2, <2>3, EscrowPageGoesOn
<1>. QED
  BY <1>2, <1>3, <1>4, <1>5 DEF W!Catch

\* Steps that concern neither the page nor the keys.
LEMMA EscrowElsewhere ==
    ASSUME W!KeyShownInv, v4' = v4, v5' = v5, v2' = v2
    PROVE  W!KeyShownInv'
BY DEF W!KeyShownInv, W!TypeOK, W!LoadsFirst, W!AnswersAreTrue, W!Holds, W!KeyShownIsThere

\* Every step keeps the invariant.
LEMMA EscrowStep ==
    ASSUME W!KeyShownInv, W!Next \/ UNCHANGED vars
    PROVE  W!KeyShownInv'
<1>1. W!Pay \/ W!Restart \/ UNCHANGED vars => v4' = v4 /\ v5' = v5 /\ v2' = v2
  BY DEF W!Pay, W!Restart, vars
<1>. QED
  BY <1>1, EscrowElsewhere, EscrowBegins, EscrowServes, EscrowReturns, EscrowCatches DEF W!Next

\* The inductive invariant, of the behaviours of this component.
KeyInv == part = "escrowPage" => W!KeyShownInv

\* The page shows the agent's key as configured only if the account has it on
\* chain, although loading, depositing and adding the key overlap (settings page).
THEOREM ConfiguredKeyIsThere == Spec => []KeyShownIsThere
<1>1. Initially => KeyInv
  <2>. SUFFICES ASSUME W!Init PROVE W!KeyShownInv
    BY DEF Initially, Init, KeyInv
  <2>. QED
    BY DEF W!Init, W!KeyShownInv, W!TypeOK, W!LoadsFirst, W!AnswersAreTrue, W!KeyShownIsThere
<1>2. KeyInv /\ [Next]_vars => KeyInv'
  <2>. SUFFICES ASSUME KeyInv, [Next]_vars, part' = "escrowPage" PROVE W!KeyShownInv'
    BY DEF KeyInv
  <2>1. part = "escrowPage" /\ (W!Next \/ UNCHANGED vars)
    BY DEF Next, vars
  <2>. QED
    BY <2>1, EscrowStep DEF KeyInv
<1>3. KeyInv => KeyShownIsThere
  BY DEF KeyInv, KeyShownIsThere, W!KeyShownInv
<1>. QED
  BY <1>1, <1>2, <1>3, PTL DEF Spec

-----------------------------------------------------------------------------
\* The messages of the two parties (UnreadMessages).

\* The cardinality an instance of a component speaks of is the one of the theorems.
LEMMA UnreadCardinality == \A X : U!Cardinality(X) = Cardinality(X)
BY DEF U!Cardinality, Cardinality

\* Storing or announcing a message changes this message's state only.
LEMMA MessageMoves ==
    ASSUME U!TypeOK, NEW i \in DOMAIN v1, NEW s \in {"saving", "stored", "announced"},
           v1' = [v1 EXCEPT ![i].at = s]
    PROVE  /\ v1' \in Seq([from : {"reader", "other"}, at : {"saving", "stored", "announced"}])
           /\ Len(v1') = Len(v1)
           /\ \A j \in 1..Len(v1) :
                 v1'[j] = IF j = i THEN [from |-> v1[i].from, at |-> s] ELSE v1[j]
<1> DEFINE M == [from : {"reader", "other"}, at : {"saving", "stored", "announced"}]
           m == [from |-> v1[i].from, at |-> s]
<1>1. v1 \in Seq(M) /\ i \in 1..Len(v1)
  BY LenProperties DEF U!TypeOK
<1>2. v1[i] \in M
  BY <1>1, ElementOfSeq
<1>3. m \in M /\ [v1[i] EXCEPT !.at = s] = m
  BY <1>2
<1>4. v1' = [v1 EXCEPT ![i] = m]
  BY <1>3
<1> HIDE DEF M, m
<1>5. /\ [v1 EXCEPT ![i] = m] \in Seq(M)
      /\ Len([v1 EXCEPT ![i] = m]) = Len(v1)
      /\ \A j \in 1..Len(v1) : [v1 EXCEPT ![i] = m][j] = IF j = i THEN m ELSE v1[j]
  <2>. m \in M
    BY <1>3
  <2>. QED
    BY <1>1, ExceptSeq
<1>. QED
  BY <1>4, <1>5 DEF M, m

\* The sets of messages that are counted are finite.
LEMMA UnreadSets ==
    ASSUME U!TypeOK
    PROVE  /\ U!Visible \subseteq 1..Len(v1)
           /\ IsFiniteSet(U!Visible) /\ IsFiniteSet(U!Unannounced) /\ IsFiniteSet(U!Unread)
           /\ Cardinality(U!Visible) \in Nat /\ Cardinality(U!Unannounced) \in Nat
           /\ Cardinality(U!Unread) \in Nat
           /\ U!ToCome \in Nat
<1>1. v1 \in Seq([from : {"reader", "other"}, at : {"saving", "stored", "announced"}])
      /\ v7 \in Nat \cup {Null}
  BY DEF U!TypeOK
<1>2. /\ U!Visible \subseteq 1..Len(v1)
      /\ U!Unannounced \subseteq U!Visible
      /\ U!Unread \subseteq U!Visible
  BY <1>1 DEF U!Visible, U!Unannounced, U!Unread, U!Sent
<1>3. IsFiniteSet(1..Len(v1))
  BY <1>1, FS_Interval
<1>4. IsFiniteSet(U!Visible) /\ IsFiniteSet(U!Unannounced) /\ IsFiniteSet(U!Unread)
  BY <1>2, <1>3, FS_Subset
<1>5. Cardinality(U!Visible) \in Nat /\ Cardinality(U!Unannounced) \in Nat
      /\ Cardinality(U!Unread) \in Nat
  BY <1>4, FS_CardinalityType
<1>6. U!ToCome \in Nat
  BY <1>1, <1>5, UnreadCardinality DEF U!ToCome
<1>. QED
  BY <1>2, <1>4, <1>5, <1>6

\* What is to come and what is unread are numbers.
LEMMA UnreadNumbers ==
    U!TypeOK => U!ToCome \in Nat /\ Cardinality(U!Unread) \in Nat
BY UnreadSets

\* A call that goes on stays a call.
LEMMA UnreadCallGoesOn ==
    ASSUME U!TypeOK, NEW c \in Call, v3[c] # Null, NEW value \in Nat \cup {Null},
           NEW at \in {"asked", "found", "marking", "counting", "answered"},
           U!Step(c, at, value)
    PROVE  v3' \in [Call -> {Null} \cup
             [kind : {"messages", "list"}, live : BOOLEAN, value : Nat \cup {Null},
              at : {"asked", "found", "marking", "counting", "answered"}]]
<1> DEFINE r == [v3[c] EXCEPT !.at = at, !.value = value]
<1>1. r \in [kind : {"messages", "list"}, live : BOOLEAN, value : Nat \cup {Null},
              at : {"asked", "found", "marking", "counting", "answered"}]
  BY DEF U!TypeOK
<1>2. v3' = [v3 EXCEPT ![c] = r]
  BY DEF U!Step
<1>. QED
  BY <1>1, <1>2 DEF U!TypeOK

\* Every step keeps the types.
LEMMA UnreadTyped ==
    ASSUME U!TypeOK, U!MarksAreCovered, U!Next
    PROVE  U!TypeOK'
<1>1. ASSUME NEW sender \in {"reader", "other"}, U!Create(sender) PROVE U!TypeOK'
  BY <1>1 DEF U!TypeOK, U!Create, U!shown
<1>2. ASSUME NEW i \in DOMAIN v1, U!Commit(i) PROVE U!TypeOK'
  <2>1. v1' = [v1 EXCEPT ![i].at = "stored"]
    BY <1>2 DEF U!Commit
  <2>2. UNCHANGED <<v2, v3, v5, v6, v7, v12, v13>>
    BY <1>2 DEF U!Commit, U!shown, U!history
  <2>. QED
    BY <2>1, <2>2, MessageMoves DEF U!TypeOK
<1>3. ASSUME NEW i \in DOMAIN v1, U!Announce(i) PROVE U!TypeOK'
  <2>1. v1' = [v1 EXCEPT ![i].at = "announced"]
    BY <1>3 DEF U!Announce
  <2>2. UNCHANGED <<v2, v3, v5, v6, v13>>
    BY <1>3 DEF U!Announce, U!shown
  <2>3. v7' \in Nat \cup {Null} /\ v12' \in Nat
    BY <1>3 DEF U!TypeOK, U!Announce
  <2>. QED
    BY <2>1, <2>2, <2>3, MessageMoves DEF U!TypeOK
<1>4. ASSUME NEW c \in Call, U!Find(c) PROVE U!TypeOK'
  BY <1>4, UnreadCallGoesOn DEF U!TypeOK, U!Find, U!shown, U!Is
<1>5. ASSUME NEW c \in Call, U!Clock(c) PROVE U!TypeOK'
  <2>. Len(v1) \in Nat
    BY LenProperties DEF U!TypeOK
  <2>. QED
    BY <1>5, UnreadCallGoesOn DEF U!TypeOK, U!Clock, U!shown, U!Is, U!history
<1>6. ASSUME NEW c \in Call, U!Mark(c) PROVE U!TypeOK'
  BY <1>6, UnreadCallGoesOn DEF U!TypeOK, U!Mark, U!shown, U!Is, U!MarksAreCovered
<1>7. ASSUME NEW c \in Call, U!ReadMarks(c) PROVE U!TypeOK'
  BY <1>7, UnreadCallGoesOn DEF U!TypeOK, U!ReadMarks, U!shown, U!Is, U!history
<1>8. ASSUME NEW c \in Call, U!Count(c) PROVE U!TypeOK'
  <2>1. Cardinality(U!Visible) \in Nat
    BY UnreadSets
  <2>2. ASSUME NEW m \in Nat PROVE Cardinality(U!Sent(m)) \in Nat
    <3>1. U!Sent(m) \subseteq U!Visible
      BY DEF U!Sent
    <3>. QED
      BY <3>1, UnreadSets, FS_Subset, FS_CardinalityType
  <2>3. v3[c].value \in Nat \cup {Null}
    BY <1>8 DEF U!TypeOK, U!Count, U!Is
  <2>4. U!UnreadCount(v3[c].value) \in Nat
    BY <2>1, <2>2, <2>3, UnreadCardinality DEF U!UnreadCount
  <2>. QED
    BY <1>8, <2>4, UnreadCallGoesOn DEF U!TypeOK, U!Count, U!Is, U!shown
<1>9. ASSUME NEW c \in Call, U!Return(c) PROVE U!TypeOK'
  BY <1>9 DEF U!TypeOK, U!Return, U!history
<1>10. ASSUME NEW c \in Call, U!Receive(c) PROVE U!TypeOK'
  <2>1. UNCHANGED <<v1, v2, v5, v13>> /\ v7' \in Nat \cup {Null}
    BY <1>10 DEF U!TypeOK, U!Receive
  <2>2. v6' \in Nat /\ v12' \in Nat
    BY <1>10 DEF U!TypeOK, U!Receive
  <2>3. v3' = v3 \/ v3' = [v3 EXCEPT ![c] = U!Ask("messages")]
    BY <1>10 DEF U!Receive
  <2>4. U!Ask("messages") \in
          [kind : {"messages", "list"}, live : BOOLEAN, value : Nat \cup {Null},
           at : {"asked", "found", "marking", "counting", "answered"}]
    BY DEF U!Ask
  <2>5. v3' \in [Call -> {Null} \cup
          [kind : {"messages", "list"}, live : BOOLEAN, value : Nat \cup {Null},
           at : {"asked", "found", "marking", "counting", "answered"}]]
    BY <2>3, <2>4 DEF U!TypeOK
  <2>. QED
    BY <2>1, <2>2, <2>5 DEF U!TypeOK
<1>11. ASSUME NEW c \in Call, U!Lose(c) PROVE U!TypeOK'
  BY <1>11 DEF U!TypeOK, U!Lose, U!Fault, U!shown, U!history
<1>12. ASSUME NEW c \in Call, NEW v \in {"list", "chat"}, U!Open(v, c) PROVE U!TypeOK'
  <2>1. UNCHANGED <<v1, v2, v7, v12, v13>> /\ v5' = Null /\ v6' = 0
    BY <1>12 DEF U!Open, U!history
  <2>2. v3' = [d \in Call |->
                 IF d = c THEN U!Ask(IF v = "list" THEN "list" ELSE "messages")
                 ELSE IF v3[d] = Null THEN Null ELSE [v3[d] EXCEPT !.live = FALSE]]
    BY <1>12 DEF U!Open
  <2>3. ASSUME NEW d \in Call
        PROVE  v3'[d] \in {Null} \cup
                 [kind : {"messages", "list"}, live : BOOLEAN, value : Nat \cup {Null},
                  at : {"asked", "found", "marking", "counting", "answered"}]
    <3>1. CASE d = c
      BY <3>1, <2>2 DEF U!Ask
    <3>2. CASE d # c
      BY <3>2, <2>2 DEF U!TypeOK
    <3>. QED
      BY <3>1, <3>2
  <2>. QED
    BY <2>1, <2>2, <2>3 DEF U!TypeOK
<1>13. CASE U!Break \/ U!Connect
  BY <1>13, NullIsNoNumber DEF U!TypeOK, U!Break, U!Fault, U!Connect, U!shown, U!history
<1>. QED
  BY <1>1, <1>2, <1>3, <1>4, <1>5, <1>6, <1>7, <1>8, <1>9, <1>10, <1>11, <1>12, <1>13 DEF U!Next

-----------------------------------------------------------------------------
\* What is covered stays covered.
LEMMA CoveredStays ==
    ASSUME U!TypeOK, Len(v1') \in Nat, Len(v1') >= Len(v1),
           v10 \cup v11 \subseteq v10' \cup v11',
           NEW last, U!Covered(last)
    PROVE  U!Covered(last)'
<1>1. Len(v1) \in Nat
  BY LenProperties DEF U!TypeOK
<1>. QED
  BY <1>1 DEF U!Covered

\* A step that neither touches messages and marks nor finds any.
LEMMA MarksKept ==
    ASSUME U!TypeOK, U!MarksAreCovered, UNCHANGED <<v1, v2, v10, v11>>,
           \A d \in Call :
              /\ U!Is(d, "messages", "found")' => U!Is(d, "messages", "found")
              /\ U!Is(d, "messages", "marking")' =>
                    U!Is(d, "messages", "marking") /\ v3'[d].value = v3[d].value
    PROVE  U!MarksAreCovered'
BY DEF U!MarksAreCovered, U!Covered

\* Every step keeps the marks covered: what is marked read was handed out.
LEMMA UnreadMarks ==
    ASSUME U!TypeOK, U!MarksAreCovered, U!Next
    PROVE  U!MarksAreCovered'
<1>0. Len(v1) \in Nat
  BY LenProperties DEF U!TypeOK
<1>1. ASSUME NEW sender \in {"reader", "other"}, U!Create(sender) PROVE U!MarksAreCovered'
  <2>1. Len(v1') = Len(v1) + 1 /\ UNCHANGED <<v2, v3, v10>> /\ v11 \subseteq v11'
    BY <1>1, AppendProperties DEF U!Create, U!TypeOK
  <2>2. \A last : U!Covered(last) => U!Covered(last)'
    BY <2>1, <1>0, CoveredStays
  <2>3. ASSUME NEW c \in Call, U!Is(c, "messages", "found")' PROVE U!Covered(Len(v1))'
    <3>1. U!Is(c, "messages", "found")
      BY <2>1, <2>3 DEF U!Is
    <3>2. v11' = v11 \cup {Len(v1) + 1}
      BY <1>1, <3>1 DEF U!Create
    <3>3. 1..Len(v1) \subseteq v10 \cup v11
      BY <3>1 DEF U!MarksAreCovered, U!Covered
    <3>. QED
      BY <1>0, <2>1, <3>2, <3>3 DEF U!Covered
  <2>. QED
    BY <2>1, <2>2, <2>3 DEF U!MarksAreCovered, U!Is
<1>2. ASSUME NEW i \in DOMAIN v1, U!Commit(i) \/ U!Announce(i) PROVE U!MarksAreCovered'
  <2>1. Len(v1') = Len(v1)
    BY <1>2, MessageMoves DEF U!Commit, U!Announce
  <2>2. UNCHANGED <<v2, v3, v10, v11>>
    BY <1>2 DEF U!Commit, U!Announce, U!history
  <2>. QED
    BY <2>1, <2>2 DEF U!MarksAreCovered, U!Covered, U!Is
<1>3. ASSUME NEW c \in Call, U!Find(c) PROVE U!MarksAreCovered'
  <2>1. UNCHANGED <<v1, v2>> /\ v3' = [v3 EXCEPT ![c] = [@ EXCEPT !.at = "found", !.value = Null]]
    BY <1>3 DEF U!Find, U!Step
  <2>2. v10' = v10 \cup U!Visible /\ v11' = v11 \cup (DOMAIN v1 \ U!Visible)
    BY <1>3 DEF U!Find
  <2>3. 1..Len(v1) \subseteq v10' \cup v11'
    BY <2>2, LenProperties DEF U!TypeOK
  <2>4. U!Covered(Len(v1))'
    BY <1>0, <2>1, <2>3 DEF U!Covered
  <2>5. \A last : U!Covered(last) => U!Covered(last)'
    BY <2>1, <2>2, <1>0, CoveredStays
  <2>6. ASSUME NEW d \in Call, U!Is(d, "messages", "marking")'
        PROVE  U!Is(d, "messages", "marking") /\ v3'[d].value = v3[d].value
    BY <2>1, <2>6 DEF U!TypeOK, U!Is
  <2>. QED
    BY <2>1, <2>4, <2>5, <2>6 DEF U!MarksAreCovered
<1>4. ASSUME NEW c \in Call, U!Clock(c) PROVE U!MarksAreCovered'
  <2>1. /\ UNCHANGED <<v1, v2, v10, v11>> /\ U!Is(c, "messages", "found")
        /\ v3' = [v3 EXCEPT ![c] = [@ EXCEPT !.at = "marking", !.value = Len(v1)]]
    BY <1>4 DEF U!Clock, U!Step, U!history
  <2>2. ASSUME NEW d \in Call, U!Is(d, "messages", "found")' PROVE U!Is(d, "messages", "found")
    BY <2>1, <2>2 DEF U!TypeOK, U!Is
  <2>3. ASSUME NEW d \in Call, U!Is(d, "messages", "marking")'
        PROVE  \/ d = c /\ v3'[d].value = Len(v1)
               \/ U!Is(d, "messages", "marking") /\ v3'[d].value = v3[d].value
    BY <2>1, <2>3 DEF U!TypeOK, U!Is
  <2>. QED
    BY <2>1, <2>2, <2>3 DEF U!MarksAreCovered, U!Covered
<1>5. ASSUME NEW c \in Call, U!Mark(c) PROVE U!MarksAreCovered'
  <2>1. /\ UNCHANGED <<v1, v10, v11>> /\ v2' = v3[c].value /\ U!Is(c, "messages", "marking")
        /\ v3' = [v3 EXCEPT ![c] = [@ EXCEPT !.at = "answered", !.value = Null]]
    BY <1>5 DEF U!Mark, U!Step
  <2>2. ASSUME NEW d \in Call, U!Is(d, "messages", "found")' PROVE U!Is(d, "messages", "found")
    BY <2>1, <2>2 DEF U!TypeOK, U!Is
  <2>3. ASSUME NEW d \in Call, U!Is(d, "messages", "marking")'
        PROVE  U!Is(d, "messages", "marking") /\ v3'[d].value = v3[d].value
    BY <2>1, <2>3 DEF U!TypeOK, U!Is
  <2>. QED
    BY <2>1, <2>2, <2>3 DEF U!MarksAreCovered, U!Covered
<1>6. ASSUME NEW c \in Call, U!ReadMarks(c) \/ U!Count(c) PROVE U!MarksAreCovered'
  <2>1. UNCHANGED <<v1, v2, v10, v11>>
    BY <1>6 DEF U!ReadMarks, U!Count, U!history
  <2>2. /\ v3[c] # Null /\ v3[c].kind = "list"
        /\ \E at, value : v3' = [v3 EXCEPT ![c] = [@ EXCEPT !.at = at, !.value = value]]
    BY <1>6 DEF U!ReadMarks, U!Count, U!Is, U!Step
  <2>3. \A d \in Call : v3'[d] = v3[d] \/ v3'[d].kind = "list"
    BY <2>2 DEF U!TypeOK
  <2>. QED
    BY <2>1, <2>3, MarksKept DEF U!Is
<1>7. ASSUME NEW c \in Call, U!Return(c) \/ U!Lose(c) PROVE U!MarksAreCovered'
  <2>1. UNCHANGED <<v1, v2, v10, v11>> /\ v3' = [v3 EXCEPT ![c] = Null]
    BY <1>7 DEF U!Return, U!Lose, U!history
  <2>2. \A d \in Call : v3'[d] = v3[d] \/ v3'[d] = Null
    BY <2>1 DEF U!TypeOK
  <2>. QED
    BY <2>1, <2>2, MarksKept DEF U!Is
<1>8. ASSUME NEW c \in Call, U!Receive(c) PROVE U!MarksAreCovered'
  <2>1. UNCHANGED <<v1, v2, v10, v11>> /\ (v3' = v3 \/ v3' = [v3 EXCEPT ![c] = U!Ask("messages")])
    BY <1>8 DEF U!Receive
  <2>2. \A d \in Call : v3'[d] = v3[d] \/ v3'[d].at = "asked"
    BY <2>1 DEF U!TypeOK, U!Ask
  <2>. QED
    BY <2>1, <2>2, MarksKept DEF U!Is
<1>9. ASSUME NEW c \in Call, NEW v \in {"list", "chat"}, U!Open(v, c) PROVE U!MarksAreCovered'
  <2>1. UNCHANGED <<v1, v2, v10, v11>>
    BY <1>9 DEF U!Open, U!history
  <2>2. v3' = [d \in Call |->
                 IF d = c THEN U!Ask(IF v = "list" THEN "list" ELSE "messages")
                 ELSE IF v3[d] = Null THEN Null ELSE [v3[d] EXCEPT !.live = FALSE]]
    BY <1>9 DEF U!Open
  <2>3. v3'[c].at = "asked"
    BY <2>2 DEF U!Ask
  <2>4. ASSUME NEW d \in Call, d # c, v3'[d] # Null
        PROVE  v3[d] # Null /\ v3'[d] = [v3[d] EXCEPT !.live = FALSE]
    BY <2>2, <2>4
  <2>5. ASSUME NEW d \in Call, v3'[d] # Null, v3'[d].at # "asked"
        PROVE  /\ v3[d] # Null /\ v3'[d].kind = v3[d].kind /\ v3'[d].at = v3[d].at
               /\ v3'[d].value = v3[d].value
    BY <2>3, <2>4, <2>5 DEF U!TypeOK
  <2>. QED
    BY <2>1, <2>5, MarksKept DEF U!Is
<1>10. CASE U!Break \/ U!Connect
  <2>1. UNCHANGED <<v1, v2, v3, v10, v11>>
    BY <1>10 DEF U!Break, U!Connect, U!history
  <2>. QED
    BY <2>1 DEF U!MarksAreCovered, U!Covered, U!Is
<1>. QED
  BY <1>1, <1>2, <1>3, <1>4, <1>5, <1>6, <1>7, <1>8, <1>9, <1>10 DEF U!Next

-----------------------------------------------------------------------------
\* Every step keeps the list's live request the only one.
LEMMA UnreadOneList ==
    ASSUME U!TypeOK, U!OneList, U!Next
    PROVE  U!OneList'
<1>1. ASSUME NEW sender \in {"reader", "other"}, U!Create(sender) PROVE U!OneList'
  BY <1>1 DEF U!Create, U!OneList, U!LiveList, U!shown
<1>2. ASSUME NEW i \in DOMAIN v1, U!Commit(i) \/ U!Announce(i) PROVE U!OneList'
  BY <1>2 DEF U!Commit, U!Announce, U!OneList, U!LiveList, U!shown
<1>3. ASSUME NEW c \in Call,
             U!Find(c) \/ U!Clock(c) \/ U!Mark(c) \/ U!ReadMarks(c) \/ U!Count(c)
      PROVE  U!OneList'
  <2>1. /\ UNCHANGED <<v4, v5>> /\ v3[c] # Null
        /\ \E at, value : v3' = [v3 EXCEPT ![c] = [@ EXCEPT !.at = at, !.value = value]]
    BY <1>3 DEF U!Find, U!Clock, U!Mark, U!ReadMarks, U!Count, U!Step, U!Is, U!shown
  <2>2. \A d \in Call : U!LiveList(d)' => U!LiveList(d)
    BY <2>1 DEF U!TypeOK, U!LiveList
  <2>. QED
    BY <2>1, <2>2 DEF U!OneList
<1>4. ASSUME NEW c \in Call, U!Return(c) PROVE U!OneList'
  <2>1. v3' = [v3 EXCEPT ![c] = Null] /\ UNCHANGED v4
    BY <1>4 DEF U!Return
  <2>2. \A d \in Call : U!LiveList(d)' => d # c /\ U!LiveList(d)
    BY <2>1 DEF U!TypeOK, U!LiveList
  <2>3. CASE U!LiveList(c)
    <3>1. \A d \in Call : ~U!LiveList(d)'
      BY <2>2, <2>3 DEF U!OneList
    <3>2. v4 = "list"
      BY <2>3 DEF U!OneList
    <3>. QED
      BY <2>1, <3>1, <3>2 DEF U!OneList
  <2>4. CASE ~U!LiveList(c)
    <3>1. v5' = v5
      BY <1>4, <2>4 DEF U!Return, U!LiveList
    <3>. QED
      BY <2>1, <2>2, <3>1 DEF U!OneList
  <2>. QED
    BY <2>3, <2>4
<1>5. ASSUME NEW c \in Call, U!Receive(c) PROVE U!OneList'
  <2>1. UNCHANGED <<v4, v5>> /\ (v3' = v3 \/ v3' = [v3 EXCEPT ![c] = U!Ask("messages")])
    BY <1>5 DEF U!Receive
  <2>2. \A d \in Call : U!LiveList(d)' => U!LiveList(d)
    BY <2>1 DEF U!TypeOK, U!LiveList, U!Ask
  <2>. QED
    BY <2>1, <2>2 DEF U!OneList
<1>6. ASSUME NEW c \in Call, U!Lose(c) PROVE U!OneList'
  <2>1. UNCHANGED <<v4, v5>> /\ v3' = [v3 EXCEPT ![c] = Null]
    BY <1>6 DEF U!Lose, U!shown
  <2>2. \A d \in Call : U!LiveList(d)' => U!LiveList(d)
    BY <2>1 DEF U!TypeOK, U!LiveList
  <2>. QED
    BY <2>1, <2>2 DEF U!OneList
<1>7. ASSUME NEW c \in Call, NEW v \in {"list", "chat"}, U!Open(v, c) PROVE U!OneList'
  <2>1. v4' = v /\ v5' = Null
    BY <1>7 DEF U!Open
  <2>2. v3' = [d \in Call |->
                 IF d = c THEN U!Ask(IF v = "list" THEN "list" ELSE "messages")
                 ELSE IF v3[d] = Null THEN Null ELSE [v3[d] EXCEPT !.live = FALSE]]
    BY <1>7 DEF U!Open
  <2>3. ASSUME NEW d \in Call, d # c PROVE ~U!LiveList(d)'
    BY <2>2, <2>3 DEF U!TypeOK, U!LiveList
  <2>4. U!LiveList(c)' => v = "list"
    BY <2>2 DEF U!LiveList, U!Ask
  <2>. QED
    BY <2>1, <2>3, <2>4 DEF U!OneList
<1>8. CASE U!Break \/ U!Connect
  BY <1>8 DEF U!Break, U!Connect, U!OneList, U!LiveList, U!shown
<1>. QED
  BY <1>1, <1>2, <1>3, <1>4, <1>5, <1>6, <1>7, <1>8 DEF U!Next

-----------------------------------------------------------------------------
\* Which messages are unread follows from the messages and the mark.
LEMMA SameUnread ==
    ASSUME UNCHANGED v1
    PROVE  /\ U!Visible' = U!Visible /\ U!Unannounced' = U!Unannounced
           /\ v2' = v2 => U!Unread' = U!Unread
           /\ v7' = v7 => U!ToCome' = U!ToCome
BY DEF U!Visible, U!Unannounced, U!Unread, U!Sent, U!ToCome

\* A message that is stored is unread and not announced, if it is for the reader.
LEMMA CommitOwes ==
    ASSUME U!TypeOK, NEW i \in DOMAIN v1, U!Commit(i)
    PROVE  U!ToCome' + Cardinality(U!Unread) >= U!ToCome + Cardinality(U!Unread')
<1> DEFINE from == v1[i].from
<1>1. /\ v1[i].at = "saving" /\ v1' = [v1 EXCEPT ![i].at = "stored"]
      /\ UNCHANGED <<v2, v7>>
  BY DEF U!Commit
<1>2. /\ i \in 1..Len(v1)
      /\ v1' \in Seq([from : {"reader", "other"}, at : {"saving", "stored", "announced"}])
      /\ DOMAIN v1 = 1..Len(v1) /\ DOMAIN v1' = 1..Len(v1)
      /\ \A j \in 1..Len(v1) : v1'[j] = IF j = i THEN [from |-> from, at |-> "stored"] ELSE v1[j]
  BY <1>1, MessageMoves, LenProperties DEF U!TypeOK
<1> HIDE DEF from
<1>3. U!Visible' = U!Visible \cup {i} /\ i \notin U!Visible
  BY <1>1, <1>2 DEF U!Visible
<1>4. i \notin U!Unannounced
  BY <1>3 DEF U!Unannounced
<1>5. CASE from = "other"
  <2>1. U!Unannounced' = U!Unannounced \cup {i}
    BY <1>2, <1>3, <1>5 DEF U!Unannounced, U!Visible
  <2>2. U!Unread' \subseteq U!Unread \cup {i}
    BY <1>1, <1>2, <1>3 DEF U!Unread, U!Sent, U!Visible
  <2>3. Cardinality(U!Unannounced') = Cardinality(U!Unannounced) + 1
    BY <2>1, <1>4, UnreadSets, FS_AddElement
  <2>4. Cardinality(U!Unread') <= Cardinality(U!Unread) + 1 /\ Cardinality(U!Unread') \in Nat
    <3>1. IsFiniteSet(U!Unread \cup {i}) /\ Cardinality(U!Unread \cup {i}) <= Cardinality(U!Unread) + 1
      <4>1. IsFiniteSet(U!Unread) /\ Cardinality(U!Unread) \in Nat
        BY UnreadSets
      <4>. QED
        <5>1. /\ IsFiniteSet(U!Unread \cup {i})
              /\ Cardinality(U!Unread \cup {i}) =
                    IF i \in U!Unread THEN Cardinality(U!Unread) ELSE Cardinality(U!Unread) + 1
          BY <4>1, FS_AddElement
        <5>. QED
          BY <4>1, <5>1
    <3>2. IsFiniteSet(U!Unread') /\ Cardinality(U!Unread') <= Cardinality(U!Unread \cup {i})
      BY <2>2, <3>1, FS_Subset
    <3>. QED
      BY <3>1, <3>2, UnreadSets, FS_CardinalityType
  <2>5. U!ToCome' = U!ToCome + 1
    BY <1>1, <2>3, UnreadSets, UnreadCardinality DEF U!ToCome, U!TypeOK
  <2>. QED
    BY <2>4, <2>5, UnreadSets
<1>6. CASE from # "other"
  <2>1. U!Unannounced' = U!Unannounced
    BY <1>2, <1>3, <1>6 DEF U!Unannounced, U!Visible
  <2>2. U!Unread' = U!Unread
    BY <1>1, <1>2, <1>3, <1>6 DEF U!Unread, U!Sent, U!Visible
  <2>3. U!ToCome' = U!ToCome
    BY <1>1, <2>1 DEF U!ToCome
  <2>. QED
    BY <2>2, <2>3, UnreadSets
<1>. QED
  BY <1>5, <1>6

\* An announcement becomes an event, or one that is missed.
LEMMA AnnounceOwes ==
    ASSUME U!TypeOK, NEW i \in DOMAIN v1, U!Announce(i)
    PROVE  U!ToCome' + v12' = U!ToCome + v12 /\ U!Unread' = U!Unread
<1> DEFINE from == v1[i].from
<1>1. /\ v1[i].at = "stored" /\ v1' = [v1 EXCEPT ![i].at = "announced"]
      /\ UNCHANGED v2
  BY DEF U!Announce
<1>2. /\ i \in 1..Len(v1)
      /\ v1' \in Seq([from : {"reader", "other"}, at : {"saving", "stored", "announced"}])
      /\ DOMAIN v1 = 1..Len(v1) /\ DOMAIN v1' = 1..Len(v1)
      /\ \A j \in 1..Len(v1) : v1'[j] = IF j = i THEN [from |-> from, at |-> "announced"] ELSE v1[j]
      /\ v1[i] \in [from : {"reader", "other"}, at : {"saving", "stored", "announced"}]
  <2>1. v1 \in Seq([from : {"reader", "other"}, at : {"saving", "stored", "announced"}])
    BY DEF U!TypeOK
  <2>2. DOMAIN v1 = 1..Len(v1) /\ i \in 1..Len(v1)
    BY <2>1, LenProperties
  <2>3. v1[i] \in [from : {"reader", "other"}, at : {"saving", "stored", "announced"}]
    BY <2>1, <2>2, ElementOfSeq
  <2>4. /\ v1' \in Seq([from : {"reader", "other"}, at : {"saving", "stored", "announced"}])
        /\ Len(v1') = Len(v1)
        /\ \A j \in 1..Len(v1) : v1'[j] = IF j = i THEN [from |-> from, at |-> "announced"] ELSE v1[j]
    BY <1>1, MessageMoves
  <2>5. DOMAIN v1' = 1..Len(v1)
    BY <2>4, LenProperties
  <2>. QED
    BY <2>2, <2>3, <2>4, <2>5
<1>3. v1[i] = [from |-> from, at |-> "stored"]
  BY <1>1, <1>2
<1>4. /\ from # "other" => UNCHANGED <<v7, v12>>
      /\ from = "other" /\ v7 = Null => v7' = v7 /\ v12' = v12 + 1
      /\ from = "other" /\ v7 # Null => v7' = v7 + 1 /\ v12' = v12
  BY DEF U!Announce
<1> HIDE DEF from
<1>5. U!Visible' = U!Visible /\ i \in U!Visible
  BY <1>1, <1>2 DEF U!Visible
<1>6. U!Unread' = U!Unread
  BY <1>1, <1>2, <1>5 DEF U!Unread, U!Sent, U!Visible
<1>7. CASE from = "other"
  <2>1. U!Unannounced' = U!Unannounced \ {i} /\ i \in U!Unannounced
    <3>1. i \in U!Unannounced
      BY <1>3, <1>5, <1>7 DEF U!Unannounced
    <3>2. v1'[i] # [from |-> "other", at |-> "stored"]
      BY <1>2
    <3>3. \A j \in U!Visible : j # i => v1'[j] = v1[j]
      BY <1>2 DEF U!Visible
    <3>. QED
      BY <1>5, <3>1, <3>2, <3>3 DEF U!Unannounced
  <2>2. Cardinality(U!Unannounced') = Cardinality(U!Unannounced) - 1
    BY <2>1, UnreadSets, FS_RemoveElement
  <2>3. v7 # Null => v7 \in Nat /\ v7 + 1 # Null
    BY NullIsNoNumber DEF U!TypeOK
  <2>. QED
    <3>1. Cardinality(U!Unannounced) \in Nat /\ v12 \in Nat
      BY UnreadSets DEF U!TypeOK
    <3>2. /\ U!ToCome = Cardinality(U!Unannounced) + (IF v7 = Null THEN 0 ELSE v7)
          /\ U!ToCome' = Cardinality(U!Unannounced') + (IF v7' = Null THEN 0 ELSE v7')
      BY UnreadCardinality DEF U!ToCome
    <3>3. CASE v7 = Null
      BY <1>4, <1>6, <1>7, <2>2, <3>1, <3>2, <3>3
    <3>4. CASE v7 # Null
      BY <1>4, <1>6, <1>7, <2>2, <2>3, <3>1, <3>2, <3>4
    <3>. QED
      BY <3>3, <3>4
<1>8. CASE from # "other"
  <2>1. U!Unannounced' = U!Unannounced
    <3>1. v1[i] # [from |-> "other", at |-> "stored"] /\ v1'[i] # [from |-> "other", at |-> "stored"]
      BY <1>2, <1>3, <1>8
    <3>2. \A j \in U!Visible : j # i => v1'[j] = v1[j]
      BY <1>2 DEF U!Visible
    <3>. QED
      BY <1>5, <3>1, <3>2 DEF U!Unannounced
  <2>. QED
    BY <1>4, <1>6, <1>8, <2>1 DEF U!ToCome
<1>. QED
  BY <1>7, <1>8

\* Once a count is there, what happens is added to what is still to come.
LEMMA CountedStays ==
    ASSUME U!TypeOK, U!TypeOK', U!ToCome' + v12' + Cardinality(U!Unread) >= U!ToCome + v12 + Cardinality(U!Unread'),
           NEW n, U!Counted(n)
    PROVE  U!Counted(n)'
<1>1. /\ U!ToCome \in Nat /\ U!ToCome' \in Nat /\ v12 \in Nat /\ v12' \in Nat
      /\ Cardinality(U!Unread) \in Nat /\ Cardinality(U!Unread)' \in Nat
  <2>1. (U!TypeOK => U!ToCome \in Nat /\ Cardinality(U!Unread) \in Nat)'
    BY UnreadNumbers, PTL
  <2>. QED
    BY <2>1, UnreadSets DEF U!TypeOK
<1>. QED
  BY <1>1, UnreadCardinality DEF U!Counted

\* Equal sums stay ordered.
LEMMA SameSums ==
    \A a, b, c, d, e \in Nat : a + b = c + d => a + b + e >= c + d + e
OBVIOUS

\* Every step keeps the counts large enough for what is unread.
LEMMA UnreadCounts ==
    ASSUME U!TypeOK, U!TypeOK', U!MarksAreCovered, U!OneList, U!CountsCover, U!Next
    PROVE  U!CountsCover'
<1> SUFFICES ASSUME ~v13' PROVE U!CountsCover'
  BY DEF U!CountsCover
<1> DEFINE Marked(c) == v3[c].value # Null => v2 # Null /\ v3[c].value <= v2
           EnoughComes == U!ToCome' + v12' + Cardinality(U!Unread)
                             >= U!ToCome + v12 + Cardinality(U!Unread')
<1>0. /\ U!ToCome \in Nat /\ v12 \in Nat /\ v12' \in Nat /\ Cardinality(U!Unread) \in Nat
      /\ U!ToCome' \in Nat /\ Cardinality(U!Unread') \in Nat
  <2>1. (U!TypeOK => U!ToCome \in Nat /\ Cardinality(U!Unread) \in Nat)'
    BY UnreadNumbers, PTL
  <2>. QED
    BY <2>1, UnreadNumbers DEF U!TypeOK
\* A step that leaves the list, its calls and the mark alone.
<1>1. ASSUME UNCHANGED <<v2, v5, v6, v13>>, EnoughComes,
             \A d \in Call : v3'[d] # Null /\ v3'[d].kind = "list" /\ v3'[d].at # "asked" =>
                /\ v3[d] # Null /\ v3[d].kind = "list"
                /\ v3'[d].at = v3[d].at /\ v3'[d].value = v3[d].value
                /\ v3'[d].live => v3[d].live
      PROVE  U!CountsCover'
  <2>1. \A n : U!Counted(n) => U!Counted(n)'
    BY <1>1, CountedStays
  <2>2. U!Badge' = U!Badge
    BY <1>1 DEF U!Badge
  <2>. QED
    BY <1>1, <2>1, <2>2 DEF U!CountsCover, U!Is, U!LiveList
<1>2. ASSUME NEW sender \in {"reader", "other"}, U!Create(sender) PROVE U!CountsCover'
  <2>1. UNCHANGED <<v2, v3, v5, v6, v7, v12, v13>>
    BY <1>2 DEF U!Create, U!shown
  <2>2. U!Visible' = U!Visible /\ U!Unannounced' = U!Unannounced /\ U!Unread' = U!Unread
    <3>1. /\ v1' = Append(v1, [from |-> sender, at |-> "saving"])
          /\ v1 \in Seq([from : {"reader", "other"}, at : {"saving", "stored", "announced"}])
      BY <1>2 DEF U!Create, U!TypeOK
    <3>2. /\ DOMAIN v1 = 1..Len(v1) /\ Len(v1) \in Nat /\ DOMAIN v1' = 1..(Len(v1) + 1)
          /\ \A j \in 1..Len(v1) : v1'[j] = v1[j]
          /\ v1'[Len(v1) + 1].at = "saving"
      BY <3>1
    <3>3. U!Visible' = U!Visible
      BY <3>2 DEF U!Visible
    <3>4. \A j \in U!Visible : v1'[j] = v1[j]
      BY <3>2 DEF U!Visible
    <3>. QED
      BY <2>1, <3>3, <3>4 DEF U!Unannounced, U!Unread, U!Sent
  <2>3. EnoughComes
    BY <1>0, <2>1, <2>2 DEF U!ToCome
  <2>. QED
    BY <1>1, <2>1, <2>3
<1>3. ASSUME NEW i \in DOMAIN v1, U!Commit(i) PROVE U!CountsCover'
  <2>1. UNCHANGED <<v2, v3, v5, v6, v12, v13>>
    BY <1>3 DEF U!Commit, U!shown, U!history
  <2>2. EnoughComes
    BY <1>0, <1>3, <2>1, CommitOwes
  <2>. QED
    BY <1>1, <2>1, <2>2
<1>4. ASSUME NEW i \in DOMAIN v1, U!Announce(i) PROVE U!CountsCover'
  <2>1. UNCHANGED <<v2, v3, v5, v6, v13>>
    BY <1>4 DEF U!Announce, U!shown
  <2>2. EnoughComes
    <3>1. U!ToCome' + v12' = U!ToCome + v12 /\ U!Unread' = U!Unread
      BY <1>4, AnnounceOwes
    <3>2. Cardinality(U!Unread') = Cardinality(U!Unread)
      BY <3>1
    <3>. QED
      BY <1>0, <3>1, <3>2, SameSums
  <2>. QED
    BY <1>1, <2>1, <2>2
<1>5. ASSUME NEW c \in Call, U!Find(c) \/ U!Clock(c) PROVE U!CountsCover'
  <2>1. UNCHANGED <<v1, v2, v5, v6, v7, v12, v13>>
    BY <1>5 DEF U!Find, U!Clock, U!shown, U!history
  <2>2. /\ v3[c] # Null /\ v3[c].kind = "messages"
        /\ \E at, value : v3' = [v3 EXCEPT ![c] = [@ EXCEPT !.at = at, !.value = value]]
    BY <1>5 DEF U!Find, U!Clock, U!Is, U!Step
  <2>3. \A d \in Call : v3'[d] = v3[d] \/ v3'[d].kind = "messages"
    BY <2>2 DEF U!TypeOK
  <2>4. EnoughComes
    BY <1>0, <2>1, SameUnread
  <2>. QED
    BY <1>1, <2>1, <2>3, <2>4
<1>6. ASSUME NEW c \in Call, U!Mark(c) PROVE U!CountsCover'
  <2>1. UNCHANGED <<v1, v5, v6, v7, v12>> /\ v2' = v3[c].value
    BY <1>6 DEF U!Mark, U!shown
  <2>2. /\ v3[c] # Null /\ v3[c].kind = "messages" /\ v3[c].at = "marking"
        /\ v3' = [v3 EXCEPT ![c] = [@ EXCEPT !.at = "answered", !.value = Null]]
    BY <1>6 DEF U!Mark, U!Is, U!Step
  <2>3. v2' \in Nat /\ v2' # Null
    BY <1>6, <2>1, NullIsNoNumber DEF U!Mark, U!MarksAreCovered, U!Covered
  <2>4. ~v13 /\ (v2 # Null => v2 <= v2')
    <3>1. v13' = (v13 \/ (v2 # Null /\ v2' < v2))
      BY <1>6, <2>1 DEF U!Mark
    <3>2. ~v13 /\ ~(v2 # Null /\ v2' < v2)
      BY <3>1, Zenon
    <3>3. v2 # Null => v2 \in Nat
      BY DEF U!TypeOK
    <3>. QED
      BY <2>3, <3>2, <3>3
  <2>5. U!Unread' \subseteq U!Unread
    BY <2>1, <2>3, <2>4 DEF U!Unread, U!Sent, U!Visible, U!TypeOK
  <2>6. Cardinality(U!Unread') <= Cardinality(U!Unread)
    BY <2>5, UnreadSets, FS_Subset
  <2>7. U!ToCome' = U!ToCome
    BY <2>1, SameUnread
  <2>8. \A n : U!Counted(n) => U!Counted(n)'
    BY <1>0, <2>1, <2>6, <2>7, CountedStays
  <2>9. \A d \in Call : v3'[d] = v3[d] \/ v3'[d].kind = "messages"
    BY <2>2 DEF U!TypeOK
  <2>10. ASSUME NEW d \in Call, U!Is(d, "list", "counting")', v3'[d].value # Null
         PROVE  v3'[d].value <= v2'
    <3>1. v3'[d] = v3[d]
      BY <2>9, <2>10 DEF U!Is
    <3>2. v2 # Null /\ v3[d].value <= v2
      BY <2>4, <2>10, <3>1 DEF U!CountsCover, U!Is
    <3>3. v3[d].value \in Nat /\ v2 \in Nat
      BY <2>10, <3>1, <3>2 DEF U!TypeOK, U!Is
    <3>. QED
      BY <2>3, <2>4, <3>1, <3>2, <3>3
  <2>11. U!Badge' = U!Badge
    BY <2>1 DEF U!Badge
  <2>. QED
    BY <2>1, <2>3, <2>4, <2>8, <2>9, <2>10, <2>11 DEF U!CountsCover, U!LiveList
<1>7. ASSUME NEW c \in Call, U!ReadMarks(c) PROVE U!CountsCover'
  <2>1. UNCHANGED <<v1, v2, v5, v6, v7, v12, v13>>
    BY <1>7 DEF U!ReadMarks, U!shown, U!history
  <2>2. v3[c] # Null /\ v3' = [v3 EXCEPT ![c] = [@ EXCEPT !.at = "counting", !.value = v2]]
    BY <1>7 DEF U!ReadMarks, U!Is, U!Step
  <2>3. ASSUME NEW d \in Call
        PROVE  v3'[d] = v3[d] \/ (v3'[d].at = "counting" /\ v3'[d].value = v2)
    <3>1. d # c => v3'[d] = v3[d]
      BY <2>2 DEF U!TypeOK
    <3>2. v3'[c] = [v3[c] EXCEPT !.at = "counting", !.value = v2]
      BY <2>2 DEF U!TypeOK
    <3>3. v3'[c].at = "counting" /\ v3'[c].value = v2
      BY <2>2, <3>2 DEF U!TypeOK
    <3>. QED
      BY <3>1, <3>3
  <2>4. \A n : U!Counted(n) => U!Counted(n)'
    BY <1>0, <2>1, SameUnread, CountedStays
  <2>5. U!Badge' = U!Badge
    BY <2>1 DEF U!Badge
  <2>6. v2 # Null => v2 \in Nat
    BY DEF U!TypeOK
  <2>. QED
    BY <2>1, <2>3, <2>4, <2>5, <2>6 DEF U!CountsCover, U!LiveList, U!Is
<1>8. ASSUME NEW c \in Call, U!Count(c) PROVE U!CountsCover'
  <2>1. UNCHANGED <<v1, v2, v5, v6, v7, v13>> /\ v12' = IF v3[c].live THEN 0 ELSE v12
    BY <1>8 DEF U!Count, U!shown
  <2>2. /\ v3[c] # Null /\ v3[c].kind = "list" /\ v3[c].at = "counting"
        /\ v3' = [v3 EXCEPT ![c] = [@ EXCEPT !.at = "answered", !.value = U!UnreadCount(v3[c].value)]]
    BY <1>8 DEF U!Count, U!Is, U!Step
  <2>3. /\ \A d \in Call : d # c => v3'[d] = v3[d]
        /\ v3'[c].kind = "list" /\ v3'[c].at = "answered" /\ v3'[c].live = v3[c].live
        /\ v3'[c].value = U!UnreadCount(v3[c].value)
    <3>1. v3'[c] = [v3[c] EXCEPT !.at = "answered", !.value = U!UnreadCount(v3[c].value)]
      BY <2>2 DEF U!TypeOK
    <3>. QED
      BY <2>2, <3>1 DEF U!TypeOK
  <2>4. ~v13
    BY <2>1
  <2>5. U!ToCome' = U!ToCome /\ U!Unread' = U!Unread
    BY <2>1, SameUnread
  <2>6. CASE v3[c].live
    <3>1. v5 = Null /\ \A d \in Call : U!LiveList(d) => d = c
      BY <2>2, <2>6 DEF U!OneList, U!LiveList
    <3>2. \A d \in Call : U!LiveList(d)' => d = c
      BY <2>3, <3>1 DEF U!LiveList
    <3>3. U!UnreadCount(v3[c].value) \in Nat
          /\ U!UnreadCount(v3[c].value) >= Cardinality(U!Unread)
      <4>1. v3[c].value # Null => v2 # Null /\ v3[c].value <= v2
        BY <2>2, <2>4 DEF U!CountsCover, U!Is
      <4>2. v3[c].value \in Nat \cup {Null} /\ v2 \in Nat \cup {Null}
        BY <2>2 DEF U!TypeOK
      <4>3. CASE v3[c].value = Null
        <5>1. U!Unread \subseteq U!Visible
          BY DEF U!Unread, U!Sent
        <5>2. Cardinality(U!Unread) <= Cardinality(U!Visible) /\ Cardinality(U!Visible) \in Nat
          BY <5>1, UnreadSets, FS_Subset
        <5>. QED
          BY <4>3, <5>2, <1>0, UnreadCardinality DEF U!UnreadCount
      <4>4. CASE v3[c].value # Null
        <5>1. /\ U!Sent(v3[c].value) \subseteq U!Visible
              /\ U!Unread \subseteq U!Sent(v3[c].value)
          BY <4>1, <4>2, <4>4, UnreadSets DEF U!Unread, U!Sent
        <5>2. IsFiniteSet(U!Sent(v3[c].value)) /\ Cardinality(U!Sent(v3[c].value)) \in Nat
          BY <5>1, UnreadSets, FS_Subset, FS_CardinalityType
        <5>3. Cardinality(U!Unread) <= Cardinality(U!Sent(v3[c].value))
          BY <5>1, <5>2, FS_Subset
        <5>. QED
          BY <4>4, <5>2, <5>3, <1>0, UnreadCardinality DEF U!UnreadCount
      <4>. QED
        BY <4>3, <4>4
    <3>4. U!Counted(v3[c].value)'
      <4>1. v3'[c].value \in Nat /\ v3'[c].value >= Cardinality(U!Unread)
        BY <2>3, <3>3
      <4>2. v3'[c].value + U!ToCome' + v12' >= Cardinality(U!Unread)
        BY <1>0, <4>1
      <4>. QED
        BY <2>5, <4>1, <4>2, UnreadCardinality DEF U!Counted
    <3>5. \A d \in Call : U!Is(d, "list", "counting")' => U!Is(d, "list", "counting") /\ v3'[d] = v3[d]
      BY <2>3 DEF U!Is
    <3>. QED
      <4>1. ASSUME NEW d \in Call, U!Is(d, "list", "counting")', v3'[d].value # Null
            PROVE  v2' # Null /\ v3'[d].value <= v2'
        BY <2>1, <2>4, <3>5, <4>1 DEF U!CountsCover
      <4>2. ASSUME NEW d \in Call, U!LiveList(d)'
            PROVE  U!Counted(v3[d].value)'
        BY <3>2, <3>4, <4>2
      <4>3. v5' = Null
        BY <2>1, <3>1
      <4>. QED
        BY <4>1, <4>2, <4>3 DEF U!CountsCover
  <2>7. CASE ~v3[c].live
    <3>1. EnoughComes
      BY <1>0, <2>1, <2>5, <2>7
    <3>2. \A n : U!Counted(n) => U!Counted(n)'
      BY <3>1, CountedStays
    <3>3. U!Badge' = U!Badge
      BY <2>1 DEF U!Badge
    <3>4. \A d \in Call : U!LiveList(d)' => U!LiveList(d) /\ v3'[d] = v3[d]
      BY <2>3, <2>7 DEF U!LiveList
    <3>5. \A d \in Call : U!Is(d, "list", "counting")' => U!Is(d, "list", "counting") /\ v3'[d] = v3[d]
      BY <2>3 DEF U!Is
    <3>. QED
      <4>1. ASSUME NEW d \in Call, U!Is(d, "list", "counting")', v3'[d].value # Null
            PROVE  v2' # Null /\ v3'[d].value <= v2'
        BY <2>1, <2>4, <3>5, <4>1 DEF U!CountsCover
      <4>2. ASSUME NEW d \in Call, U!LiveList(d)', v3'[d].at = "answered"
            PROVE  U!Counted(v3[d].value)'
        BY <2>4, <3>2, <3>4, <4>2 DEF U!CountsCover
      <4>3. v5' # Null => U!Counted(U!Badge)'
        BY <2>1, <2>4, <3>2, <3>3 DEF U!CountsCover
      <4>. QED
        BY <4>1, <4>2, <4>3 DEF U!CountsCover
  <2>. QED
    BY <2>6, <2>7
<1>9. ASSUME NEW c \in Call, U!Return(c) PROVE U!CountsCover'
  <2>1. /\ UNCHANGED <<v1, v2, v6, v7, v12, v13>> /\ v3[c] # Null /\ v3[c].at = "answered"
        /\ v3' = [v3 EXCEPT ![c] = Null]
        /\ v5' = IF v3[c].kind = "list" /\ v3[c].live THEN v3[c].value ELSE v5
    BY <1>9 DEF U!Return, U!history
  <2>2. \A d \in Call : v3'[d] # Null => v3'[d] = v3[d]
    BY <2>1 DEF U!TypeOK
  <2>3. \A n : U!Counted(n) => U!Counted(n)'
    BY <1>0, <2>1, SameUnread, CountedStays
  <2>4. CASE U!LiveList(c)
    <3>1. v5' = v3[c].value /\ U!Counted(v5')
      BY <2>1, <2>4 DEF U!LiveList, U!CountsCover
    <3>2. U!Counted(v5' + v6')
      BY <1>0, <2>1, <3>1, UnreadCardinality DEF U!Counted, U!TypeOK
    <3>. QED
      BY <2>1, <2>2, <2>3, <3>2 DEF U!CountsCover, U!LiveList, U!Is, U!Badge
  <2>5. CASE ~U!LiveList(c)
    <3>1. v5' = v5
      BY <2>1, <2>5 DEF U!LiveList
    <3>2. U!Badge' = U!Badge
      BY <2>1, <3>1 DEF U!Badge
    <3>. QED
      BY <2>1, <2>2, <2>3, <3>1, <3>2 DEF U!CountsCover, U!LiveList, U!Is
  <2>. QED
    BY <2>4, <2>5
<1>10. ASSUME NEW c \in Call, U!Receive(c) PROVE U!CountsCover'
  <2>1. /\ UNCHANGED <<v1, v2, v4, v5, v13>> /\ v7 # Null /\ v7 > 0 /\ v7' = v7 - 1
        /\ v3' = v3 \/ v3' = [v3 EXCEPT ![c] = U!Ask("messages")]
    BY <1>10 DEF U!Receive
  <2>2. \A d \in Call : v3'[d] = v3[d] \/ v3'[d].kind = "messages"
    BY <2>1 DEF U!TypeOK, U!Ask
  <2>3. U!ToCome' = U!ToCome - 1 /\ U!Unread' = U!Unread
    <3>1. v7 \in Nat /\ v7' \in Nat /\ v7' # Null
      BY <2>1, NullIsNoNumber DEF U!TypeOK
    <3>2. U!Unannounced' = U!Unannounced /\ U!Unread' = U!Unread
      BY <2>1, SameUnread
    <3>. QED
      BY <2>1, <3>1, <3>2, UnreadSets, UnreadCardinality DEF U!ToCome
  <2>4. CASE v4 = "list" /\ v5 # Null
    <3>1. v6' = v6 + 1 /\ v12' = v12 /\ v3' = v3
      BY <1>10, <2>4 DEF U!Receive
    <3>2. \A d \in Call : ~U!LiveList(d)
      BY <2>4 DEF U!OneList
    <3>3. U!Counted(U!Badge) => U!Counted(U!Badge)'
      BY <1>0, <2>1, <2>3, <2>4, <3>1, UnreadCardinality DEF U!Counted, U!Badge, U!TypeOK
    <3>. QED
      BY <2>1, <3>1, <3>2, <3>3 DEF U!CountsCover, U!LiveList, U!Is
  <2>5. CASE v4 = "chat"
    <3>1. v5 = Null /\ \A d \in Call : ~U!LiveList(d)
      BY <2>5 DEF U!OneList
    <3>. QED
      BY <2>1, <2>2, <3>1 DEF U!CountsCover, U!LiveList, U!Is
  <2>6. CASE ~(v4 = "list" /\ v5 # Null) /\ v4 # "chat"
    <3>1. v12' = v12 + 1 /\ UNCHANGED <<v3, v6>>
      BY <1>10, <2>6 DEF U!Receive
    <3>2. EnoughComes
      BY <1>0, <2>3, <3>1
    <3>. QED
      BY <1>1, <2>1, <3>1, <3>2
  <2>. QED
    BY <2>4, <2>5, <2>6
<1>11. ASSUME NEW c \in Call, U!Lose(c) PROVE U!CountsCover'
  <2>1. UNCHANGED <<v1, v2, v5, v6, v7, v12, v13>> /\ v3' = [v3 EXCEPT ![c] = Null]
    BY <1>11 DEF U!Lose, U!shown, U!history
  <2>2. \A d \in Call : v3'[d] # Null => v3'[d] = v3[d]
    BY <2>1 DEF U!TypeOK
  <2>3. EnoughComes
    BY <1>0, <2>1, SameUnread
  <2>. QED
    BY <1>1, <2>1, <2>2, <2>3
<1>12. ASSUME NEW c \in Call, NEW v \in {"list", "chat"}, U!Open(v, c) PROVE U!CountsCover'
  <2>1. UNCHANGED <<v1, v2, v7, v12, v13>> /\ v5' = Null
    BY <1>12 DEF U!Open, U!history
  <2>2. v3' = [d \in Call |->
                 IF d = c THEN U!Ask(IF v = "list" THEN "list" ELSE "messages")
                 ELSE IF v3[d] = Null THEN Null ELSE [v3[d] EXCEPT !.live = FALSE]]
    BY <1>12 DEF U!Open
  <2>3. v3'[c].at = "asked"
    BY <2>2 DEF U!Ask
  <2>4. ASSUME NEW d \in Call, v3'[d] # Null, v3'[d].at # "asked"
        PROVE  /\ v3[d] # Null /\ v3'[d].kind = v3[d].kind /\ v3'[d].at = v3[d].at
               /\ v3'[d].value = v3[d].value /\ ~v3'[d].live
    <3>1. d # c
      BY <2>3, <2>4
    <3>2. v3[d] # Null /\ v3'[d] = [v3[d] EXCEPT !.live = FALSE]
      BY <2>2, <2>4, <3>1
    <3>. QED
      BY <3>2 DEF U!TypeOK
  <2>. QED
    BY <2>1, <2>4 DEF U!CountsCover, U!LiveList, U!Is
<1>13. CASE U!Break
  <2>1. /\ UNCHANGED <<v1, v2, v3, v5, v6, v13>> /\ v7 # Null /\ v7' = Null /\ v12' = v12 + v7
    BY <1>13 DEF U!Break, U!shown
  <2>2. U!Unannounced' = U!Unannounced /\ U!Unread' = U!Unread
    BY <2>1, SameUnread
  <2>3. U!ToCome' + v12' = U!ToCome + v12
    BY <2>1, <2>2, UnreadSets, UnreadCardinality DEF U!ToCome, U!TypeOK
  <2>4. EnoughComes
    <3>1. Cardinality(U!Unread') = Cardinality(U!Unread)
      BY <2>2
    <3>. QED
      BY <1>0, <2>3, <3>1, SameSums
  <2>. QED
    BY <1>1, <2>1, <2>4
<1>14. CASE U!Connect
  <2>1. /\ UNCHANGED <<v1, v2, v3, v5, v6, v12, v13>> /\ v7 = Null /\ v7' = 0
    BY <1>14 DEF U!Connect, U!shown, U!history
  <2>2. U!Unannounced' = U!Unannounced /\ U!Unread' = U!Unread
    BY <2>1, SameUnread
  <2>3. U!ToCome' = U!ToCome
    BY <2>1, <2>2 DEF U!ToCome
  <2>4. EnoughComes
    BY <1>0, <2>1, <2>2, <2>3
  <2>. QED
    BY <1>1, <2>1, <2>4
<1>. QED
  BY <1>2, <1>3, <1>4, <1>5, <1>6, <1>7, <1>8, <1>9, <1>10, <1>11, <1>12, <1>13, <1>14 DEF U!Next

-----------------------------------------------------------------------------
\* In a behaviour of the unread messages only they take steps.
LEMMA UnreadSteps ==
    ASSUME part = "unread", [Next]_vars
    PROVE  part' = "unread" /\ (U!Next \/ UNCHANGED <<v1, v2, v3, v4, v5, v6, v7, v10, v11, v12, v13>>)
BY DEF Next, vars

\* However messages are stored and read, however answers and events are delayed,
\* lost or overtaken: each message has been given to the reader or is counted as
\* unread and shown, but for the exceptions the property names (sendMessage,
\* getMessages, listSessions, negotiation-list.tsx).
THEOREM MessagesAreNotHidden == Spec => []NoMessageHidden
<1> DEFINE Inv == part = "unread" => U!NothingHiddenInv
<1>1. Initially => Inv
  <2> SUFFICES ASSUME U!Init PROVE U!NothingHiddenInv
    BY DEF Initially, Init
  <2>1. U!TypeOK
    <3>1. v1 \in Seq([from : {"reader", "other"}, at : {"saving", "stored", "announced"}])
      BY EmptySeq DEF U!Init
    <3>. QED
      BY <3>1 DEF U!Init, U!TypeOK
  <2>2. U!MarksAreCovered /\ U!OneList /\ U!CountsCover
    BY DEF U!Init, U!MarksAreCovered, U!OneList, U!CountsCover, U!LiveList, U!Is
  <2>. QED
    BY <2>1, <2>2 DEF U!NothingHiddenInv
<1>2. Inv /\ [Next]_vars => Inv'
  <2> SUFFICES ASSUME part = "unread", U!NothingHiddenInv, [Next]_vars
               PROVE  U!NothingHiddenInv'
    BY DEF Next, vars
  <2>1. CASE U!Next
    <3>1. U!TypeOK'
      BY <2>1, UnreadTyped DEF U!NothingHiddenInv
    <3>. QED
      BY <2>1, <3>1, UnreadMarks, UnreadOneList, UnreadCounts DEF U!NothingHiddenInv
  <2>2. CASE UNCHANGED <<v1, v2, v3, v4, v5, v6, v7, v10, v11, v12, v13>>
    <3>1. U!TypeOK' /\ U!OneList' /\ U!MarksAreCovered'
      BY <2>2 DEF U!NothingHiddenInv, U!TypeOK, U!OneList, U!LiveList, U!MarksAreCovered,
                  U!Covered, U!Is
    <3>2. U!ToCome' = U!ToCome /\ U!Unread' = U!Unread
      BY <2>2, SameUnread
    <3>3. U!CountsCover'
      BY <2>2, <3>2 DEF U!NothingHiddenInv, U!CountsCover, U!Counted, U!LiveList, U!Is, U!Badge
    <3>. QED
      BY <3>1, <3>3 DEF U!NothingHiddenInv
  <2>. QED
    BY <2>1, <2>2, UnreadSteps
<1>3. Inv => NoMessageHidden
  <2> SUFFICES ASSUME U!NothingHiddenInv PROVE U!NoMessageHidden
    BY DEF NoMessageHidden
  <2>1. U!MarkedWasFound
    BY UnreadSets DEF U!NothingHiddenInv, U!MarksAreCovered, U!Covered, U!MarkedWasFound
  <2>2. U!UnreadIsShown
    BY UnreadCardinality DEF U!NothingHiddenInv, U!CountsCover, U!Counted, U!UnreadIsShown
  <2>. QED
    BY <2>1, <2>2 DEF U!NoMessageHidden
<1>. QED
  BY <1>1, <1>2, <1>3, PTL DEF Spec

=============================================================================
