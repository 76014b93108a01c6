---------------------------- MODULE Saves_proofs ----------------------------
(***************************************************************************)
(* The components that read an entity, wait, and save it (EntitySave):     *)
(* jobs, data sources and settings.  Proved as invariants of the platform, *)
(* MCPlatform, for any number of requests that overlap and every bound     *)
(* on rows, faults and restarts.  The inductive invariants are stated with *)
(* the components.                                                         *)
(***************************************************************************)
EXTENDS MCPlatform, FiniteSetTheorems, SequenceTheorems, TLAPS

-----------------------------------------------------------------------------
\* The job postings (JobPosting).

\* No other call than c is one that a page waits for in the chat of r.
NoOther(c, r) ==
    r.live /\ r.chat \in Chat =>
        \A d \in Call : d # c => ~(v2[d].live /\ v2[d].chat = r.chat)

\* A step in which one call goes on, perhaps with a row that is new or changed
\* but of the same chat.
LEMMA JobsGoOn ==
    ASSUME J!OneJobInv, NEW c \in Call, NEW r \in J!Calls, v2' = [v2 EXCEPT ![c] = r],
           v1' \in Seq(J!Row), Len(v1) <= Len(v1'), v8' \subseteq 1 .. Len(v1'),
           \A j \in 1 .. Len(v1) : v1'[j].chat = v1[j].chat,
           v3' = v3, v5' \subseteq v5, v4' \in [Chat -> Nat],
           \A d \in Call : d # c /\ v2[d].at = "answer" => v2[d].job \notin v8' \ v8,
           \A d \in Call : d # c /\ v2[d].live /\ v2[d].chat \in Chat =>
               v4'[v2[d].chat] = v4[v2[d].chat],
           J!Sound(r)', J!KeptIsMade', NoOther(c, r)
    PROVE  J!OneJobInv'
<1>1. v2 \in [Call -> J!Calls] /\ v2' \in [Call -> J!Calls] /\ v2'[c] = r
      /\ \A d \in Call : d # c => v2'[d] = v2[d]
  BY DEF J!OneJobInv, J!TypeOK
<1>2. v1 \in Seq(J!Row) /\ Len(v1) \in Nat /\ Len(v1') \in Nat
  BY DEF J!OneJobInv, J!TypeOK
<1>3. ASSUME NEW e, NEW j, J!IsOf(e, j) PROVE J!IsOf(e, j)'
  <2>1. j \in 1 .. Len(v1) /\ j \in 1 .. Len(v1') /\ e \in J!Row /\ e.chat = v1[j].chat
    BY <1>2, <1>3 DEF J!IsOf
  <2>. QED
    BY <2>1 DEF J!IsOf
<1>4. ASSUME NEW d \in Call, d # c PROVE J!Sound(v2[d])'
  <2>1. J!Sound(v2[d]) /\ v2'[d] = v2[d]
    BY <1>1, <1>4 DEF J!OneJobInv
  <2>2. \A x : x = v2[d] => J!Sound(x)'
    <3>. SUFFICES ASSUME NEW x, x = v2[d] PROVE J!Sound(x)'
      OBVIOUS
    <3>1. x.at = "answer" => /\ x.kind = "chat" /\ x.live
                             /\ x.job \in (1 .. Len(v1')) \ v8' /\ v1'[x.job].chat = x.chat
      BY <1>2, <1>4, <2>1 DEF J!Sound
    <3>2. x.live /\ x.chat \in Chat => x.kind = "chat" /\ v4'[x.chat] = 0
      BY <1>4, <2>1 DEF J!Sound
    <3>. QED
      BY <1>2, <1>3, <2>1, <3>1, <3>2 DEF J!Sound
  <2>. QED
    BY <2>1, <2>2 DEF J!Sound, J!IsOf
<1>5. \A d \in Call : J!Sound(v2[d])'
  BY <1>1, <1>4 DEF J!Sound, J!IsOf
<1>6. J!OneAnswerAwaited'
  BY <1>1 DEF J!OneAnswerAwaited, J!OneJobInv, NoOther
<1>7. ASSUME NEW m \in v5' PROVE J!IsOf(m.row, m.job)'
  BY <1>3, <1>7 DEF J!OneJobInv
<1>8. J!TypeOK'
  BY <1>1 DEF J!OneJobInv, J!TypeOK
<1>. QED
  BY <1>5, <1>6, <1>7, <1>8 DEF J!OneJobInv

\* What is kept stays right when rows stay of their chats, the new ones are of
\* none, no answer goes and no draft becomes unseen.
LEMMA KeptGoesOn ==
    ASSUME J!OneJobInv, v1' \in Seq(J!Row), Len(v1) <= Len(v1'),
           \A j \in 1 .. Len(v1) : v1'[j].chat = v1[j].chat,
           \A j \in 1 .. Len(v1') : j > Len(v1) => v1'[j].chat \notin Chat,
           v4' = v4, v8' = v8,
           \A d \in Call : v2[d].at = "answer" => v2'[d] = v2[d]
    PROVE  J!KeptIsMade'
<1>1. v1 \in Seq(J!Row) /\ Len(v1) \in Nat /\ Len(v1') \in Nat
  BY DEF J!OneJobInv, J!TypeOK
<1>2. SUFFICES ASSUME NEW h \in Chat
      PROVE  /\ v4[h] \in 0 .. Len(v1')
             /\ v4[h] # 0 => v1'[v4[h]].chat = h /\ v4[h] \notin v8
             /\ \A j \in (1 .. Len(v1')) \ v8 : v1'[j].chat = h => v4[h] = j \/ J!Told(h, j)'
  BY DEF J!KeptIsMade
<1>3. /\ v4[h] \in 0 .. Len(v1)
      /\ v4[h] # 0 => v1[v4[h]].chat = h /\ v4[h] \notin v8
  BY DEF J!OneJobInv, J!KeptIsMade
<1>4. ASSUME NEW j \in (1 .. Len(v1')) \ v8, v1'[j].chat = h
      PROVE  v4[h] = j \/ J!Told(h, j)'
  <2>1. j \in (1 .. Len(v1)) \ v8 /\ v1[j].chat = h
    BY <1>1, <1>4
  <2>2. v4[h] = j \/ J!Told(h, j)
    BY <2>1 DEF J!OneJobInv, J!KeptIsMade
  <2>. QED
    BY <2>2 DEF J!Told
<1>5. v4[h] # 0 => v4[h] \in 1 .. Len(v1)
  BY <1>1, <1>3
<1>. QED
  BY <1>1, <1>3, <1>4, <1>5

\* A step of one call, with no answer on its way, that changes no row.
LEMMA JobCallGoesOn ==
    ASSUME J!OneJobInv, NEW c \in Call, NEW r \in J!Calls, v2' = [v2 EXCEPT ![c] = r],
           v2[c].at # "answer",
           UNCHANGED <<v1, v3, v4, v8>>, v5' \subseteq v5, J!Sound(r), NoOther(c, r)
    PROVE  J!OneJobInv'
<1>1. v1' \in Seq(J!Row) /\ Len(v1) <= Len(v1') /\ v4' \in [Chat -> Nat] /\ Len(v1) \in Nat
  BY DEF J!OneJobInv, J!TypeOK
<1>2. J!Sound(r)'
  BY DEF J!Sound, J!IsOf
<1>3. \A d \in Call : v2[d].at = "answer" => v2'[d] = v2[d]
  BY DEF J!OneJobInv, J!TypeOK
<1>4. J!KeptIsMade'
  BY <1>1, <1>3, KeptGoesOn
<1>. QED
  BY <1>1, <1>2, <1>4, JobsGoOn DEF J!OneJobInv

\* A call that is idle is one, and sound.
LEMMA IdleJobCall ==
    /\ J!Idle \in J!Calls
    /\ J!Idle.kind = "none" /\ J!Idle.at = "idle" /\ J!Idle.live = FALSE /\ J!Idle.chat = "form"
    /\ J!Sound(J!Idle) /\ J!Sound(J!Idle)' /\ \A c : NoOther(c, J!Idle)
BY DEF J!Idle, J!Calls, J!Sound, NoOther

\* The requests about a job.
LEMMA JobRequests ==
    ASSUME J!OneJobInv, NEW c \in Call,
           \/ \E j \in DOMAIN v1 : J!Close(c, j) \/ J!Boundary(c, j)
           \/ J!Publish(c)
    PROVE  J!OneJobInv'
<1>1. v1 \in Seq(J!Row) /\ DOMAIN v1 = 1 .. Len(v1) /\ Len(v1) \in Nat
  BY DEF J!OneJobInv, J!TypeOK
<1>2. PICK kind \in {"close", "boundary", "publish"}, j \in 1 .. Len(v1) :
        /\ J!Begin(c, [J!Idle EXCEPT !.kind = kind, !.at = "read", !.job = j])
        /\ v1' = v1
  <2>1. CASE \E j \in DOMAIN v1 : J!Close(c, j) \/ J!Boundary(c, j)
    BY <1>1, <2>1 DEF J!Close, J!Boundary
  <2>2. CASE J!Publish(c)
    <3>1. v3 \in Chat /\ v4[v3] \in 1 .. Len(v1)
      BY <1>1, <2>2 DEF J!Publish, J!OneJobInv, J!TypeOK, J!KeptIsMade
    <3>. QED
      BY <2>2, <3>1 DEF J!Publish
  <2>. QED
    BY <2>1, <2>2
<1>3. PICK r : r = [J!Idle EXCEPT !.kind = kind, !.at = "read", !.job = j]
  OBVIOUS
<1>4. r \in J!Calls /\ r.kind = kind /\ r.at = "read" /\ r.job = j /\ ~r.live
  <2>1. j \in Nat /\ kind \in {"none", "chat", "publish", "close", "boundary", "embed"}
    BY <1>1
  <2>. QED
    BY <1>3, <2>1 DEF J!Calls, J!Idle
<1>5. J!Sound(r) /\ NoOther(c, r)
  BY <1>4 DEF J!Sound, NoOther
<1>6. v2[c].at = "idle" /\ v2' = [v2 EXCEPT ![c] = r] /\ UNCHANGED <<v3, v4, v5, v8>>
  BY <1>2, <1>3, <1>4 DEF J!Begin, J!Put
<1>. QED
  BY <1>2, <1>4, <1>5, <1>6, JobCallGoesOn

\* A draft is a row of its chat.
LEMMA DraftIsRow ==
    ASSUME NEW h \in Chat \cup {"form"}
    PROVE  J!Draft(h) \in J!Row /\ J!Draft(h).chat = h
BY DEF J!Draft, J!Row

\* A job is appended.
LEMMA JobAppended ==
    ASSUME J!OneJobInv, NEW row \in J!Row, v1' = Append(v1, row)
    PROVE  /\ v1' \in Seq(J!Row) /\ Len(v1') = Len(v1) + 1 /\ Len(v1) \in Nat
           /\ \A j \in 1 .. Len(v1) : v1'[j] = v1[j]
           /\ v1'[Len(v1) + 1] = row
BY DEF J!OneJobInv, J!TypeOK

\* The form makes a job of no chat.
LEMMA SubmitKeeps ==
    ASSUME J!OneJobInv, NEW c \in Call, J!Submit(c)
    PROVE  J!OneJobInv'
<1>1. PICK r : r = [J!Idle EXCEPT !.kind = "publish", !.at = "read", !.live = TRUE, !.job = Len(v1) + 1]
  OBVIOUS
<1>2. v1' = Append(v1, J!Draft("form")) /\ J!Draft("form") \in J!Row /\ J!Draft("form").chat = "form"
  BY DraftIsRow DEF J!Submit
<1>3. /\ v1' \in Seq(J!Row) /\ Len(v1') = Len(v1) + 1 /\ Len(v1) \in Nat
      /\ \A j \in 1 .. Len(v1) : v1'[j] = v1[j]
      /\ v1'[Len(v1) + 1].chat = "form"
  BY <1>2, JobAppended
<1>4. r \in J!Calls /\ r.kind = "publish" /\ r.at = "read" /\ r.job = Len(v1) + 1
      /\ r.chat = "form"
  <2>1. Len(v1) + 1 \in Nat
    BY <1>3
  <2>. QED
    BY <1>1, <2>1 DEF J!Calls, J!Idle
<1>5. /\ v2[c].at = "idle" /\ v2' = [v2 EXCEPT ![c] = r]
      /\ UNCHANGED <<v3, v4, v5, v8>>
  BY <1>1, <1>4 DEF J!Submit, J!Begin, J!Put
<1>6. J!Sound(r)' /\ NoOther(c, r)
  BY <1>3, <1>4, FormIsNoChat DEF J!Sound, NoOther
<1>7. \A d \in Call : v2[d].at = "answer" => v2'[d] = v2[d]
  BY <1>5 DEF J!OneJobInv, J!TypeOK
<1>8. \A j \in 1 .. Len(v1') : j > Len(v1) => v1'[j].chat \notin Chat
  BY <1>3, FormIsNoChat
<1>9. Len(v1) <= Len(v1') /\ \A j \in 1 .. Len(v1) : v1'[j].chat = v1[j].chat
  BY <1>3
<1>10. J!KeptIsMade'
  BY <1>3, <1>5, <1>7, <1>8, <1>9, KeptGoesOn
<1>11. /\ v4' \in [Chat -> Nat] /\ v3' = v3 /\ v5' \subseteq v5 /\ v4' = v4
       /\ v8' = v8 /\ v8' \subseteq 1 .. Len(v1')
  BY <1>3, <1>5 DEF J!OneJobInv, J!TypeOK
<1>. QED
  BY <1>3, <1>4, <1>5, <1>6, <1>9, <1>10, <1>11, JobsGoOn

\* A message is sent: while none is awaited, and none is kept.
LEMMA SendKeeps ==
    ASSUME J!OneJobInv, NEW c \in Call, NEW h \in Chat, J!Send(c, h)
    PROVE  J!OneJobInv'
<1>1. PICK r : r = [J!Idle EXCEPT !.kind = "chat", !.at = "ai", !.chat = h, !.live = TRUE]
  OBVIOUS
<1>2. r \in J!Calls /\ r.kind = "chat" /\ r.at = "ai" /\ r.chat = h /\ r.live
  BY <1>1, IdleJobCall DEF J!Calls
<1>3. /\ v2[c].at = "idle" /\ v2' = [v2 EXCEPT ![c] = r]
      /\ UNCHANGED <<v1, v3, v4, v5, v8>> /\ J!MaySend(h)
  BY <1>1, <1>2 DEF J!Send, J!Begin, J!Put
<1>4. J!Sound(r) /\ NoOther(c, r)
  BY <1>2, <1>3 DEF J!Sound, J!MaySend, J!Waiting, NoOther
<1>. QED
  BY <1>2, <1>3, <1>4, JobCallGoesOn

\* The AI asks a question or fails.
LEMMA QuestionKeeps ==
    ASSUME J!OneJobInv, NEW c \in Call, J!Question(c)
    PROVE  J!OneJobInv'
<1>1. /\ v2[c].at = "ai" /\ v2' = [v2 EXCEPT ![c] = J!Idle]
      /\ UNCHANGED <<v1, v3, v4, v5, v8>>
  BY IdleJobCall DEF J!Question, J!At, J!Put
<1>. QED
  BY <1>1, IdleJobCall, JobCallGoesOn

\* A draft is stored: an answer of the one call that its page waits for tells of
\* it, or it is unseen.
LEMMA MakeDraftKeeps ==
    ASSUME J!OneJobInv, NEW c \in Call, J!MakeDraft(c)
    PROVE  J!OneJobInv'
<1>0. PICK new : new = Len(v1) + 1
  OBVIOUS
<1>1. v2[c].kind = "chat" /\ v2[c].at = "ai" /\ v2[c] \in J!Calls /\ J!Sound(v2[c])
  BY DEF J!OneJobInv, J!TypeOK, J!MakeDraft, J!At
<1>2. PICK h \in Chat : h = v2[c].chat
  BY <1>1 DEF J!Sound
<1>3. v1' = Append(v1, J!Draft(h)) /\ UNCHANGED <<v3, v4, v5>>
  BY <1>2 DEF J!MakeDraft
<1>4. /\ v1' \in Seq(J!Row) /\ Len(v1') = new /\ new \in Nat /\ Len(v1) = new - 1
      /\ \A j \in 1 .. Len(v1) : v1'[j] = v1[j]
      /\ v1'[new].chat = h
  BY <1>0, <1>3, DraftIsRow, JobAppended
<1>5. PICK r : r = [v2[c] EXCEPT !.at = "answer", !.job = new]
  OBVIOUS
<1>6. /\ r \in J!Calls /\ r.at = "answer" /\ r.job = new /\ r.kind = "chat"
      /\ r.chat = h /\ r.live = v2[c].live
  BY <1>1, <1>2, <1>4, <1>5 DEF J!Calls
<1>7. PICK k \in {r, J!Idle} :
        /\ v2' = [v2 EXCEPT ![c] = k]
        /\ v2[c].live => k = r /\ v8' = v8
        /\ ~v2[c].live => k = J!Idle /\ v8' = v8 \cup {new}
  <2>1. CASE v2[c].live
    <3>1. J!Put(c, r) /\ v8' = v8
      BY <1>0, <1>5, <2>1 DEF J!MakeDraft
    <3>. QED
      BY <1>6, <2>1, <3>1 DEF J!Put
  <2>2. CASE ~v2[c].live
    <3>1. J!Put(c, J!Idle) /\ v8' = v8 \cup {new}
      BY <1>0, <2>2 DEF J!MakeDraft
    <3>. QED
      BY <2>2, <3>1, IdleJobCall DEF J!Put
  <2>. QED
    BY <2>1, <2>2
<1>8. \A d \in Call : v2[d].at = "answer" => d # c /\ v2[d].job # new /\ v2'[d] = v2[d]
  BY <1>1, <1>4, <1>7 DEF J!OneJobInv, J!TypeOK, J!Sound
<1>9. v8 \subseteq 1 .. Len(v1) /\ v8' \subseteq 1 .. Len(v1')
  BY <1>4, <1>7 DEF J!OneJobInv
<1>10. J!KeptIsMade'
  <2>. SUFFICES ASSUME NEW g \in Chat
       PROVE  /\ v4[g] \in 0 .. Len(v1')
              /\ v4[g] # 0 => v1'[v4[g]].chat = g /\ v4[g] \notin v8'
              /\ \A j \in (1 .. Len(v1')) \ v8' : v1'[j].chat = g => v4[g] = j \/ J!Told(g, j)'
    BY <1>3 DEF J!KeptIsMade
  <2>1. /\ v4[g] \in 0 .. Len(v1)
        /\ v4[g] # 0 => v1[v4[g]].chat = g /\ v4[g] \notin v8
    BY DEF J!OneJobInv, J!KeptIsMade
  <2>2. v4[g] # 0 => v1'[v4[g]].chat = g /\ v4[g] \notin v8'
    BY <1>4, <1>7, <2>1
  <2>3. ASSUME NEW j \in (1 .. Len(v1')) \ v8', v1'[j].chat = g
        PROVE  v4[g] = j \/ J!Told(g, j)'
    <3>1. CASE j = new
      <4>1. v2[c].live /\ g = h
        BY <1>4, <1>7, <2>3, <3>1
      <4>2. v2'[c] = r
        BY <1>7, <4>1 DEF J!OneJobInv, J!TypeOK
      <4>. QED
        BY <1>6, <3>1, <4>1, <4>2 DEF J!Told
    <3>2. CASE j # new
      <4>1. j \in (1 .. Len(v1)) \ v8 /\ v1[j].chat = g
        BY <1>4, <1>7, <2>3, <3>2
      <4>2. v4[g] = j \/ J!Told(g, j)
        BY <4>1 DEF J!OneJobInv, J!KeptIsMade
      <4>. QED
        BY <1>8, <4>2 DEF J!Told
    <3>. QED
      BY <3>1, <3>2
  <2>. QED
    BY <1>4, <2>1, <2>2, <2>3
<1>11. k \in J!Calls /\ J!Sound(k)' /\ NoOther(c, k)
  <2>1. CASE v2[c].live
    <3>1. v4'[h] = 0 /\ new \in (1 .. Len(v1')) \ v8'
      BY <1>1, <1>2, <1>3, <1>4, <1>7, <1>9, <2>1 DEF J!Sound
    <3>2. J!Sound(r)'
      BY <1>2, <1>4, <1>6, <2>1, <3>1 DEF J!Sound
    <3>3. NoOther(c, r)
      BY <1>2, <1>6, <2>1 DEF NoOther, J!OneJobInv, J!OneAnswerAwaited
    <3>. QED
      BY <1>6, <1>7, <2>1, <3>2, <3>3
  <2>. QED
    BY <1>7, <2>1, IdleJobCall
<1>12. /\ \A d \in Call : d # c /\ v2[d].at = "answer" => v2[d].job \notin v8' \ v8
       /\ Len(v1) <= Len(v1') /\ \A j \in 1 .. Len(v1) : v1'[j].chat = v1[j].chat
       /\ v4 \in [Chat -> Nat]
  <2>1. v8' \ v8 \subseteq {new}
    BY <1>7
  <2>2. \A d \in Call : d # c /\ v2[d].at = "answer" => v2[d].job \notin v8' \ v8
    BY <1>8, <2>1
  <2>3. Len(v1) <= Len(v1') /\ \A j \in 1 .. Len(v1) : v1'[j].chat = v1[j].chat
    BY <1>4
  <2>. QED
    BY <2>2, <2>3 DEF J!OneJobInv, J!TypeOK
<1>. QED
  BY <1>3, <1>4, <1>7, <1>9, <1>10, <1>11, <1>12, JobsGoOn

\* The answer about a draft is kept by the one page that awaits it.
LEMMA ChatAnswerKeeps ==
    ASSUME J!OneJobInv, NEW c \in Call, J!ChatAnswer(c)
    PROVE  J!OneJobInv'
<1>1. /\ v2[c].at = "answer" /\ v2[c] \in J!Calls /\ J!Sound(v2[c])
      /\ v1 \in Seq(J!Row) /\ Len(v1) \in Nat /\ v4 \in [Chat -> Nat]
      /\ v2 \in [Call -> J!Calls]
  BY DEF J!OneJobInv, J!TypeOK, J!ChatAnswer, J!At
<1>2. PICK h \in Chat, j \in (1 .. Len(v1)) \ v8 :
        /\ h = v2[c].chat /\ j = v2[c].job /\ v1[j].chat = h
        /\ v2[c].live /\ v4[h] = 0
  BY <1>1 DEF J!Sound
<1>3. /\ v2' = [v2 EXCEPT ![c] = J!Idle] /\ v4' = [v4 EXCEPT ![h] = j]
      /\ UNCHANGED <<v1, v3, v5, v8>>
  BY <1>2, IdleJobCall DEF J!ChatAnswer, J!Put
<1>4. /\ v4' \in [Chat -> Nat] /\ v4'[h] = j
      /\ \A g \in Chat : g # h => v4'[g] = v4[g]
  BY <1>1, <1>2, <1>3
<1>5. ASSUME NEW d \in Call, d # c, v2[d].live PROVE v2[d].chat # h
  BY <1>2, <1>5 DEF J!OneJobInv, J!OneAnswerAwaited
<1>6. \A d \in Call : v2[d].at = "answer" => v2[d].live
  BY DEF J!OneJobInv, J!Sound
<1>7. J!KeptIsMade'
  <2>. SUFFICES ASSUME NEW g \in Chat
       PROVE  /\ v4'[g] \in 0 .. Len(v1)
              /\ v4'[g] # 0 => v1[v4'[g]].chat = g /\ v4'[g] \notin v8
              /\ \A i \in (1 .. Len(v1)) \ v8 : v1[i].chat = g => v4'[g] = i \/ J!Told(g, i)'
    BY <1>3 DEF J!KeptIsMade
  <2>1. /\ v4[g] \in 0 .. Len(v1)
        /\ v4[g] # 0 => v1[v4[g]].chat = g /\ v4[g] \notin v8
        /\ \A i \in (1 .. Len(v1)) \ v8 : v1[i].chat = g => v4[g] = i \/ J!Told(g, i)
    BY DEF J!OneJobInv, J!KeptIsMade
  <2>2. CASE g # h
    <3>1. \A i : J!Told(g, i) => J!Told(g, i)'
      BY <1>1, <1>2, <1>3, <2>2 DEF J!Told
    <3>. QED
      BY <1>4, <2>1, <2>2, <3>1
  <2>3. CASE g = h
    <3>1. \A i \in (1 .. Len(v1)) \ v8 : v1[i].chat = g => i = j
      BY <1>2, <1>5, <1>6, <2>1, <2>3 DEF J!Told
    <3>. QED
      BY <1>2, <1>4, <2>3, <3>1
  <2>. QED
    BY <2>2, <2>3
<1>8. \A d \in Call : d # c /\ v2[d].live /\ v2[d].chat \in Chat =>
          v4'[v2[d].chat] = v4[v2[d].chat]
  BY <1>4, <1>5
<1>9. v8' \subseteq 1 .. Len(v1') /\ Len(v1) <= Len(v1')
  BY <1>1, <1>3 DEF J!OneJobInv
<1>. QED
  BY <1>1, <1>3, <1>4, <1>7, <1>8, <1>9, IdleJobCall, JobsGoOn

\* What becomes of a call that its page does not wait for any more.
LEMMA UnawaitedCall ==
    ASSUME J!OneJobInv, NEW c \in Call, NEW r, r = J!Unawaited(c)
    PROVE  /\ r \in J!Calls /\ J!Sound(r) /\ r.at # "answer" /\ ~r.live
           /\ J!Put(c, r) => \E k \in {r, J!Idle} : v2' = [v2 EXCEPT ![c] = k]
<1>1. v2[c] \in J!Calls /\ J!Sound(v2[c])
  BY DEF J!OneJobInv, J!TypeOK
<1>2. CASE v2[c].at = "answer"
  BY <1>2, IdleJobCall DEF J!Unawaited, J!Put
<1>3. CASE v2[c].at # "answer"
  <2>1. /\ r \in J!Calls /\ ~r.live /\ r.at = v2[c].at /\ r.kind = v2[c].kind
        /\ r.chat = v2[c].chat /\ r.job = v2[c].job /\ r.entity = v2[c].entity
        /\ r.seen = v2[c].seen
    BY <1>1, <1>3 DEF J!Calls, J!Unawaited
  <2>2. J!Sound(r)
    BY <1>1, <1>3, <2>1 DEF J!Sound
  <2>. QED
    BY <1>3, <2>1, <2>2 DEF J!Put
<1>. QED
  BY <1>2, <1>3

\* When the answers to some calls come to nobody, their drafts are unseen.
LEMMA AnswersLost ==
    ASSUME J!OneJobInv, NEW cs \in SUBSET Call, UNCHANGED <<v1, v4>>,
           v8' = v8 \cup J!OnTheWay(cs),
           \A d \in Call \ cs : v2'[d] = v2[d]
    PROVE  J!KeptIsMade' /\ v8' \subseteq 1 .. Len(v1')
<1>1. \A d \in Call : v2[d].at = "answer" =>
          /\ v2[d].live /\ v2[d].chat \in Chat /\ v4[v2[d].chat] = 0
          /\ v2[d].job \in 1 .. Len(v1) /\ v1[v2[d].job].chat = v2[d].chat
  BY DEF J!OneJobInv, J!Sound
<1>2. \A j : j \in J!OnTheWay(cs) <=> \E d \in cs : v2[d].at = "answer" /\ v2[d].job = j
  BY DEF J!OnTheWay
<1>3. v8' \subseteq 1 .. Len(v1')
  <2>1. J!OnTheWay(cs) \subseteq 1 .. Len(v1)
    BY <1>1, <1>2
  <2>2. v8 \subseteq 1 .. Len(v1)
    BY DEF J!OneJobInv
  <2>. QED
    BY <2>1, <2>2
<1>4. SUFFICES ASSUME NEW h \in Chat
      PROVE  /\ v4[h] \in 0 .. Len(v1)
             /\ v4[h] # 0 => v1[v4[h]].chat = h /\ v4[h] \notin v8'
             /\ \A j \in (1 .. Len(v1)) \ v8' : v1[j].chat = h => v4[h] = j \/ J!Told(h, j)'
  BY <1>3 DEF J!KeptIsMade
<1>5. /\ v4[h] \in 0 .. Len(v1)
      /\ v4[h] # 0 => v1[v4[h]].chat = h /\ v4[h] \notin v8
      /\ \A j \in (1 .. Len(v1)) \ v8 : v1[j].chat = h => v4[h] = j \/ J!Told(h, j)
  BY DEF J!OneJobInv, J!KeptIsMade
<1>6. v4[h] # 0 => v4[h] \notin v8'
  BY <1>1, <1>2, <1>5
<1>7. ASSUME NEW j \in (1 .. Len(v1)) \ v8', J!Told(h, j) PROVE J!Told(h, j)'
  <2>1. PICK d \in Call : v2[d].at = "answer" /\ v2[d].chat = h /\ v2[d].job = j
    BY <1>7 DEF J!Told
  <2>2. v2'[d] = v2[d]
    BY <1>2, <1>7, <2>1
  <2>. QED
    BY <2>1, <2>2 DEF J!Told
<1>. QED
  BY <1>5, <1>6, <1>7

\* A request fails or its answer is lost.
LEMMA LoseKeeps ==
    ASSUME J!OneJobInv, NEW c \in Call, J!Lose(c)
    PROVE  J!OneJobInv'
<1>1. PICK u : u = J!Unawaited(c)
  OBVIOUS
<1>2. /\ J!Put(c, u) \/ J!Put(c, J!Idle)
      /\ UNCHANGED <<v1, v3, v4, v5>> /\ v8' = v8 \cup J!OnTheWay({c})
  BY <1>1 DEF J!Lose
<1>3. PICK r \in {u, J!Idle} : v2' = [v2 EXCEPT ![c] = r]
  <2>1. CASE J!Put(c, u)
    BY <1>1, <2>1, UnawaitedCall
  <2>2. CASE J!Put(c, J!Idle)
    BY <2>2, IdleJobCall DEF J!Put
  <2>. QED
    BY <1>2, <2>1, <2>2
<1>4. r \in J!Calls /\ J!Sound(r) /\ r.at # "answer" /\ ~r.live
  BY <1>1, <1>3, UnawaitedCall, IdleJobCall
<1>5. v2 \in [Call -> J!Calls] /\ \A d \in Call \ {c} : v2'[d] = v2[d]
  BY <1>3 DEF J!OneJobInv, J!TypeOK
<1>6. J!KeptIsMade' /\ v8' \subseteq 1 .. Len(v1')
  <2>1. {c} \in SUBSET Call
    OBVIOUS
  <2>. QED
    BY <1>2, <1>5, <2>1, AnswersLost
<1>7. J!Sound(r)' /\ NoOther(c, r)
  BY <1>2, <1>4 DEF J!Sound, J!IsOf, NoOther
<1>8. ASSUME NEW d \in Call, d # c, v2[d].at = "answer"
      PROVE  v2[d].job \notin v8' \ v8
  <2>1. \A e \in Call : v2[e].at = "answer" =>
            v2[e].live /\ v2[e].chat \in Chat /\ v1[v2[e].job].chat = v2[e].chat
    BY DEF J!OneJobInv, J!Sound
  <2>2. ASSUME v2[d].job \in v8' \ v8 PROVE FALSE
    <3>1. v2[c].at = "answer" /\ v2[c].job = v2[d].job
      BY <1>2, <2>2 DEF J!OnTheWay
    <3>. QED
      BY <1>8, <2>1, <3>1 DEF J!OneJobInv, J!OneAnswerAwaited
  <2>. QED
    BY <2>2
<1>9. /\ v1' \in Seq(J!Row) /\ Len(v1) <= Len(v1') /\ v4' \in [Chat -> Nat]
      /\ \A j \in 1 .. Len(v1) : v1'[j].chat = v1[j].chat
  BY <1>2 DEF J!OneJobInv, J!TypeOK
<1>. QED
  BY <1>2, <1>3, <1>4, <1>6, <1>7, <1>8, <1>9, JobsGoOn

\* A call that works on an entity.
LEMMA ServiceKeeps ==
    ASSUME J!OneJobInv, NEW c \in Call, J!Read(c) \/ J!AiAnswer(c) \/ J!AiGivesUp(c) \/ J!Select(c)
    PROVE  J!OneJobInv'
<1> DEFINE old == v2[c]
           row == v1[old.job]
<1>1. old \in J!Calls /\ J!Sound(old) /\ UNCHANGED <<v1, v3, v4, v5, v8>>
      /\ v1 \in Seq(J!Row) /\ Len(v1) \in Nat
  BY DEF J!OneJobInv, J!TypeOK, J!Read, J!AiAnswer, J!AiGivesUp, J!Select, J!OnlyCall
<1>0. old.at # "answer"
  BY <1>1 DEF J!Read, J!AiAnswer, J!AiGivesUp, J!Select, J!At
<1>2. CASE J!Put(c, J!Idle)
  BY <1>0, <1>1, <1>2, IdleJobCall, JobCallGoesOn DEF J!Put
<1>3. ASSUME old.at = "read", NEW status \in {"DRAFT", "ACTIVE", "CLOSED"}, NEW at \in {"select", "ai"},
             old.kind # "chat",
             J!Put(c, [old EXCEPT !.at = at, !.read = row, !.entity = [row EXCEPT !.status = status]])
      PROVE  J!OneJobInv'
  <2>1. old.job \in 1 .. Len(v1) /\ row \in J!Row
    BY <1>1, <1>3 DEF J!Sound
  <2>2. PICK e : e = [row EXCEPT !.status = status]
    OBVIOUS
  <2>3. e \in J!Row /\ e.chat = row.chat
    BY <1>3, <2>1, <2>2 DEF J!Row
  <2>4. PICK r : r = [old EXCEPT !.at = at, !.read = row, !.entity = e]
    OBVIOUS
  <2>5. /\ r \in J!Calls /\ r.at = at /\ r.kind = old.kind /\ r.job = old.job
        /\ r.entity = e /\ r.live = old.live /\ r.chat = old.chat
    BY <1>1, <1>3, <2>1, <2>3, <2>4 DEF J!Calls
  <2>6. J!Sound(r) /\ NoOther(c, r)
    BY <1>1, <1>3, <2>1, <2>3, <2>5 DEF J!Sound, J!IsOf, NoOther
  <2>7. v2' = [v2 EXCEPT ![c] = r]
    BY <1>3, <2>2, <2>4, <2>5 DEF J!Put
  <2>. QED
    BY <1>0, <1>1, <1>3, <2>5, <2>6, <2>7, JobCallGoesOn
<1>4. CASE J!Read(c)
  <2>1. old.at = "read"
    BY <1>4 DEF J!Read
  <2>2. CASE old.kind = "publish" /\ J!MayPublish(row.status)
    BY <1>2, <1>3, <1>4, <2>1, <2>2 DEF J!Read
  <2>3. CASE old.kind = "publish" /\ ~J!MayPublish(row.status)
    BY <1>2, <1>4, <2>3 DEF J!Read
  <2>4. CASE old.kind = "close" /\ J!MayClose(row.status)
    BY <1>3, <1>4, <2>1, <2>4 DEF J!Read
  <2>5. CASE old.kind = "close" /\ ~J!MayClose(row.status)
    BY <1>2, <1>4, <2>5 DEF J!Read
  <2>6. CASE old.kind = "boundary"
    <3>0. old.job \in 1 .. Len(v1) /\ row \in J!Row
      BY <1>1, <2>1, <2>6 DEF J!Sound
    <3>1. row.status \in {"DRAFT", "ACTIVE", "CLOSED"}
      BY <3>0 DEF J!Row
    <3>. QED
      BY <1>3, <1>4, <2>1, <2>6, <3>1 DEF J!Read
  <2>. QED
    BY <1>4, <2>2, <2>3, <2>4, <2>5, <2>6 DEF J!Read
<1>5. CASE J!AiAnswer(c)
  <2>1. old.kind \in {"boundary", "embed"} /\ old.at = "ai"
    BY <1>5 DEF J!AiAnswer, J!At
  <2>2. old.job \in 1 .. Len(v1) /\ old.entity \in J!Row /\ old.entity.chat = row.chat
    BY <1>1, <2>1 DEF J!Sound, J!IsOf
  <2>3. PICK b \in BOOLEAN, f \in BOOLEAN :
          J!Put(c, [old EXCEPT !.at = "select", !.entity.boundary = b, !.entity.embedding = f])
    <3>1. old.entity.boundary \in BOOLEAN /\ old.entity.embedding \in BOOLEAN
      BY <2>2 DEF J!Row
    <3>2. /\ (old.entity.boundary \/ old.kind = "boundary") \in BOOLEAN
          /\ (old.entity.embedding \/ old.kind = "embed") \in BOOLEAN
      BY <3>1
    <3>. QED
      BY <1>5, <3>2, Zenon DEF J!AiAnswer
  <2>4. PICK e : e = [old.entity EXCEPT !.boundary = b, !.embedding = f]
    OBVIOUS
  <2>5. e \in J!Row /\ e.chat = row.chat
    BY <2>2, <2>3, <2>4 DEF J!Row
  <2>6. PICK r : r = [old EXCEPT !.at = "select", !.entity = e]
    OBVIOUS
  <2>7. /\ r \in J!Calls /\ r.at = "select" /\ r.kind = old.kind /\ r.job = old.job
        /\ r.entity = e /\ r.live = old.live /\ r.chat = old.chat
    BY <1>1, <2>5, <2>6 DEF J!Calls
  <2>8. r = [old EXCEPT !.at = "select", !.entity.boundary = b, !.entity.embedding = f]
    BY <1>1, <2>2, <2>4, <2>6 DEF J!Calls
  <2>9. J!Sound(r) /\ NoOther(c, r)
    BY <1>1, <2>1, <2>2, <2>5, <2>7 DEF J!Sound, J!IsOf, NoOther
  <2>10. v2' = [v2 EXCEPT ![c] = r]
    BY <2>3, <2>7, <2>8 DEF J!Put
  <2>. QED
    BY <1>0, <1>1, <2>1, <2>7, <2>9, <2>10, JobCallGoesOn
<1>6. CASE J!Select(c)
  <2>1. old.at = "select" /\ J!Put(c, [old EXCEPT !.at = "update", !.seen = row])
    BY <1>6 DEF J!Select
  <2>2. old.job \in 1 .. Len(v1) /\ row \in J!Row /\ J!IsOf(old.entity, old.job) /\ old.kind # "chat"
    BY <1>1, <2>1 DEF J!Sound
  <2>3. PICK r : r = [old EXCEPT !.at = "update", !.seen = row]
    OBVIOUS
  <2>4. r \in J!Calls /\ r.at = "update" /\ r.kind = old.kind /\ r.job = old.job
        /\ r.entity = old.entity /\ r.seen = row /\ r.live = old.live /\ r.chat = old.chat
    BY <1>1, <2>2, <2>3 DEF J!Calls
  <2>5. J!Sound(r) /\ NoOther(c, r)
    BY <1>1, <2>2, <2>4 DEF J!Sound, J!IsOf, NoOther
  <2>6. v2' = [v2 EXCEPT ![c] = r]
    BY <2>1, <2>3, <2>4 DEF J!Put
  <2>. QED
    BY <1>0, <1>1, <2>2, <2>4, <2>5, <2>6, JobCallGoesOn
<1>7. CASE J!AiGivesUp(c)
  BY <1>2, <1>7 DEF J!AiGivesUp
<1>. QED
  BY <1>4, <1>5, <1>6, <1>7

\* What is saved is a row of the same chat.
LEMMA SavedIsRow ==
    ASSUME NEW current \in J!Row, NEW seen \in J!Row, NEW entity \in J!Row,
           seen.chat = current.chat, entity.chat = current.chat
    PROVE  /\ J!Saved(current, seen, entity) \in J!Row
           /\ J!Saved(current, seen, entity).chat = current.chat
<1>1. DOMAIN entity = {"status", "boundary", "embedding", "chat"}
  BY DEF J!Row
<1>2. J!Saved(current, seen, entity) =
        [status |-> IF entity.status = seen.status THEN current.status ELSE entity.status,
         boundary |-> IF entity.boundary = seen.boundary THEN current.boundary ELSE entity.boundary,
         embedding |-> IF entity.embedding = seen.embedding THEN current.embedding ELSE entity.embedding,
         chat |-> current.chat]
  BY <1>1 DEF J!Saved
<1>3. PICK s, b, e : J!Saved(current, seen, entity)
                        = [status |-> s, boundary |-> b, embedding |-> e, chat |-> current.chat]
                     /\ s \in {current.status, entity.status}
                     /\ b \in {current.boundary, entity.boundary}
                     /\ e \in {current.embedding, entity.embedding}
  BY <1>2
<1>. QED
  BY <1>3 DEF J!Row

\* The entity is saved; publishing goes on with the embedding.
LEMMA UpdateKeeps ==
    ASSUME J!OneJobInv, NEW c \in Call, J!Update(c)
    PROVE  J!OneJobInv'
<1> DEFINE old == v2[c]
<1>1. old \in J!Calls /\ J!Sound(old) /\ old.at = "update" /\ UNCHANGED <<v3, v4, v5, v8>>
      /\ v1 \in Seq(J!Row) /\ Len(v1) \in Nat
  BY DEF J!OneJobInv, J!TypeOK, J!Update
<1>2. old.kind # "chat"
  BY <1>1 DEF J!Sound
<1>3. PICK j \in 1 .. Len(v1) : j = old.job
  BY <1>1, <1>2 DEF J!Sound
<1>4. /\ v1[j] \in J!Row
      /\ old.entity \in J!Row /\ old.entity.chat = v1[j].chat
      /\ old.seen \in J!Row /\ old.seen.chat = v1[j].chat
  BY <1>1, <1>2, <1>3 DEF J!Sound, J!IsOf
<1>5. PICK row : row = J!Saved(v1[j], old.seen, old.entity)
  OBVIOUS
<1>6. row \in J!Row /\ row.chat = v1[j].chat
  BY <1>4, <1>5, SavedIsRow
<1>7. v1' = [v1 EXCEPT ![j] = row]
  BY <1>3, <1>5 DEF J!Update
<1>8. v1' \in Seq(J!Row) /\ Len(v1') = Len(v1) /\ \A i \in 1 .. Len(v1) : v1'[i].chat = v1[i].chat
  BY <1>1, <1>6, <1>7
<1>9. J!KeptIsMade'
  <2>1. \A d \in Call : v2[d].at = "answer" => v2'[d] = v2[d]
    BY <1>1 DEF J!Update, J!Put, J!OneJobInv, J!TypeOK
  <2>. QED
    BY <1>1, <1>8, <2>1, KeptGoesOn
<1>10. PICK r : r = J!AfterUpdate(c)
  OBVIOUS
<1>11. /\ r \in J!Calls /\ J!Sound(r) /\ ~r.live /\ r.at # "answer"
       /\ v2' = [v2 EXCEPT ![c] = r]
  <2>1. CASE old.kind = "publish"
    <3>1. r = [old EXCEPT !.kind = "embed", !.at = "ai", !.live = FALSE, !.read = old.entity]
      BY <1>10, <2>1 DEF J!AfterUpdate
    <3>2. /\ r \in J!Calls /\ r.kind = "embed" /\ r.at = "ai" /\ r.job = old.job
          /\ r.entity = old.entity /\ ~r.live
      BY <1>1, <1>4, <3>1 DEF J!Calls
    <3>3. J!Sound(r)
      BY <1>3, <1>4, <3>2 DEF J!Sound, J!IsOf
    <3>. QED
      BY <1>10, <3>2, <3>3 DEF J!Update, J!Put
  <2>2. CASE old.kind # "publish"
    <3>1. r = J!Idle
      BY <1>10, <2>2 DEF J!AfterUpdate
    <3>. QED
      BY <1>10, <3>1, IdleJobCall DEF J!Update, J!Put
  <2>. QED
    BY <2>1, <2>2
<1>12. J!Sound(r)' /\ NoOther(c, r)
  BY <1>8, <1>11 DEF J!Sound, J!IsOf, NoOther
<1>13. v4' \in [Chat -> Nat]
  BY <1>1 DEF J!OneJobInv, J!TypeOK
<1>14. /\ Len(v1) <= Len(v1') /\ v3' = v3 /\ v5' \subseteq v5 /\ v4' = v4
       /\ v8' = v8 /\ v8' \subseteq 1 .. Len(v1')
  BY <1>1, <1>8 DEF J!OneJobInv
<1>. QED
  BY <1>8, <1>9, <1>11, <1>12, <1>13, <1>14, JobsGoOn

\* The startup's backfill takes up a job.
LEMMA BackfillKeeps ==
    ASSUME J!OneJobInv, NEW c \in Call, J!Backfill(c)
    PROVE  J!OneJobInv'
<1>1. PICK m \in v5 :
        /\ v5' = v5 \ {m} /\ UNCHANGED <<v1, v3, v4, v8>>
        /\ J!Put(c, [J!Idle EXCEPT !.kind = "embed", !.at = "ai", !.chat = "backfill",
                                   !.job = m.job, !.read = m.row, !.entity = m.row])
  BY DEF J!Backfill
<1>2. m.job \in Nat /\ m.row \in J!Row /\ J!IsOf(m.row, m.job)
  BY DEF J!OneJobInv, J!TypeOK
<1>3. PICK r : r = [J!Idle EXCEPT !.kind = "embed", !.at = "ai", !.chat = "backfill",
                                  !.job = m.job, !.read = m.row, !.entity = m.row]
  OBVIOUS
<1>4. /\ r \in J!Calls /\ r.kind = "embed" /\ r.at = "ai" /\ r.job = m.job
      /\ r.entity = m.row /\ ~r.live
  BY <1>2, <1>3, IdleJobCall DEF J!Calls
<1>5. J!Sound(r) /\ NoOther(c, r) /\ v2[c].at # "answer"
  BY <1>2, <1>4 DEF J!Sound, J!IsOf, NoOther, J!Backfill
<1>6. v2' = [v2 EXCEPT ![c] = r]
  BY <1>1, <1>3, <1>4 DEF J!Put
<1>. QED
  BY <1>1, <1>4, <1>5, <1>6, JobCallGoesOn

\* The component is left: what is awaited is lost.
LEMMA ShowKeeps ==
    ASSUME J!OneJobInv, NEW v \in Chat \cup {"form"}, J!Show(v)
    PROVE  J!OneJobInv'
<1>1. /\ v3' = v /\ UNCHANGED <<v1, v4, v5>>
      /\ v8' = v8 \cup J!OnTheWay(Call)
      /\ v2' = [c \in Call |-> J!Unawaited(c)]
  BY DEF J!Show
<1>2. ASSUME NEW c \in Call
      PROVE  /\ v2'[c] \in J!Calls /\ J!Sound(v2[c])'
             /\ ~v2'[c].live
  <2>1. PICK r : r = v2'[c]
    OBVIOUS
  <2>2. r \in J!Calls /\ J!Sound(r) /\ r.at # "answer" /\ ~r.live
    BY <1>1, <2>1, UnawaitedCall
  <2>3. J!Sound(r)'
    BY <1>1, <2>2 DEF J!Sound, J!IsOf
  <2>. QED
    BY <2>1, <2>2, <2>3 DEF J!Sound, J!IsOf
<1>3. J!OneAnswerAwaited'
  BY <1>2 DEF J!OneAnswerAwaited
<1>4. J!KeptIsMade' /\ v8' \subseteq 1 .. Len(v1')
  <2>1. Call \in SUBSET Call
    OBVIOUS
  <2>. QED
    BY <1>1, <2>1, AnswersLost
<1>5. \A m \in v5' : J!IsOf(m.row, m.job)'
  BY <1>1 DEF J!OneJobInv, J!IsOf
<1>6. J!TypeOK'
  BY <1>1, <1>2 DEF J!OneJobInv, J!TypeOK
<1>. QED
  BY <1>2, <1>3, <1>4, <1>5, <1>6 DEF J!OneJobInv

\* The server restarts: the calls are lost.
LEMMA RestartKeeps ==
    ASSUME J!OneJobInv, J!Restart
    PROVE  J!OneJobInv'
<1>1. /\ UNCHANGED <<v1, v3, v4>> /\ v8' = v8 \cup J!OnTheWay(Call)
      /\ v2' = [c \in Call |-> J!Idle]
      /\ v5' = {[job |-> j, row |-> v1[j]] : j \in J!Unembedded}
  BY DEF J!Restart
<1>2. v1 \in Seq(J!Row) /\ J!Unembedded \subseteq 1 .. Len(v1) /\ Len(v1) \in Nat
  BY DEF J!OneJobInv, J!TypeOK, J!Unembedded
<1>3. ASSUME NEW m \in v5' PROVE m \in [job : Nat, row : J!Row] /\ J!IsOf(m.row, m.job)'
  <2>1. PICK j \in J!Unembedded : m = [job |-> j, row |-> v1[j]]
    BY <1>1, <1>3
  <2>2. j \in 1 .. Len(v1) /\ v1[j] \in J!Row
    BY <1>2
  <2>. QED
    BY <1>1, <2>1, <2>2 DEF J!IsOf
<1>4. \A c \in Call : J!Sound(v2[c])'
  BY <1>1 DEF J!Sound, J!Idle
<1>5. J!OneAnswerAwaited'
  BY <1>1 DEF J!OneAnswerAwaited, J!Idle
<1>6. J!KeptIsMade' /\ v8' \subseteq 1 .. Len(v1')
  <2>1. Call \in SUBSET Call
    OBVIOUS
  <2>. QED
    BY <1>1, <2>1, AnswersLost
<1>7. J!TypeOK'
  BY <1>1, <1>3, IdleJobCall DEF J!OneJobInv, J!TypeOK
<1>. QED
  BY <1>3, <1>4, <1>5, <1>6, <1>7 DEF J!OneJobInv

\* Every step keeps the invariant.
LEMMA JobsStep ==
    ASSUME J!OneJobInv, J!Next \/ UNCHANGED vars
    PROVE  J!OneJobInv'
<1>1. CASE UNCHANGED vars
  BY <1>1 DEF vars, J!OneJobInv, J!TypeOK, J!Sound, J!IsOf, J!OneAnswerAwaited, J!KeptIsMade,
              J!Told
<1>2. ASSUME NEW c \in Call, J!Work(c) PROVE J!OneJobInv'
  BY <1>2, QuestionKeeps, MakeDraftKeeps, ChatAnswerKeeps, ServiceKeeps, UpdateKeeps,
     BackfillKeeps DEF J!Work
<1>3. CASE J!Next
  BY <1>2, <1>3, ShowKeeps, SendKeeps, JobRequests, SubmitKeeps, LoseKeeps,
     RestartKeeps DEF J!Next
<1>. QED
  BY <1>1, <1>3

\* The two modules' cardinality is the same one.
LEMMA JobsCardinality == \A X : J!Cardinality(X) = Cardinality(X)
BY DEF J!Cardinality, Cardinality

\* The inductive invariant, of the behaviours of this component.
JobsHold == part = "jobs" => J!OneJobInv

\* Whatever is lost, left or resent: a chat makes no second job unless the answer
\* about the first came to no page, and a page that waits for nothing keeps the
\* job it was told of (handleSend, chatCreateJob).
THEOREM ChatMakesOneJob == Spec => []OneJobPerChat
<1>1. Initially => JobsHold
  <2>. SUFFICES ASSUME J!Init PROVE J!OneJobInv
    BY DEF Initially, Init, JobsHold
  <2>1. v1 \in Seq(J!Row) /\ Len(v1) = 0
    BY DEF J!Init
  <2>2. J!TypeOK
    BY <2>1, IdleJobCall DEF J!Init, J!TypeOK
  <2>3. J!KeptIsMade /\ J!OneAnswerAwaited
    BY <2>1, IdleJobCall DEF J!Init, J!KeptIsMade, J!OneAnswerAwaited
  <2>. QED
    BY <2>2, <2>3, IdleJobCall DEF J!Init, J!OneJobInv
<1>2. JobsHold /\ [Next]_vars => JobsHold'
  <2>. SUFFICES ASSUME JobsHold, [Next]_vars, part' = "jobs" PROVE J!OneJobInv'
    BY DEF JobsHold
  <2>1. part = "jobs" /\ (J!Next \/ UNCHANGED vars)
    BY DEF Next, vars
  <2>. QED
    BY <2>1, JobsStep DEF JobsHold
<1>3. JobsHold => OneJobPerChat
  <2> DEFINE told(h) == {j \in DOMAIN v1 : v1[j].chat = h} \ v8
  <2>. SUFFICES ASSUME J!OneJobInv, NEW h \in Chat
               PROVE  /\ J!Cardinality(told(h)) <= 1
                      /\ ~J!Waiting(h) => told(h) = {v4[h]} \ {0}
    BY DEF JobsHold, OneJobPerChat, J!OneJobPerChat
  <2>1. DOMAIN v1 = 1 .. Len(v1) /\ Len(v1) \in Nat
    BY DEF J!OneJobInv, J!TypeOK
  <2>2. /\ v4[h] \in 0 .. Len(v1)
        /\ v4[h] # 0 => v1[v4[h]].chat = h /\ v4[h] \notin v8
        /\ \A j \in (1 .. Len(v1)) \ v8 : v1[j].chat = h => v4[h] = j \/ J!Told(h, j)
    BY DEF J!OneJobInv, J!KeptIsMade
  <2>3. \A c \in Call : v2[c].at = "answer" /\ v2[c].chat = h => v2[c].live /\ v4[h] = 0
    BY DEF J!OneJobInv, J!Sound
  <2>4. \A i, j \in told(h) : i = j
    <3>1. \A i, j : J!Told(h, i) /\ J!Told(h, j) => i = j
      BY <2>3 DEF J!Told, J!OneJobInv, J!OneAnswerAwaited
    <3>2. \A i : J!Told(h, i) => v4[h] = 0
      BY <2>3 DEF J!Told
    <3>3. \A j \in told(h) : j # 0 /\ (v4[h] = j \/ J!Told(h, j))
      BY <2>1, <2>2
    <3>. QED
      BY <3>1, <3>2, <3>3
  <2>5. Cardinality(told(h)) <= 1
    <3>1. CASE told(h) = {}
      BY <3>1, FS_EmptySet
    <3>2. CASE told(h) # {}
      <4>1. PICK j : told(h) = {j}
        BY <2>4, <3>2
      <4>. QED
        <5>1. Cardinality({j}) = 1
          BY FS_Singleton
        <5>. QED
          BY <4>1, <5>1
    <3>. QED
      BY <3>1, <3>2
  <2>6. ASSUME ~J!Waiting(h) PROVE told(h) = {v4[h]} \ {0}
    <3>1. \A j : ~J!Told(h, j)
      BY <2>3, <2>6 DEF J!Told, J!Waiting
    <3>2. told(h) \subseteq {v4[h]} \ {0}
      BY <2>1, <2>2, <3>1
    <3>3. v4[h] # 0 => v4[h] \in told(h)
      BY <2>1, <2>2
    <3>. QED
      BY <3>2, <3>3
  <2>. QED
    BY <2>5, <2>6, JobsCardinality
<1>. QED
  BY <1>1, <1>2, <1>3, PTL DEF Spec

-----------------------------------------------------------------------------
\* The data sources (DataSource).

\* What holds of an ask.
SoundAsk(r) ==
    /\ D!IsAsk(r) /\ r.of \in D!Provider
    /\ r.of = "GITHUB" => r.kind \notin {"mock", "upload", "edit"}
    /\ r.at = "save" => r.kind \notin D!Data
    /\ r.read # Null => D!IsRow(r.read)
    /\ \/ r.at \in {"fetch", "both", "analyse"}
       \/ r.at = "save" /\ r.kind \notin {"mock", "connect", "upload"}
       => r.read # Null
    /\ r.at \in {"fetch", "both", "analyse"} => r.read.status # "DISCONNECTED"

\* The stored rows are well formed.
RowsAreRows ==
    /\ v1 = [p \in D!Provider |-> v1[p]]
    /\ \A p \in D!Provider : v1[p] # Null => D!IsRow(v1[p])
AsksAre(asks) == asks = [a \in Call |-> asks[a]] /\ \A a \in Call : SoundAsk(asks[a])

\* The invariant is made of these and of the property.
LEMMA CacheInvParts ==
    D!CacheInv <=> RowsAreRows /\ AsksAre(v2) /\ D!CacheIsOfSelection
BY DEF D!CacheInv, D!TypeOK, D!AsksAreSound, RowsAreRows, AsksAre, SoundAsk

\* A step of one ask leaves the others.
LEMMA OneAskGoesOn ==
    ASSUME AsksAre(v2), NEW a \in Call, NEW r, SoundAsk(r), v2' = [v2 EXCEPT ![a] = r]
    PROVE  AsksAre(v2')
BY DEF AsksAre

\* An ask that is idle is sound.
LEMMA IdleIsSound == SoundAsk(D!Idle)
BY DEF SoundAsk, D!IsAsk, D!Idle, D!Provider

\* The rows and the asks after a step that leaves the rows alone.
LEMMA RowsStay ==
    ASSUME D!CacheInv, AsksAre(v2'), v1' = v1, v9' = v9
    PROVE  D!CacheInv'
<1>1. RowsAreRows' /\ D!CacheIsOfSelection' /\ AsksAre(v2)'
  BY CacheInvParts DEF RowsAreRows, D!CacheIsOfSelection, AsksAre
<1>. QED
  BY <1>1, CacheInvParts, PTL

\* A step of one ask that writes nothing.
LEMMA AskGoesOn ==
    ASSUME D!CacheInv, NEW a \in Call, NEW r, SoundAsk(r), v2' = [v2 EXCEPT ![a] = r],
           v1' = v1, v9' = v9
    PROVE  D!CacheInv'
BY OneAskGoesOn, RowsStay, CacheInvParts

\* A save: what it writes is what was read, or has no analysis of anything else.
LEMMA SaveKeeps ==
    ASSUME D!CacheInv, NEW a \in Call, NEW row, D!Save(a, row), AsksAre(v2'),
           row # Null => D!IsRow(row),
           v2[a].of = "GITHUB" =>
              row = Null \/ D!CacheFits(row) \/ row = v2[a].read
    PROVE  D!CacheInv'
<1>1. PICK p \in D!Provider : p = v2[a].of
  BY CacheInvParts DEF AsksAre, SoundAsk
<1>2. /\ v1' = [v1 EXCEPT ![p] = row]
      /\ v9' = IF v1[p] # v2[a].read THEN v9 \cup {p} ELSE v9
  BY <1>1 DEF D!Save
<1>3. RowsAreRows /\ D!CacheIsOfSelection
  BY CacheInvParts
<1>4. v1' = [q \in D!Provider |-> v1'[q]] /\ v1'[p] = row
      /\ \A q \in D!Provider : q # p => v1'[q] = v1[q]
  BY <1>2, <1>3 DEF RowsAreRows
<1>5. RowsAreRows'
  BY <1>3, <1>4 DEF RowsAreRows
<1>6. D!CacheIsOfSelection'
  <2>1. CASE p # "GITHUB"
    <3>1. "GITHUB" \in D!Provider
      BY DEF D!Provider
    <3>2. v1'["GITHUB"] = v1["GITHUB"] /\ ("GITHUB" \in v9 => "GITHUB" \in v9')
      BY <1>2, <1>4, <2>1, <3>1
    <3>. QED
      BY <1>3, <3>2 DEF D!CacheIsOfSelection
  <2>2. CASE p = "GITHUB" /\ v1[p] # v2[a].read
    BY <1>2, <2>2 DEF D!CacheIsOfSelection
  <2>3. CASE p = "GITHUB" /\ v1[p] = v2[a].read /\ row = v2[a].read
    <3>1. v1'["GITHUB"] = v1["GITHUB"] /\ v9' = v9
      BY <1>2, <1>4, <2>3
    <3>. QED
      BY <1>3, <3>1 DEF D!CacheIsOfSelection
  <2>4. CASE p = "GITHUB" /\ (row = Null \/ D!CacheFits(row))
    BY <1>4, <2>4 DEF D!CacheIsOfSelection
  <2>. QED
    BY <1>1, <2>1, <2>2, <2>3, <2>4
<1>7. AsksAre(v2)'
  BY DEF AsksAre
<1>. QED
  BY <1>5, <1>6, <1>7, CacheInvParts, PTL

\* The page asks.
LEMMA RequestsKeep ==
    ASSUME D!CacheInv, NEW a \in Call,
           NEW kind, NEW p \in D!Provider, NEW arg, D!Request(a, kind, p, arg),
           p = "GITHUB" => kind \notin {"mock", "upload", "edit"}
    PROVE  D!CacheInv'
<1>1. PICK r : r = [D!Idle EXCEPT !.at = "read", !.kind = kind, !.of = p, !.arg = arg]
  OBVIOUS
<1>2. r = [at |-> "read", kind |-> kind, of |-> p, arg |-> arg, read |-> Null]
  BY <1>1 DEF D!Idle
<1>3. SoundAsk(r)
  BY <1>2 DEF SoundAsk, D!IsAsk
<1>. QED
  BY <1>1, <1>3, AskGoesOn DEF D!Request, D!Put

\* The steps of the page and the popup.
LEMMA SourcePageKeeps ==
    ASSUME D!CacheInv,
           \/ \E p \in D!Provider : D!OpenDialog(p)
           \/ D!CloseDialog \/ D!Login \/ D!LoadFails \/ D!TryAgain \/ D!ClosePopup \/ D!HandleMessage
           \/ D!CheckPopupClosed \/ D!Confirm
           \/ \E a \in Call, p \in D!Provider :
                D!Disconnect(a, p) \/ D!ViewDetails(a, p) \/ D!Resync(a, p)
           \/ \E a \in Call, d \in Document : D!Upload(a, d) \/ D!EditPdf(a, d)
           \/ \E a \in Call, c \in Choice : D!SaveRepos(a, c)
           \/ \E a \in Call : D!Callback(a) \/ D!ConnectFixture(a)
    PROVE  D!CacheInv'
<1>1. \/ UNCHANGED <<v1, v2, v9>>
      \/ \E a \in Call, p \in D!Provider :
           \E kind \in {"disconnect", "detail", "resync"} : D!Request(a, kind, p, Null)
      \/ \E a \in Call, d \in Document :
           \E kind \in {"upload", "edit"} : D!Request(a, kind, "PDF", d)
      \/ \E a \in Call, c \in Choice : D!Request(a, "select", "GITHUB", c)
      \/ \E a \in Call : D!Request(a, "connect", "GITHUB", Null)
      \/ \E a \in Call : D!Request(a, "mock", "SLACK", Null)
  BY DEF D!OpenDialog, D!CloseDialog, D!Login, D!LoadFails, D!TryAgain, D!ClosePopup, D!HandleMessage, D!OnlyDialog,
         D!CheckPopupClosed, D!Confirm, D!Disconnect, D!ViewDetails, D!Resync, D!Upload,
         D!EditPdf, D!SaveRepos, D!Callback, D!ConnectFixture
<1>2. CASE UNCHANGED <<v1, v2, v9>>
  BY <1>2, RowsStay, CacheInvParts
<1>3. {"PDF", "GITHUB", "SLACK"} \subseteq D!Provider
  BY DEF D!Provider
<1>. QED
  BY <1>1, <1>2, <1>3, RequestsKeep

\* The server reads the connection, and refuses what needs one.
LEMMA SourceReads ==
    ASSUME D!CacheInv, NEW a \in Call, D!Read(a)
    PROVE  D!CacheInv'
<1>1. SoundAsk(v2[a]) /\ RowsAreRows
  BY CacheInvParts DEF AsksAre
<1>2. PICK row : row = v1[v2[a].of]
  OBVIOUS
<1>3. row # Null => D!IsRow(row)
  BY <1>1, <1>2 DEF SoundAsk, RowsAreRows
<1>4. /\ row = Null => v2[a].kind \in {"mock", "connect", "upload"}
      /\ row # Null /\ v2[a].kind \in D!Data => row.status # "DISCONNECTED"
  BY <1>2 DEF D!Read, D!Refused
<1>5. PICK at : at = IF v2[a].kind \in D!Data THEN "fetch" ELSE "save"
  OBVIOUS
<1>6. PICK r : r = [v2[a] EXCEPT !.read = row, !.at = at]
  OBVIOUS
<1>7. r = [at |-> at, kind |-> v2[a].kind, of |-> v2[a].of, arg |-> v2[a].arg, read |-> row]
  BY <1>1, <1>6 DEF SoundAsk, D!IsAsk
<1>8. SoundAsk(r)
  BY <1>1, <1>3, <1>4, <1>5, <1>7 DEF SoundAsk, D!IsAsk, D!Data
<1>. QED
  BY <1>2, <1>5, <1>6, <1>8, AskGoesOn DEF D!Read, D!Put, D!KeepPage

\* An ask that is over, or whose answer is ready.
LEMMA AtIsSound ==
    ASSUME NEW r, SoundAsk(r), NEW at,
           at = "answer" \/ (at \in {"both", "analyse"} /\ r.at = "fetch")
    PROVE  SoundAsk([r EXCEPT !.at = at])
<1>1. PICK s : s = [r EXCEPT !.at = at]
  OBVIOUS
<1>2. s = [at |-> at, kind |-> r.kind, of |-> r.of, arg |-> r.arg, read |-> r.read]
  BY <1>1 DEF SoundAsk, D!IsAsk
<1>3. SoundAsk(s)
  BY <1>2 DEF SoundAsk, D!IsAsk
<1>. QED
  BY <1>1, <1>3

\* What is written is a row.
LEMMA RowIsRow ==
    \A status, repos, content :
        LET row == D!Row(status, repos, content)
        IN  D!IsRow(row) /\ row.status = status /\ row.content = content /\ row.repos = repos
<1>1. ASSUME NEW status, NEW repos, NEW content
      PROVE  \E x : D!Row(status, repos, content)
                      = [status |-> status, repos |-> repos, content |-> content, fresh |-> x]
  BY Zenon DEF D!Row
<1>. QED
  BY <1>1 DEF D!IsRow

\* The service saves.
LEMMA SourceWrites ==
    ASSUME D!CacheInv, NEW a \in Call, D!Write(a)
    PROVE  D!CacheInv'
<1>1. SoundAsk(v2[a]) /\ v2[a].at = "save"
  BY CacheInvParts DEF AsksAre, D!Write
<1>2. PICK row : row = D!Changed(a)
  OBVIOUS
<1>3. AsksAre(v2')
  BY <1>1, AtIsSound, OneAskGoesOn, CacheInvParts DEF D!Write, D!Goto, D!Put
<1> DEFINE kind == v2[a].kind
           read == v2[a].read
<1>4. (row # Null => D!IsRow(row))
      /\ \/ row = Null \/ D!CacheFits(row) \/ row = read
         \/ v2[a].of # "GITHUB"
  <2>1. CASE kind = "mock"
    <3>1. row = IF read = Null THEN D!Row("MOCK", D!All, Null) ELSE read
      BY <1>2, <2>1 DEF D!Changed
    <3>. QED
      BY <1>1, <3>1, RowIsRow DEF SoundAsk, D!CacheFits
  <2>2. CASE kind = "connect"
    <3>1. PICK repos : row = D!Row("CONNECTED", repos, Null)
      BY <1>2, <2>2 DEF D!Changed
    <3>. QED
      BY <3>1, RowIsRow DEF D!CacheFits
  <2>3. CASE kind = "select"
    <3>1. row = [read EXCEPT !.repos = v2[a].arg, !.status = "CONNECTED", !.content = Null, !.fresh = FALSE]
      BY <1>2, <2>3 DEF D!Changed, D!Reselected
    <3>2. D!IsRow(read)
      BY <1>1, <2>3 DEF SoundAsk
    <3>3. row = [status |-> "CONNECTED", repos |-> v2[a].arg, content |-> Null, fresh |-> FALSE]
      BY <3>1, <3>2 DEF D!IsRow
    <3>. QED
      BY <3>3 DEF D!IsRow, D!CacheFits
  <2>4. CASE kind \in {"upload", "edit"}
    <3>1. row = D!Row("CONNECTED", D!All, v2[a].arg)
      BY <1>2, <2>4 DEF D!Changed
    <3>2. v2[a].of # "GITHUB"
      BY <1>1, <2>4 DEF SoundAsk
    <3>. QED
      BY <3>1, <3>2, RowIsRow
  <2>5. CASE kind \notin {"mock", "connect", "select", "upload", "edit"}
    <3>1. row = IF v2[a].of = "GITHUB" THEN D!Row("DISCONNECTED", read.repos, Null) ELSE Null
      BY <1>2, <2>5 DEF D!Changed
    <3>. QED
      BY <3>1, RowIsRow DEF D!CacheFits
  <2>. QED
    BY <2>1, <2>2, <2>3, <2>4, <2>5
<1>5. D!Save(a, row)
  BY <1>2 DEF D!Write
<1> HIDE DEF kind, read
<1>6. row # Null => D!IsRow(row)
  BY <1>4
<1>7. v2[a].of = "GITHUB" => row = Null \/ D!CacheFits(row) \/ row = v2[a].read
  BY <1>4 DEF read
<1>. QED
  BY <1>3, <1>5, <1>6, <1>7, SaveKeeps

\* Saved as synced, with what was read.
LEMMA SourceFetches ==
    ASSUME D!CacheInv, NEW a \in Call, D!Fetch(a)
    PROVE  D!CacheInv'
<1>1. SoundAsk(v2[a]) /\ v2[a].at = "fetch" /\ v2[a].read # Null /\ D!IsRow(v2[a].read)
  BY CacheInvParts DEF AsksAre, D!Fetch, SoundAsk
<1>2. PICK at \in {"answer", "both", "analyse"} : v2' = [v2 EXCEPT ![a] = [v2[a] EXCEPT !.at = at]]
  BY DEF D!Fetch, D!Goto, D!Put
<1>3. SoundAsk([v2[a] EXCEPT !.at = at])
  BY <1>1, <1>2, AtIsSound
<1>4. AsksAre(v2')
  BY <1>2, <1>3, OneAskGoesOn, CacheInvParts
<1>5. CASE D!Save(a, v2[a].read)
  BY <1>1, <1>4, <1>5, SaveKeeps
<1>6. CASE UNCHANGED <<v1, v9>>
  BY <1>4, <1>6, RowsStay
<1>. QED
  BY <1>5, <1>6 DEF D!Fetch

\* The AI answers with an analysis.
LEMMA SourceAnalyses ==
    ASSUME D!CacheInv, NEW a \in Call, D!Analyse(a)
    PROVE  D!CacheInv'
<1>1. SoundAsk(v2[a]) /\ v2[a].at = "analyse" /\ v2[a].read # Null /\ D!IsRow(v2[a].read)
  BY CacheInvParts DEF AsksAre, D!Analyse, SoundAsk
<1>2. PICK row : row = [v2[a].read EXCEPT !.content = D!Fetched(v2[a].read, v2[a].of), !.fresh = TRUE]
  OBVIOUS
<1>3. /\ D!IsRow(row) /\ row.content = D!Fetched(v2[a].read, v2[a].of)
      /\ row.repos = v2[a].read.repos /\ row.status # "DISCONNECTED"
  BY <1>1, <1>2 DEF D!IsRow, SoundAsk
<1>4. v2[a].of = "GITHUB" => D!CacheFits(row)
  BY <1>3 DEF D!Fetched, D!CacheFits
<1>5. AsksAre(v2')
  <2>1. \/ v2' = [v2 EXCEPT ![a] = D!Idle]
        \/ v2' = [v2 EXCEPT ![a] = [v2[a] EXCEPT !.at = "answer"]]
    BY DEF D!Analyse, D!Goto, D!Put
  <2>. QED
    BY <1>1, <2>1, AtIsSound, IdleIsSound, OneAskGoesOn, CacheInvParts
<1>6. CASE D!Save(a, row)
  BY <1>3, <1>4, <1>5, <1>6, SaveKeeps
<1>7. CASE UNCHANGED <<v1, v9>>
  BY <1>5, <1>7, RowsStay
<1>. QED
  BY <1>2, <1>6, <1>7 DEF D!Analyse

\* The answers and the errors that reach the page.
LEMMA SourceAnswers ==
    ASSUME D!CacheInv, NEW a \in Call, D!Background(a) \/ D!Answer(a) \/ D!Throw(a)
    PROVE  D!CacheInv'
<1>1. SoundAsk(v2[a])
  BY CacheInvParts DEF AsksAre
<1>2. CASE v2' = [v2 EXCEPT ![a] = D!Idle] /\ v1' = v1 /\ v9' = v9
  BY <1>2, IdleIsSound, AskGoesOn
<1>3. CASE D!Background(a)
  <2>1. PICK b \in Call :
          /\ v2[a].at = "both" /\ v2[b] = D!Idle
          /\ v2' = [v2 EXCEPT ![b] = [v2[a] EXCEPT !.kind = "background", !.at = "analyse"],
                              ![a].at = "answer"]
    BY <1>3 DEF D!Background
  <2>2. b # a
    BY <2>1 DEF D!Idle
  <2>3. PICK r : r = [v2[a] EXCEPT !.kind = "background", !.at = "analyse"]
    OBVIOUS
  <2>4. r = [at |-> "analyse", kind |-> "background", of |-> v2[a].of, arg |-> v2[a].arg,
             read |-> v2[a].read]
    BY <1>1, <2>3 DEF SoundAsk, D!IsAsk
  <2>5. SoundAsk(r)
    BY <1>1, <2>1, <2>4 DEF SoundAsk, D!IsAsk
  <2>6. PICK s : s = [v2[a] EXCEPT !.at = "answer"]
    OBVIOUS
  <2>7. SoundAsk(s)
    BY <1>1, <2>6, AtIsSound
  <2>8. v2 = [d \in Call |-> v2[d]] /\ \A d \in Call : SoundAsk(v2[d])
    BY CacheInvParts DEF AsksAre
  <2>9. v2' = [d \in Call |-> IF d = a THEN s ELSE IF d = b THEN r ELSE v2[d]]
    BY <2>1, <2>2, <2>3, <2>6, <2>8
  <2>10. AsksAre(v2')
    BY <2>5, <2>7, <2>8, <2>9 DEF AsksAre
  <2>11. v1' = v1 /\ v9' = v9
    BY <1>3 DEF D!Background
  <2>. QED
    BY <2>10, <2>11, RowsStay
<1>. QED
  BY <1>2, <1>3 DEF D!Answer, D!Throw, D!Put

\* The cached list of repositories expires.
LEMMA SourceCacheExpires ==
    ASSUME D!CacheInv, NEW p \in D!Provider, D!CacheExpires(p)
    PROVE  D!CacheInv'
<1>1. RowsAreRows /\ D!CacheIsOfSelection
  BY CacheInvParts
<1>2. v1[p] # Null /\ D!IsRow(v1[p]) /\ v1' = [v1 EXCEPT ![p] = [v1[p] EXCEPT !.fresh = FALSE]]
      /\ v2' = v2 /\ v9' = v9
  BY <1>1 DEF D!CacheExpires, RowsAreRows
<1>3. PICK row : row = [v1[p] EXCEPT !.fresh = FALSE]
  OBVIOUS
<1>4. /\ D!IsRow(row) /\ row.content = v1[p].content /\ row.repos = v1[p].repos
      /\ row.status = v1[p].status
  BY <1>2, <1>3 DEF D!IsRow
<1>5. v1' = [q \in D!Provider |-> v1'[q]] /\ v1'[p] = row
      /\ \A q \in D!Provider : q # p => v1'[q] = v1[q]
  BY <1>1, <1>2, <1>3 DEF RowsAreRows
<1>6. RowsAreRows'
  BY <1>1, <1>4, <1>5 DEF RowsAreRows
<1>7. D!CacheIsOfSelection'
  <2>1. "GITHUB" \in D!Provider
    BY DEF D!Provider
  <2>2. CASE p = "GITHUB"
    BY <1>1, <1>2, <1>4, <1>5, <2>2 DEF D!CacheIsOfSelection, D!CacheFits
  <2>3. CASE p # "GITHUB"
    BY <1>1, <1>2, <1>5, <2>1, <2>3 DEF D!CacheIsOfSelection
  <2>. QED
    BY <2>2, <2>3
<1>8. AsksAre(v2)'
  BY <1>2, CacheInvParts DEF AsksAre
<1>. QED
  BY <1>6, <1>7, <1>8, CacheInvParts, PTL

\* Every step keeps the invariant.
LEMMA SourcesStep ==
    ASSUME D!CacheInv, D!Next \/ UNCHANGED vars
    PROVE  D!CacheInv'
<1>1. CASE UNCHANGED vars
  <2>1. v1' = v1 /\ v2' = v2 /\ v9' = v9
    BY <1>1 DEF vars
  <2>. QED
    BY <2>1, RowsStay, CacheInvParts
<1>2. ASSUME NEW a \in Call, D!Work(a) PROVE D!CacheInv'
  BY <1>2, SourceReads, SourceWrites, SourceFetches, SourceAnalyses, SourceAnswers DEF D!Work
<1>3. CASE D!Next
  BY <1>2, <1>3, SourcePageKeeps, SourceCacheExpires DEF D!Next
<1>. QED
  BY <1>1, <1>3

\* The inductive invariant, of the behaviours of this component.
CacheHolds == part = "sources" => D!CacheInv

\* A cached analysis is one of the selected repositories, however selecting,
\* analysing and disconnecting interleave (datasource.service.ts).
THEOREM CachedAnalysisIsOfSelection == Spec => []CacheIsOfSelection
<1>1. Initially => CacheHolds
  <2>. SUFFICES ASSUME D!Init PROVE D!CacheInv
    BY DEF Initially, Init, CacheHolds
  <2>1. AsksAre(v2)
    BY IdleIsSound DEF D!Init, AsksAre
  <2>2. RowsAreRows /\ D!CacheIsOfSelection
    BY DEF D!Init, RowsAreRows, D!CacheIsOfSelection, D!Provider
  <2>. QED
    BY <2>1, <2>2, CacheInvParts
<1>2. CacheHolds /\ [Next]_vars => CacheHolds'
  <2>. SUFFICES ASSUME CacheHolds, [Next]_vars, part' = "sources" PROVE D!CacheInv'
    BY DEF CacheHolds
  <2>1. part = "sources" /\ (D!Next \/ UNCHANGED vars)
    BY DEF Next, vars
  <2>. QED
    BY <2>1, SourcesStep DEF CacheHolds
<1>3. CacheHolds => CacheIsOfSelection
  BY DEF CacheHolds, CacheIsOfSelection, D!CacheInv
<1>. QED
  BY <1>1, <1>2, <1>3, PTL DEF Spec

-----------------------------------------------------------------------------
\* The settings (Settings).

\* What the promise of the page is subject to.
Undisturbed == v10 = 0 /\ ~v12 /\ ~v11

\* One request goes on.
LEMMA OneSettingGoesOn ==
    ASSUME S!SettingsInv, NEW c \in Call, NEW r, v8' = [v8 EXCEPT ![c] = r],
           S!IsCall(r), S!InStep(r)
    PROVE  /\ v8' = [d \in Call |-> v8'[d]] /\ v8'[c] = r
           /\ \A d \in Call : d # c => v8'[d] = v8[d]
           /\ \A d \in Call : S!IsCall(v8'[d]) /\ S!InStep(v8'[d])
<1>1. v8 = [d \in Call |-> v8[d]] /\ \A d \in Call : S!IsCall(v8[d]) /\ S!InStep(v8[d])
  BY DEF S!SettingsInv, S!TypeOK, S!LoadsOnce
<1>2. v8' = [d \in Call |-> v8'[d]] /\ v8'[c] = r /\ \A d \in Call : d # c => v8'[d] = v8[d]
  BY <1>1
<1>. QED
  BY <1>1, <1>2

\* An idle request is one.
LEMMA IdleSetting ==
    /\ S!IsCall(S!Idle) /\ S!InStep(S!Idle)
    /\ S!Idle.kind = "none" /\ S!Idle.at = "idle" /\ S!Idle.edit = S!NoEdit
BY DEF S!IsCall, S!InStep, S!Idle, S!IsEdit

\* The primed facts about the row and the fields that do not change.
LEMMA ShownIs ==
    \A f : f \in v2 => S!Shown(v1)[f] = IF v1[f] = Null THEN S!DefaultOf[f] ELSE v1[f]
BY DEF S!Shown

\* A request goes on that saves what it saved, and answers the row.
LEMMA RequestGoesOn ==
    ASSUME S!SettingsInv, NEW c \in Call, NEW r, v8' = [v8 EXCEPT ![c] = r],
           S!IsCall(r), S!InStep(r), UNCHANGED <<v1, v2, v3, v4, v5, v10, v11, v12>>, v7' \in BOOLEAN,
           r.kind = "put" <=> v8[c].kind = "put",
           r.kind = "put" => r.edit = v8[c].edit,
           r.kind = "get" => v8[c].kind = "get",
           r.kind = "get" /\ r.at = "answer" => r.read = v1,
           r.kind = "put" /\ r.at \in {"select", "update"} /\ Undisturbed => r.read = v1,
           r.kind = "put" /\ r.at = "update" => r.seen = v1
    PROVE  S!SettingsInv'
<1>1. /\ v8' = [d \in Call |-> v8'[d]] /\ v8'[c] = r
      /\ \A d \in Call : d # c => v8'[d] = v8[d]
      /\ \A d \in Call : S!IsCall(v8'[d]) /\ S!InStep(v8'[d])
  BY OneSettingGoesOn
<1>2. S!TypeOK'
  BY <1>1 DEF S!SettingsInv, S!TypeOK
<1>3. S!LoadsOnce'
  BY <1>1 DEF S!SettingsInv, S!LoadsOnce
<1>4. ASSUME v10 = 0 /\ ~v12 /\ ~v11 PROVE S!OneSave' /\ S!LoadsTheRow' /\ S!ShowsTheChange'
  <2>1. S!OneSave /\ S!LoadsTheRow /\ S!ShowsTheChange
    BY <1>4 DEF S!SettingsInv
  <2>2. S!OneSave'
    BY <1>1, <1>4, <2>1 DEF S!OneSave, Undisturbed
  <2>3. \A f : S!Touched(f)' <=> S!Touched(f)
    BY <1>1 DEF S!Touched
  <2>4. S!LoadsTheRow'
    BY <1>1, <2>1, <2>3 DEF S!LoadsTheRow, S!NoEdit
  <2>5. S!Shown(v1)' = S!Shown(v1)
    BY DEF S!Shown
  <2>6. S!ShowsTheChange'
    BY <1>1, <2>1, <2>3, <2>5 DEF S!ShowsTheChange
  <2>. QED
    BY <2>2, <2>4, <2>6
<1>. QED
  BY <1>2, <1>3, <1>4 DEF S!SettingsInv

\* The page is opened: with nothing to save, or the change is dropped.
LEMMA OpenPageKeeps ==
    ASSUME S!SettingsInv, NEW c \in Call, S!OpenPage(c)
    PROVE  S!SettingsInv'
<1>1. PICK r : r = [S!Idle EXCEPT !.at = "read", !.kind = "get", !.edit = S!NoEdit]
  OBVIOUS
<1>2. S!IsCall(r) /\ S!InStep(r) /\ r.kind = "get" /\ r.at = "read"
  <2>1. r = [at |-> "read", kind |-> "get", edit |-> S!NoEdit, read |-> Null, seen |-> Null]
    BY <1>1 DEF S!Idle
  <2>. QED
    BY <2>1 DEF S!IsCall, S!InStep, S!IsEdit
<1>3. /\ v8' = [v8 EXCEPT ![c] = r] /\ ~v4 /\ v3' = Null /\ v4' = TRUE
      /\ UNCHANGED <<v1, v2, v5, v7, v10, v12>>
  BY <1>1 DEF S!OpenPage, S!Begin, S!Put
<1>4. ~v11' => ~v11 /\ v5 = S!NoEdit /\ ~S!Saving
  BY Zenon DEF S!OpenPage
<1>5. /\ v8' = [d \in Call |-> v8'[d]] /\ v8'[c] = r
      /\ \A d \in Call : d # c => v8'[d] = v8[d]
      /\ \A d \in Call : S!IsCall(v8'[d]) /\ S!InStep(v8'[d])
  BY <1>2, <1>3, OneSettingGoesOn
<1>6. S!TypeOK'
  BY <1>3, <1>5 DEF S!SettingsInv, S!TypeOK
<1>7. S!LoadsOnce'
  BY <1>2, <1>3, <1>5 DEF S!SettingsInv, S!LoadsOnce
<1>8. ASSUME ~v11' PROVE S!OneSave' /\ S!LoadsTheRow' /\ S!ShowsTheChange'
  <2>1. \A d \in Call : v8'[d].kind # "put"
    BY <1>2, <1>4, <1>5, <1>8 DEF S!Saving
  <2>. QED
    BY <1>2, <1>3, <1>4, <1>5, <1>7, <1>8, <2>1
    DEF S!OneSave, S!LoadsTheRow, S!ShowsTheChange, S!Touched, S!NoEdit, S!LoadsOnce
<1>. QED
  BY <1>6, <1>7, <1>8 DEF S!SettingsInv

\* A control is changed: the change waits for the timer.
LEMMA ChangeKeeps ==
    ASSUME S!SettingsInv, NEW f \in v2, NEW v \in S!Values(f), S!Change(f, v)
    PROVE  S!SettingsInv'
<1>1. /\ f \in S!Column /\ f # "job" /\ v # Null
      /\ v3 = [g \in v2 |-> v3[g]] /\ v3 # Null /\ ~v4
      /\ v8 = [d \in Call |-> v8[d]]
  BY NullIsNoAmount DEF S!SettingsInv, S!TypeOK, S!Values, S!Change, S!LoadsOnce
<1>2. /\ v3' = [v3 EXCEPT ![f] = v] /\ v5' = S!Only(f, v)
      /\ UNCHANGED <<v1, v2, v4, v7, v8, v10, v12>>
  BY DEF S!Change
<1>3. ~v11' => ~v11 /\ DOMAIN v5 \subseteq {f}
  BY Zenon DEF S!Change
<1>4. /\ v3' = [g \in v2 |-> v3'[g]] /\ v3'[f] = v /\ \A g \in v2 : g # f => v3'[g] = v3[g]
  BY <1>1, <1>2
<1>5. DOMAIN v5' = {f} /\ v5'[f] = v /\ v5' = S!Only(f, v5'[f])
  BY <1>2 DEF S!Only
<1>6. S!IsEdit(v5)'
  BY <1>1, <1>5 DEF S!IsEdit, S!Only
<1>7. S!TypeOK'
  BY <1>2, <1>4, <1>6 DEF S!SettingsInv, S!TypeOK
<1>8. S!LoadsOnce'
  BY <1>1, <1>2 DEF S!SettingsInv, S!LoadsOnce
<1>9. ASSUME v10 = 0 /\ ~v12 /\ ~v11' PROVE S!OneSave' /\ S!LoadsTheRow' /\ S!ShowsTheChange'
  <2>1. S!OneSave /\ S!ShowsTheChange /\ DOMAIN v5 \subseteq {f}
    BY <1>3, <1>9 DEF S!SettingsInv
  <2>2. S!OneSave' /\ S!LoadsTheRow'
    BY <1>1, <1>2, <2>1 DEF S!OneSave, S!LoadsTheRow
  <2>3. \A g : S!Touched(g)' <=> S!Touched(g)
    BY <1>2 DEF S!Touched
  <2>4. S!Shown(v1)' = S!Shown(v1)
    BY <1>2 DEF S!Shown
  <2>5. S!ShowsTheChange'
    BY <1>1, <1>2, <1>4, <1>5, <2>1, <2>3, <2>4 DEF S!ShowsTheChange
  <2>. QED
    BY <2>2, <2>5
<1>. QED
  BY <1>2, <1>7, <1>8, <1>9 DEF S!SettingsInv

\* The timer's save and the switch's: a request that is alone, or a race.
LEMMA SaveBegins ==
    ASSUME S!SettingsInv, NEW c \in Call, S!SaveTimer(c)
    PROVE  S!SettingsInv'
<1>1. v5 # S!NoEdit /\ S!IsEdit(v5)
  BY DEF S!SaveTimer, S!SettingsInv, S!TypeOK
<1>2. PICK r : r = [S!Idle EXCEPT !.at = "read", !.kind = "put", !.edit = v5]
  OBVIOUS
<1>3. S!IsCall(r) /\ S!InStep(r) /\ r.kind = "put" /\ r.at = "read" /\ r.edit = v5
  <2>1. r = [at |-> "read", kind |-> "put", edit |-> v5, read |-> Null, seen |-> Null]
    BY <1>2 DEF S!Idle
  <2>. QED
    BY <1>1, <2>1 DEF S!IsCall, S!InStep
<1>4. /\ v8' = [v8 EXCEPT ![c] = r] /\ v5' = S!NoEdit /\ v8[c].at = "idle"
      /\ UNCHANGED <<v1, v2, v3, v4, v7, v10, v11>>
  BY <1>2 DEF S!SaveTimer, S!Begin, S!Put
<1>5. ~v12' => ~v12 /\ ~S!Saving
  BY Zenon DEF S!SaveTimer
<1>6. /\ v8' = [d \in Call |-> v8'[d]] /\ v8'[c] = r
      /\ \A d \in Call : d # c => v8'[d] = v8[d]
      /\ \A d \in Call : S!IsCall(v8'[d]) /\ S!InStep(v8'[d])
  BY <1>3, <1>4, OneSettingGoesOn
<1>7. S!TypeOK'
  <2>1. S!IsEdit(v5')
    BY <1>4 DEF S!IsEdit
  <2>. QED
    BY <1>4, <1>6, <2>1 DEF S!SettingsInv, S!TypeOK
<1>8. S!LoadsOnce'
  BY <1>3, <1>4, <1>6 DEF S!SettingsInv, S!LoadsOnce
<1>9. ASSUME v10 = 0 /\ ~v12' /\ ~v11 PROVE S!OneSave' /\ S!LoadsTheRow' /\ S!ShowsTheChange'
  <2>1. S!OneSave /\ S!LoadsTheRow /\ S!ShowsTheChange
    BY <1>5, <1>9 DEF S!SettingsInv
  <2>2. \A d \in Call : v8[d].kind # "put" /\ (d # c => v8'[d].kind # "put")
    BY <1>5, <1>6, <1>9 DEF S!Saving
  <2>3. S!OneSave'
    BY <1>3, <1>6, <2>2 DEF S!OneSave
  <2>4. ~v4 /\ S!LoadsTheRow'
    BY <1>1, <1>4, <2>1 DEF S!LoadsTheRow
  <2>5. S!Shown(v1)' = S!Shown(v1)
    BY <1>4 DEF S!Shown
  <2>6. \A f : f \notin DOMAIN v5' /\ ~S!Touched(f) /\ (S!Touched(f)' <=> f \in DOMAIN v5)
    BY <1>3, <1>4, <1>6, <2>2 DEF S!Touched, S!NoEdit
  <2>7. S!ShowsTheChange'
    BY <1>3, <1>4, <1>6, <2>1, <2>2, <2>5, <2>6 DEF S!ShowsTheChange
  <2>. QED
    BY <2>3, <2>4, <2>7
<1>. QED
  BY <1>4, <1>7, <1>8, <1>9 DEF S!SettingsInv

\* The sidebar's switch.
LEMMA SwitchKeeps ==
    ASSUME S!SettingsInv, NEW c \in Call, S!Switch(c)
    PROVE  S!SettingsInv'
<1>1. PICK b \in BOOLEAN : b = ~v7
  OBVIOUS
<1>2. S!IsEdit(S!Only("job", b)) /\ DOMAIN S!Only("job", b) = {"job"}
  BY DEF S!IsEdit, S!Only, S!Column
<1>3. PICK r : r = [S!Idle EXCEPT !.at = "read", !.kind = "put", !.edit = S!Only("job", b)]
  OBVIOUS
<1>4. S!IsCall(r) /\ S!InStep(r) /\ r.kind = "put" /\ r.at = "read" /\ DOMAIN r.edit = {"job"}
  <2>1. r = [at |-> "read", kind |-> "put", edit |-> S!Only("job", b), read |-> Null, seen |-> Null]
    BY <1>3 DEF S!Idle
  <2>. QED
    BY <1>2, <2>1 DEF S!IsCall, S!InStep
<1>5. /\ v8' = [v8 EXCEPT ![c] = r] /\ v7' = b /\ v8[c].at = "idle"
      /\ UNCHANGED <<v1, v2, v3, v4, v5, v10, v11>>
  BY <1>1, <1>3, Zenon DEF S!Switch, S!Begin, S!Put
<1>6. ~v12' => ~v12 /\ ~S!Saving
  BY Zenon DEF S!Switch
<1>7. /\ v8' = [d \in Call |-> v8'[d]] /\ v8'[c] = r
      /\ \A d \in Call : d # c => v8'[d] = v8[d]
      /\ \A d \in Call : S!IsCall(v8'[d]) /\ S!InStep(v8'[d])
  BY <1>4, <1>5, OneSettingGoesOn
<1>8. S!TypeOK'
  BY <1>5, <1>7 DEF S!SettingsInv, S!TypeOK
<1>9. S!LoadsOnce'
  BY <1>4, <1>5, <1>7 DEF S!SettingsInv, S!LoadsOnce
<1>10. ASSUME v10 = 0 /\ ~v12' /\ ~v11 PROVE S!OneSave' /\ S!LoadsTheRow' /\ S!ShowsTheChange'
  <2>1. S!OneSave /\ S!LoadsTheRow /\ S!ShowsTheChange
    BY <1>6, <1>10 DEF S!SettingsInv
  <2>2. \A d \in Call : v8[d].kind # "put" /\ (d # c => v8'[d].kind # "put")
    BY <1>6, <1>7, <1>10 DEF S!Saving
  <2>3. S!OneSave'
    BY <1>4, <1>7, <2>2 DEF S!OneSave
  <2>4. \A f \in v2 : f # "job" /\ ~S!Touched(f) /\ ~S!Touched(f)'
    BY <1>4, <1>7, <2>2 DEF S!Touched, S!SettingsInv, S!TypeOK
  <2>5. S!Shown(v1)' = S!Shown(v1)
    BY <1>5 DEF S!Shown
  <2>6. S!LoadsTheRow'
    BY <1>4, <1>5, <1>7, <2>1, <2>4 DEF S!LoadsTheRow, S!NoEdit
  <2>7. S!ShowsTheChange'
    BY <1>4, <1>5, <1>7, <2>1, <2>2, <2>4, <2>5 DEF S!ShowsTheChange
  <2>. QED
    BY <2>3, <2>6, <2>7
<1>. QED
  BY <1>5, <1>8, <1>9, <1>10 DEF S!SettingsInv

\* The service reads the row, and selects it again to save.
LEMMA ReadSelectKeeps ==
    ASSUME S!SettingsInv, NEW c \in Call, S!Read(c) \/ S!Select(c)
    PROVE  S!SettingsInv'
<1> DEFINE old == v8[c]
<1>1. S!IsCall(old) /\ S!InStep(old) /\ S!IsRow(v1) /\ v7 \in BOOLEAN
  BY DEF S!SettingsInv, S!TypeOK, S!LoadsOnce
<1>2. CASE S!Read(c)
  <2>1. PICK at \in {"select", "answer"} : at = IF old.kind = "put" THEN "select" ELSE "answer"
    OBVIOUS
  <2>2. PICK r : r = [old EXCEPT !.read = v1, !.at = at]
    OBVIOUS
  <2>3. r = [at |-> at, kind |-> old.kind, edit |-> old.edit, read |-> v1, seen |-> old.seen]
    BY <1>1, <2>2 DEF S!IsCall
  <2>4. S!IsCall(r) /\ S!InStep(r)
    BY <1>1, <1>2, <2>1, <2>3 DEF S!IsCall, S!InStep, S!Read
  <2>5. v8' = [v8 EXCEPT ![c] = r] /\ UNCHANGED <<v1, v2, v3, v4, v5, v7, v10, v11, v12>>
    BY <1>2, <2>1, <2>2 DEF S!Read, S!Put
  <2>. QED
    BY <1>1, <2>1, <2>3, <2>4, <2>5, RequestGoesOn
<1>3. CASE S!Select(c)
  <2>1. PICK r : r = [old EXCEPT !.seen = v1, !.at = "update"]
    OBVIOUS
  <2>2. r = [at |-> "update", kind |-> old.kind, edit |-> old.edit, read |-> old.read, seen |-> v1]
    BY <1>1, <2>1 DEF S!IsCall
  <2>3. old.at = "select" /\ old.kind = "put"
    BY <1>1, <1>3 DEF S!Select, S!InStep, S!IsCall
  <2>4. S!IsCall(r) /\ S!InStep(r)
    BY <1>1, <2>2, <2>3 DEF S!IsCall, S!InStep
  <2>5. v8' = [v8 EXCEPT ![c] = r] /\ UNCHANGED <<v1, v2, v3, v4, v5, v7, v10, v11, v12>>
    BY <1>3, <2>1 DEF S!Select, S!Put
  <2>6. Undisturbed => r.read = v1
    BY <2>2, <2>3 DEF S!SettingsInv, S!OneSave, Undisturbed
  <2>. QED
    BY <1>1, <2>2, <2>3, <2>4, <2>5, <2>6, RequestGoesOn
<1>. QED
  BY <1>2, <1>3

\* What a save makes of the row.
LEMMA MergedIs ==
    ASSUME NEW row, NEW seen, NEW read, NEW e, S!IsRow(row), S!IsRow(seen), S!IsRow(read), S!IsEdit(e),
           NEW new, new = S!Saved(row, seen, S!Merged(read, e))
    PROVE  /\ S!IsRow(new)
           /\ seen = row /\ read = row =>
                 \A k \in S!Column : new[k] = IF k \in DOMAIN e THEN e[k] ELSE row[k]
<1>1. PICK entity : entity = S!Merged(read, e)
  OBVIOUS
<1>2. DOMAIN read = S!Column /\ "job" \in S!Column
  BY DEF S!IsRow, S!Column
<1>3. /\ DOMAIN entity = S!Column
      /\ \A k \in S!Column : entity[k] = IF k \in DOMAIN e THEN e[k] ELSE read[k]
  BY <1>1, <1>2 DEF S!Merged, S!Over
<1>4. "job" \in DOMAIN e => e["job"] \in BOOLEAN
  BY DEF S!IsEdit, S!NoEdit
<1>5. new = [k \in S!Column |-> IF entity[k] = seen[k] THEN row[k] ELSE entity[k]]
  BY <1>1, <1>3 DEF S!Saved
<1>6. new["job"] \in {row["job"], entity["job"]} /\ entity["job"] \in {e["job"], read["job"]}
  BY <1>2, <1>3, <1>5
<1>7. new = [k \in S!Column |-> new[k]]
  BY <1>5
<1>8. entity["job"] \in BOOLEAN
  BY <1>2, <1>3, <1>4 DEF S!IsRow
<1>9. new["job"] \in BOOLEAN
  BY <1>6, <1>8 DEF S!IsRow
<1>. QED
  BY <1>3, <1>5, <1>7, <1>9 DEF S!IsRow

\* The row is saved: with the change, and nothing else, if nothing overlapped.
LEMMA UpdateSettingKeeps ==
    ASSUME S!SettingsInv, NEW c \in Call, S!Update(c)
    PROVE  S!SettingsInv'
<1> DEFINE old == v8[c]
<1>1. /\ S!IsCall(old) /\ S!IsRow(v1) /\ S!IsRow(old.read) /\ S!IsRow(old.seen) /\ S!IsEdit(old.edit)
      /\ old.kind = "put" /\ old.at = "update"
  BY DEF S!SettingsInv, S!TypeOK, S!LoadsOnce, S!IsCall, S!InStep, S!Update
<1>2. /\ v8' = [v8 EXCEPT ![c] = S!Idle]
      /\ UNCHANGED <<v2, v3, v4, v5, v7, v10, v11, v12>>
      /\ v1' = S!Saved(v1, old.seen, S!Merged(old.read, old.edit))
  BY DEF S!Update, S!Put
<1>3. /\ S!IsRow(v1')
      /\ old.seen = v1 /\ old.read = v1 =>
            \A k \in S!Column : v1'[k] = IF k \in DOMAIN old.edit THEN old.edit[k] ELSE v1[k]
  BY <1>1, <1>2, MergedIs
<1>4. /\ v8' = [d \in Call |-> v8'[d]] /\ v8'[c] = S!Idle
      /\ \A d \in Call : d # c => v8'[d] = v8[d]
      /\ \A d \in Call : S!IsCall(v8'[d]) /\ S!InStep(v8'[d])
  BY <1>2, IdleSetting, OneSettingGoesOn
<1>5. S!TypeOK'
  BY <1>2, <1>3, <1>4 DEF S!SettingsInv, S!TypeOK
<1>6. S!LoadsOnce'
  BY <1>2, <1>4, IdleSetting DEF S!SettingsInv, S!LoadsOnce
<1>7. ASSUME v10 = 0 /\ ~v12 /\ ~v11 PROVE S!OneSave' /\ S!LoadsTheRow' /\ S!ShowsTheChange'
  <2>1. S!OneSave /\ S!LoadsTheRow /\ S!ShowsTheChange
    BY <1>7 DEF S!SettingsInv
  <2>2. \A d \in Call : (d # c => v8[d].kind # "put") /\ v8'[d].kind # "put"
    BY <1>1, <1>4, <2>1, IdleSetting DEF S!OneSave
  <2>3. S!OneSave'
    BY <2>2 DEF S!OneSave
  <2>4. \A k \in S!Column : v1'[k] = IF k \in DOMAIN old.edit THEN old.edit[k] ELSE v1[k]
    BY <1>1, <1>3, <2>1 DEF S!OneSave
  <2>5. \A f \in v2 : f \in S!Column /\ ~S!Touched(f)' /\ (S!Touched(f) <=> f \in DOMAIN old.edit)
    BY <1>1, <2>2 DEF S!Touched, S!SettingsInv, S!TypeOK
  <2>6. S!LoadsTheRow'
    BY <1>2, <1>4, <2>1, <2>4, <2>5, IdleSetting DEF S!LoadsTheRow, S!NoEdit
  <2>7. ASSUME NEW f \in v2, v3 # Null, f \notin DOMAIN v5
        PROVE  v3[f] = S!Shown(v1)'[f]
    <3>1. S!Shown(v1)'[f] = IF v1'[f] = Null THEN S!DefaultOf[f] ELSE v1'[f]
      BY <1>2, <2>7 DEF S!Shown
    <3>2. CASE f \in DOMAIN old.edit
      <4>1. v3[f] = old.edit[f]
        BY <1>1, <2>1, <2>7, <3>2 DEF S!ShowsTheChange
      <4>2. v1'[f] = old.edit[f]
        BY <2>4, <2>5, <3>2
      <4>3. old.edit[f] # Null
        BY <1>1, <3>2 DEF S!IsEdit, S!NoEdit, S!SettingsInv, S!TypeOK
      <4>. QED
        BY <3>1, <4>1, <4>2, <4>3
    <3>3. CASE f \notin DOMAIN old.edit
      <4>1. v3[f] = S!Shown(v1)[f]
        BY <2>1, <2>5, <2>7, <3>3 DEF S!ShowsTheChange
      <4>2. v1'[f] = v1[f]
        BY <2>4, <2>5, <3>3
      <4>. QED
        BY <2>7, <3>1, <4>1, <4>2, ShownIs
    <3>. QED
      BY <3>2, <3>3
  <2>8. S!ShowsTheChange'
    BY <1>2, <2>1, <2>2, <2>7 DEF S!ShowsTheChange
  <2>. QED
    BY <2>3, <2>6, <2>8
<1>. QED
  BY <1>2, <1>5, <1>6, <1>7 DEF S!SettingsInv

\* An answer reaches the page or the sidebar.
LEMMA AnswerSettingKeeps ==
    ASSUME S!SettingsInv, NEW c \in Call, S!Answer(c)
    PROVE  S!SettingsInv'
<1> DEFINE old == v8[c]
<1>1. /\ S!IsCall(old) /\ S!InStep(old) /\ S!IsRow(old.read) /\ old.at = "answer"
      /\ old.kind \in {"get", "status"} /\ v7 \in BOOLEAN
  BY DEF S!SettingsInv, S!TypeOK, S!LoadsOnce, S!IsCall, S!InStep, S!Answer
<1>2. /\ v8' = [v8 EXCEPT ![c] = S!Idle]
      /\ UNCHANGED <<v1, v2, v5, v10, v11, v12>>
      /\ v7' \in BOOLEAN
  BY <1>1 DEF S!Answer, S!Put, S!IsRow
<1>3. CASE old.kind = "status"
  <2>1. v3' = v3 /\ v4' = v4
    BY <1>3 DEF S!Answer
  <2>. QED
    BY <1>2, <1>3, <2>1, IdleSetting, RequestGoesOn
<1>4. CASE old.kind = "get"
  <2>1. v3' = S!Shown(old.read) /\ v4' = FALSE
    BY <1>4 DEF S!Answer
  <2>2. /\ v8' = [d \in Call |-> v8'[d]] /\ v8'[c] = S!Idle
        /\ \A d \in Call : d # c => v8'[d] = v8[d]
        /\ \A d \in Call : S!IsCall(v8'[d]) /\ S!InStep(v8'[d])
    BY <1>2, IdleSetting, OneSettingGoesOn
  <2>3. /\ v3' = [f \in v2 |-> v3'[f]]
        /\ \A f \in v2 : v3'[f] = IF old.read[f] = Null THEN S!DefaultOf[f] ELSE old.read[f]
    BY <2>1 DEF S!Shown
  <2>4. S!TypeOK'
    BY <1>2, <2>1, <2>2, <2>3 DEF S!SettingsInv, S!TypeOK
  <2>5. S!LoadsOnce'
    BY <1>4, <2>1, <2>2, IdleSetting DEF S!SettingsInv, S!LoadsOnce
  <2>6. ASSUME v10 = 0 /\ ~v12 /\ ~v11 PROVE S!OneSave' /\ S!LoadsTheRow' /\ S!ShowsTheChange'
    <3>1. S!OneSave /\ S!LoadsTheRow /\ v4
      BY <1>4, <2>6 DEF S!SettingsInv, S!LoadsOnce
    <3>2. S!OneSave'
      BY <1>2, <2>2, <3>1, IdleSetting DEF S!OneSave
    <3>3. \A f \in v2 : ~S!Touched(f)' /\ old.read[f] = v1[f] /\ f \notin DOMAIN v5
      BY <1>1, <1>4, <2>2, <3>1, IdleSetting DEF S!LoadsTheRow, S!Touched, S!NoEdit
    <3>4. \A f \in v2 : v3'[f] = S!Shown(v1)'[f]
      BY <1>2, <2>3, <3>3 DEF S!Shown
    <3>5. S!LoadsTheRow'
      BY <2>1 DEF S!LoadsTheRow
    <3>6. S!ShowsTheChange'
      BY <1>2, <3>3, <3>4 DEF S!ShowsTheChange, S!Touched
    <3>. QED
      BY <3>2, <3>5, <3>6
  <2>. QED
    BY <1>2, <2>4, <2>5, <2>6 DEF S!SettingsInv
<1>. QED
  BY <1>1, <1>3, <1>4

\* A request fails: the page promises nothing from then on.
LEMMA ThrowKeeps ==
    ASSUME S!SettingsInv, NEW c \in Call, S!Throw(c)
    PROVE  S!SettingsInv'
<1>1. /\ v8' = [v8 EXCEPT ![c] = S!Idle]
      /\ UNCHANGED <<v1, v2, v5, v7, v11, v12>>
      /\ v10 \in Nat /\ v10' = v10 + 1
  BY DEF S!Throw, S!Put, S!SettingsInv, S!TypeOK
<1>2. /\ v8' = [d \in Call |-> v8'[d]] /\ v8'[c] = S!Idle
      /\ \A d \in Call : d # c => v8'[d] = v8[d]
      /\ \A d \in Call : S!IsCall(v8'[d]) /\ S!InStep(v8'[d])
  BY <1>1, IdleSetting, OneSettingGoesOn
<1>3. v10' \in Nat /\ v10' # 0
  BY <1>1
<1>4. \/ v8[c].kind = "get" /\ v4' = FALSE /\ v3' = [f \in v2 |-> v3'[f]]
      \/ v8[c].kind # "get" /\ v4' = v4 /\ v3' = v3
  BY DEF S!Throw, S!Over, S!Shown
<1>5. S!TypeOK'
  BY <1>1, <1>2, <1>3, <1>4 DEF S!SettingsInv, S!TypeOK
<1>6. S!LoadsOnce'
  BY <1>1, <1>2, <1>4, IdleSetting DEF S!SettingsInv, S!LoadsOnce
<1>. QED
  BY <1>3, <1>5, <1>6 DEF S!SettingsInv

\* The sidebar asks for the switch's state.
LEMMA OpenSidebarKeeps ==
    ASSUME S!SettingsInv, NEW c \in Call, S!OpenSidebar(c)
    PROVE  S!SettingsInv'
<1>1. PICK r : r = [S!Idle EXCEPT !.at = "read", !.kind = "status", !.edit = S!NoEdit]
  OBVIOUS
<1>2. S!IsCall(r) /\ S!InStep(r) /\ r.kind = "status" /\ r.at = "read"
  <2>1. r = [at |-> "read", kind |-> "status", edit |-> S!NoEdit, read |-> Null, seen |-> Null]
    BY <1>1 DEF S!Idle
  <2>. QED
    BY <2>1 DEF S!IsCall, S!InStep, S!IsEdit
<1>3. /\ v8' = [v8 EXCEPT ![c] = r] /\ v8[c].at = "idle"
      /\ UNCHANGED <<v1, v2, v3, v4, v5, v10, v11, v12>> /\ v7' \in BOOLEAN
  BY <1>1 DEF S!OpenSidebar, S!Begin, S!Put
<1>4. v8[c].kind = "none"
  BY <1>3 DEF S!SettingsInv, S!LoadsOnce, S!InStep
<1>. QED
  BY <1>2, <1>3, <1>4, RequestGoesOn

\* Every step keeps the invariant.
LEMMA SettingsStep ==
    ASSUME S!SettingsInv, S!Next \/ UNCHANGED vars
    PROVE  S!SettingsInv'
<1>1. CASE UNCHANGED vars
  BY <1>1 DEF vars, S!SettingsInv, S!TypeOK, S!LoadsOnce, S!OneSave, S!LoadsTheRow, S!ShowsTheChange,
              S!Touched, S!Shown
<1>2. ASSUME NEW c \in Call, S!Work(c) PROVE S!SettingsInv'
  BY <1>2, SaveBegins, ReadSelectKeeps, UpdateSettingKeeps, AnswerSettingKeeps, ThrowKeeps DEF S!Work
<1>3. CASE S!Next
  BY <1>2, <1>3, OpenPageKeeps, OpenSidebarKeeps, SwitchKeeps, ChangeKeeps DEF S!Next
<1>. QED
  BY <1>1, <1>3

\* The inductive invariant, of the behaviours of this component.
SettingsHold == part = "settings" => S!SettingsInv

\* A page that has come to rest shows what negotiations will use, however its
\* changes and saves interleaved with loading (syncPreferences, updatePreferences).
THEOREM RestingPageIsTrue == Spec => []ShownIsSaved
<1>1. Initially => SettingsHold
  <2>. SUFFICES ASSUME S!Init PROVE S!SettingsInv
    BY DEF Initially, Init, SettingsHold
  <2>1. v1 = [job |-> FALSE, floor |-> Null, limit |-> 1, ceiling |-> Null]
    BY DEF S!Init
  <2>2. v1 = [k \in S!Column |-> v1[k]] /\ v1["job"] = FALSE
    BY <2>1 DEF S!Column
  <2>3. S!TypeOK
    BY <2>2, IdleSetting DEF S!Init, S!TypeOK, S!IsRow, S!IsEdit, S!Column
  <2>4. S!LoadsOnce
    BY IdleSetting DEF S!Init, S!LoadsOnce
  <2>5. S!OneSave /\ S!LoadsTheRow /\ S!ShowsTheChange
    BY IdleSetting DEF S!Init, S!OneSave, S!LoadsTheRow, S!ShowsTheChange
  <2>. QED
    BY <2>3, <2>4, <2>5 DEF S!SettingsInv
<1>2. SettingsHold /\ [Next]_vars => SettingsHold'
  <2>. SUFFICES ASSUME SettingsHold, [Next]_vars, part' = "settings" PROVE S!SettingsInv'
    BY DEF SettingsHold
  <2>1. part = "settings" /\ (S!Next \/ UNCHANGED vars)
    BY DEF Next, vars
  <2>. QED
    BY <2>1, SettingsStep DEF SettingsHold
<1>3. SettingsHold => ShownIsSaved
  <2>. SUFFICES ASSUME S!SettingsInv, S!Quiet, v10 = 0 /\ ~v12 /\ ~v11, NEW f \in v2
               PROVE  v3[f] = S!Shown(v1)[f]
    BY DEF SettingsHold, ShownIsSaved, S!ShownIsSaved
  <2>1. S!ShowsTheChange /\ v3 # Null /\ f \notin DOMAIN v5
    BY DEF S!SettingsInv, S!Quiet, S!NoEdit
  <2>2. ~S!Touched(f)
    BY DEF S!SettingsInv, S!Quiet, S!LoadsOnce, S!InStep, S!Touched
  <2>. QED
    BY <2>1, <2>2 DEF S!ShowsTheChange
<1>. QED
  BY <1>1, <1>2, <1>3, PTL DEF Spec

=============================================================================
