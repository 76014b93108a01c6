--------------------------- MODULE UnreadMessages --------------------------
(***************************************************************************)
(* The interview messages of one session that both parties have approved,   *)
(* and how many of them one party, the reader, has not read: sendMessage    *)
(* and getMessages (backend/src/agreement/agreement.service.ts), the count  *)
(* of listSessions (backend/src/negotiation/negotiation.service.ts), and    *)
(* the badge of the dashboard's row (frontend/src/components/dashboard/     *)
(* negotiation-list.tsx).  Server and database have one clock; a time is    *)
(* the number of messages created until then.                               *)
(***************************************************************************)
EXTENDS Naturals, Sequences, FiniteSets

CONSTANTS
    Call,        \* the reader's requests that may be under way
    MaxMessages, \* bound of the model
    MaxOpens,    \* bound of the model: pages opened
    MaxFaults,   \* bound of the model: lost requests and streams
    Null

VARIABLES
    messages,  \* the interview_message rows in the order of created_at
    lastRead,  \* the reader's last_read_at
    calls,     \* the reader's requests
    view,      \* the page the reader is on
    row,       \* the unread count of the row, Null until the list is there
    activity,  \* the message events the list has counted
    stream,    \* message events on their way, or Null without a stream
    opens, faults,
    \* Not in the program:
    found,      \* the messages getMessages has read for the reader
    overlapped, \* those created while a getMessages had read and not yet marked
    missed,     \* events lost since the count that the row shows
    backwards   \* a later mark has been written over with an earlier one

history == <<found, overlapped, missed, backwards>>
shown == <<view, row, activity>>
vars == <<messages, lastRead, calls, shown, stream, opens, faults, history>>

\* A call goes asked -> found -> marking -> answered when it gets the messages,
\* and asked -> counting -> answered when it gets the list.
Ask(kind) == [kind |-> kind, at |-> "asked", live |-> TRUE, value |-> Null]

Init ==
    /\ messages = <<>>
    /\ lastRead = Null
    /\ calls = [c \in Call |-> Null]
    /\ view = "other" /\ row = Null /\ activity = 0
    /\ stream = 0
    /\ opens = 0 /\ faults = 0
    /\ found = {} /\ overlapped = {} /\ missed = 0 /\ backwards = FALSE

Is(c, kind, at) == calls[c] # Null /\ calls[c].kind = kind /\ calls[c].at = at

Step(c, at, value) == calls' = [calls EXCEPT ![c] = [@ EXCEPT !.at = at, !.value = value]]

-----------------------------------------------------------------------------
\* sendMessage.  created_at is the time at which the save's transaction begins,
\* the row is visible when it commits, and the event follows the save.

Create(sender) ==
    /\ Len(messages) < MaxMessages
    /\ sender = "other" \/ view = "chat"
    /\ messages' = Append(messages, [from |-> sender, at |-> "saving"])
    /\ overlapped' = IF \E c \in Call : Is(c, "messages", "found")
                     THEN overlapped \cup {Len(messages) + 1} ELSE overlapped
    /\ UNCHANGED <<lastRead, calls, shown, stream, opens, faults, found, missed, backwards>>

Commit(i) ==
    /\ messages[i].at = "saving"
    /\ messages' = [messages EXCEPT ![i].at = "stored"]
    /\ UNCHANGED <<lastRead, calls, shown, stream, opens, faults, history>>

\* pushToUser, to the recipient only.
Announce(i) ==
    /\ messages[i].at = "stored"
    /\ messages' = [messages EXCEPT ![i].at = "announced"]
    /\ IF messages[i].from # "other" THEN UNCHANGED <<stream, missed>>
       ELSE IF stream = Null THEN missed' = missed + 1 /\ UNCHANGED stream
       ELSE stream' = stream + 1 /\ UNCHANGED missed
    /\ UNCHANGED <<lastRead, calls, shown, opens, faults, found, overlapped, backwards>>

Visible == {i \in DOMAIN messages : messages[i].at # "saving"}

-----------------------------------------------------------------------------
\* getMessages: a read, the time, an update.

Find(c) ==
    /\ Is(c, "messages", "asked")
    /\ Step(c, "found", Null)
    /\ found' = found \cup Visible
    /\ overlapped' = overlapped \cup (DOMAIN messages \ Visible)
    /\ UNCHANGED <<messages, lastRead, shown, stream, opens, faults, missed, backwards>>

Clock(c) ==
    /\ Is(c, "messages", "found")
    /\ Step(c, "marking", Len(messages))
    /\ UNCHANGED <<messages, lastRead, shown, stream, opens, faults, history>>

Mark(c) ==
    /\ Is(c, "messages", "marking")
    /\ lastRead' = calls[c].value
    /\ backwards' = (backwards \/ (lastRead # Null /\ calls[c].value < lastRead))
    /\ Step(c, "answered", Null)
    /\ UNCHANGED <<messages, shown, stream, opens, faults, found, overlapped, missed>>

-----------------------------------------------------------------------------
\* listSessions: the sessions with their marks, then the counts.

Sent(since) == {i \in Visible : i > since /\ messages[i].from = "other"}

\* A reader who never opened the messages is told of all, also the reader's own.
UnreadCount_OnlyMarked(last) == IF last = Null THEN 0 ELSE Cardinality(Sent(last))
UnreadCount(last) == IF last = Null THEN Cardinality(Visible) ELSE Cardinality(Sent(last))

ReadMarks(c) ==
    /\ Is(c, "list", "asked")
    /\ Step(c, "counting", lastRead)
    /\ UNCHANGED <<messages, lastRead, shown, stream, opens, faults, history>>

Count(c) ==
    /\ Is(c, "list", "counting")
    /\ Step(c, "answered", UnreadCount(calls[c].value))
    /\ missed' = IF calls[c].live THEN 0 ELSE missed
    /\ UNCHANGED <<messages, lastRead, shown, stream, opens, faults, found, overlapped, backwards>>

-----------------------------------------------------------------------------
\* The reader's pages: the dashboard with the list, the agreement's chat.

\* The page's effect asks at once; answers for the page before are dropped.
Open(v, c) ==
    /\ opens < MaxOpens /\ opens' = opens + 1
    /\ calls[c] = Null
    /\ view' = v /\ row' = Null /\ activity' = 0
    /\ calls' = [d \in Call |->
                   IF d = c THEN Ask(IF v = "list" THEN "list" ELSE "messages")
                   ELSE IF calls[d] = Null THEN Null
                   ELSE [calls[d] EXCEPT !.live = FALSE]]
    /\ UNCHANGED <<messages, lastRead, stream, faults, history>>

\* The list, and with it its listener, is there when the answers are.
Return(c) ==
    /\ calls[c] # Null /\ calls[c].at = "answered"
    /\ calls' = [calls EXCEPT ![c] = Null]
    /\ row' = IF calls[c].kind = "list" /\ calls[c].live THEN calls[c].value ELSE row
    /\ UNCHANGED <<messages, lastRead, view, activity, stream, opens, faults, history>>

\* An event: the list counts it, the chat asks for the messages again.
Receive(c) ==
    /\ stream # Null /\ stream > 0
    /\ stream' = stream - 1
    /\ CASE view = "list" /\ row # Null ->
              activity' = activity + 1 /\ UNCHANGED <<calls, missed>>
         [] view = "chat" ->
              /\ calls[c] = Null
              /\ calls' = [calls EXCEPT ![c] = Ask("messages")]
              /\ UNCHANGED <<activity, missed>>
         [] OTHER ->
              missed' = missed + 1 /\ UNCHANGED <<calls, activity>>
    /\ UNCHANGED <<messages, lastRead, view, row, opens, faults, found, overlapped, backwards>>

\* What the row shows.
Badge == row + activity

-----------------------------------------------------------------------------
\* Faults, as many as the bound.

Fault == faults < MaxFaults /\ faults' = faults + 1

\* A call fails, or its answer is lost.
Lose(c) ==
    /\ Fault
    /\ calls[c] # Null
    /\ calls' = [calls EXCEPT ![c] = Null]
    /\ UNCHANGED <<messages, lastRead, shown, stream, opens, history>>

Break ==
    /\ Fault
    /\ stream # Null
    /\ stream' = Null
    /\ missed' = missed + stream
    /\ UNCHANGED <<messages, lastRead, calls, shown, opens, found, overlapped, backwards>>

Connect ==
    /\ stream = Null
    /\ stream' = 0
    /\ UNCHANGED <<messages, lastRead, calls, shown, opens, faults, history>>

-----------------------------------------------------------------------------

Next ==
    \/ \E sender \in {"reader", "other"} : Create(sender)
    \/ \E i \in DOMAIN messages : Commit(i) \/ Announce(i)
    \/ \E c \in Call :
          \/ Find(c) \/ Clock(c) \/ Mark(c) \/ ReadMarks(c) \/ Count(c)
          \/ Return(c) \/ Receive(c) \/ Lose(c)
          \/ \E v \in {"list", "chat"} : Open(v, c)
    \/ Break \/ Connect

Spec == Init /\ [][Next]_vars

-----------------------------------------------------------------------------

\* What is marked as read has been read for the reader, apart from messages
\* that were being created just when getMessages had read and not yet marked.
MarkedWasFound ==
    lastRead # Null =>
        \A i \in Visible : i <= lastRead => i \in found \cup overlapped

\* What is not is counted by the badge, or its event is on its way or was lost:
\* there was no stream, or not yet a list.  Only a mark that was written over
\* with an earlier one makes messages unread that the list has not counted.
Unread == Sent(IF lastRead = Null THEN 0 ELSE lastRead)
Unannounced == {i \in Visible : messages[i] = [from |-> "other", at |-> "stored"]}
ToCome == Cardinality(Unannounced) + (IF stream = Null THEN 0 ELSE stream)
UnreadIsShown ==
    view = "list" /\ row # Null /\ ~backwards =>
        Badge + ToCome + missed >= Cardinality(Unread)

\* No message is hidden from the reader, in whatever order messages are stored
\* and read, answers and events arrive: a message is given to the reader, or
\* counted as unread and shown in the list, but for the cases above, which do
\* occur (sendMessage, getMessages, listSessions, negotiation-list.tsx).
NoMessageHidden == MarkedWasFound /\ UnreadIsShown

-----------------------------------------------------------------------------
\* Why no message is hidden: an invariant that every step keeps.

TypeOK ==
    /\ messages \in Seq([from : {"reader", "other"}, at : {"saving", "stored", "announced"}])
    /\ lastRead \in Nat \cup {Null}
    /\ calls \in [Call -> {Null} \cup
           [kind : {"messages", "list"}, live : BOOLEAN, value : Nat \cup {Null},
            at : {"asked", "found", "marking", "counting", "answered"}]]
    /\ row \in Nat \cup {Null} /\ activity \in Nat
    /\ stream \in Nat \cup {Null}
    /\ missed \in Nat /\ backwards \in BOOLEAN

\* The messages up to a mark that is stored, or that a getMessages is about to
\* store, have been read for the reader or were created meanwhile.
Covered(last) == last \in 0..Len(messages) /\ 1..last \subseteq found \cup overlapped
MarksAreCovered ==
    /\ lastRead # Null => Covered(lastRead)
    /\ \A c \in Call :
          /\ Is(c, "messages", "found") => Covered(Len(messages))
          /\ Is(c, "messages", "marking") => Covered(calls[c].value)

\* A page has one list to wait for, and no row until it is there.
LiveList(c) == calls[c] # Null /\ calls[c].kind = "list" /\ calls[c].live
OneList ==
    /\ row # Null => view = "list"
    /\ \A c \in Call : LiveList(c) =>
          view = "list" /\ row = Null /\ \A d \in Call : LiveList(d) => d = c

\* A count is made with a mark that is not ahead of the stored one, so it covers
\* what is unread: on its way to the page, and with the events since then.
Counted(n) == n \in Nat /\ n + ToCome + missed >= Cardinality(Unread)
CountsCover ==
    ~backwards =>
        /\ \A c \in Call :
              /\ Is(c, "list", "counting") /\ calls[c].value # Null =>
                    lastRead # Null /\ calls[c].value <= lastRead
              /\ LiveList(c) /\ calls[c].at = "answered" => Counted(calls[c].value)
        /\ row # Null => Counted(Badge)

NothingHiddenInv == TypeOK /\ MarksAreCovered /\ OneList /\ CountsCover
=============================================================================
