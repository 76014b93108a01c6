----------------------------- MODULE MCPlatform -----------------------------
(***************************************************************************)
(* Small instances of the components that do not need each other to be     *)
(* checked.  A behaviour is one of a single component, chosen in its first *)
(* state; the components take turns in using the variables v1 to v13, and  *)
(* those a component has no use for are Null.  A configuration gives every *)
(* set and bound its value, so that what is proved of this module holds of *)
(* components of any size.                                                 *)
(***************************************************************************)
EXTENDS Naturals

CONSTANTS
    Parts, \* the components of this run
    Null,
    \* What several of the components have.
    Call,         \* requests that may be under way at the same time
    MaxRequests, MaxAsks, MaxRestarts, MaxFaults, MaxOpens, MaxRounds, MaxMessages,
    \* The job postings, the data sources and the settings.
    Chat, MaxJobs, Choice, Document, Amount, Default, Limits, MaxEdits,
    \* The accounts, the relay and the contract of the agreements.
    Social, Named, UserRole, Tab, MaxTries,
    RelayAccount, RelayRequest, Window, RateMax, MaxTime,
    ContractAccount, Session, SigningKey, Summary,
    \* The two parties, the seeding and the agent's keys.
    Party, MaxTalk, MaxRuns, MaxPolls, AgentKey, MaxBalance

ASSUME NullIsNoNumber == Null \notin Nat
ASSUME NullIsNoAmount == Null \notin Amount /\ Null \notin Limits
ASSUME RelayBounds == Window \in Nat /\ RateMax \in Nat
ASSUME FormIsNoChat == "form" \notin Chat
\* No account, and no row of the user table, is the absence of one.
ASSUME NullIsNoAccount ==
    /\ Null \notin Social \cup Named
    /\ Null \notin [role : UserRole, key : Social \cup Named]

VARIABLES
    part,  \* the component
    v1, v2, v3, v4, v5, v6, v7, v8, v9, v10, v11, v12, v13

vars == <<part, v1, v2, v3, v4, v5, v6, v7, v8, v9, v10, v11, v12, v13>>

\* Titles and dates that give the same canonical text when they trade a colon.
Texts == {<<"t">>, <<"t", ":", "t">>}
Summaries ==
    {[position_title |-> t, agreed_salary |-> <<"t">>, start_date |-> d,
      negotiation_rounds |-> <<"t">>] : t \in Texts, d \in Texts}

J == INSTANCE JobPosting WITH
    rows <- v1, calls <- v2, view <- v3, kept <- v4, missing <- v5,
    requests <- v6, restarts <- v7, unseen <- v8, stale <- v9, failed <- v10

D == INSTANCE DataSource WITH
    Ask <- Call, conn <- v1, ask <- v2, shown <- v3, detail <- v4, dialog <- v5,
    popup <- v6, asked <- v7, failures <- v8, stale <- v9, stuck <- v10

R == INSTANCE ResumePipeline WITH
    Tab <- {"t1"}, Pipeline <- {"p1", "p2"}, resume <- v1,
    pipe <- v2, tab <- v3, restarted <- v4, erred <- v5

S == INSTANCE Settings WITH
    row <- v1, fields <- v2, page <- v3, loading <- v4,
    timer <- v5, store <- v6, switch <- v7, calls <- v8, edits <- v9, faults <- v10,
    dropped <- v11, raced <- v12

A == INSTANCE Accounts WITH
    Role <- UserRole, rows <- v1, user <- v2, session <- v3, tab <- v4,
    funded <- v5, tries <- v6, opens <- v7, mixed <- v8

L == INSTANCE Relay WITH
    Account <- RelayAccount, Request <- RelayRequest, now <- v1, rateLimits <- v2,
    request <- v3, nonce <- v4, relays <- v5, spent <- v6, restarts <- v7

P == INSTANCE AgreementPage WITH
    MaxMessages <- MaxTalk, agreement <- v1, agreements <- v2, messages <- v3,
    page <- v4, calls <- v5, stream <- v6, faults <- v7

C == INSTANCE AgreementContract WITH
    Account <- ContractAccount, Key <- SigningKey, owner <- v1, system_agent <- v2,
    agreements <- v3

E == INSTANCE Seed WITH
    MaxTime <- MaxPolls, rows <- v1, run <- v2, demoOnly <- v3,
    at <- v4, missing <- v5, found <- v6, publicKey <- v7, waited <- v8, state <- v9,
    currentRound <- v10

W == INSTANCE EscrowPage WITH
    Key <- AgentKey, balance <- v1, keys <- v2, agentKey <- v3, page <- v4,
    calls <- v5, faults <- v6

N == INSTANCE NegotiationMonitor WITH
    Ask <- Call, state <- v1, currentRound <- v2,
    rounds <- v3, view <- v4, shown <- v5, listed <- v6, badge <- v7, due <- v8,
    asks <- v9, faults <- v10

U == INSTANCE UnreadMessages WITH
    messages <- v1,
    lastRead <- v2, calls <- v3, view <- v4, row <- v5, activity <- v6, stream <- v7,
    opens <- v8, faults <- v9, found <- v10, overlapped <- v11, missed <- v12,
    backwards <- v13

-----------------------------------------------------------------------------

\* The variables after the first n, which a component with n of them leaves
\* alone, and their value.
After3 == <<v4, v5, v6, v7, v8, v9, v10, v11, v12, v13>>
After5 == <<v6, v7, v8, v9, v10, v11, v12, v13>>
After6 == <<v7, v8, v9, v10, v11, v12, v13>>
After7 == <<v8, v9, v10, v11, v12, v13>>
After8 == <<v9, v10, v11, v12, v13>>
After10 == <<v11, v12, v13>>

Unused12 == v13 = Null
Unused10 == v11 = Null /\ v12 = Null /\ Unused12
Unused8 == v9 = Null /\ v10 = Null /\ Unused10
Unused7 == v8 = Null /\ Unused8
Unused6 == v7 = Null /\ Unused7
Unused5 == v6 = Null /\ Unused6
Unused3 == v4 = Null /\ v5 = Null /\ Unused5

Init ==
    \/ part = "jobs" /\ J!Init /\ Unused10
    \/ part = "sources" /\ D!Init /\ Unused10
    \/ part = "resume" /\ R!Init /\ Unused5
    \/ part = "settings" /\ S!Init /\ Unused12
    \/ part = "accounts" /\ A!Init /\ Unused8
    \/ part = "relay" /\ L!Init /\ Unused7
    \/ part = "agreePage" /\ P!Init /\ Unused7
    \/ part = "contract" /\ C!Init /\ Unused3
    \/ part = "seed" /\ E!Init /\ Unused10
    \/ part = "escrowPage" /\ W!Init /\ Unused6
    \/ part = "monitor" /\ N!Init /\ Unused10
    \/ part = "unread" /\ U!Init

Initially == Init /\ part \in Parts

Next ==
    /\ UNCHANGED part
    /\ \/ part = "jobs" /\ J!Next /\ UNCHANGED After10
       \/ part = "sources" /\ D!Next /\ UNCHANGED After10
       \/ part = "resume" /\ R!Next /\ UNCHANGED After5
       \/ part = "settings" /\ S!Next /\ UNCHANGED v13
       \/ part = "accounts" /\ A!Next /\ UNCHANGED After8
       \/ part = "relay" /\ L!Next /\ UNCHANGED After7
       \/ part = "agreePage" /\ P!Next /\ UNCHANGED After7
       \/ part = "contract" /\ C!Next /\ UNCHANGED After3
       \/ part = "seed" /\ E!Next /\ UNCHANGED After10
       \/ part = "escrowPage" /\ W!Next /\ UNCHANGED After6
       \/ part = "monitor" /\ N!Next /\ UNCHANGED After10
       \/ part = "unread" /\ U!Next

Spec == Initially /\ [][Next]_vars

\* Each component's own Fairness.  As only one component runs, fairness of the
\* k-th actions of all together is fairness of each, where Call is {1, 2}.
Fair(k) ==
    /\ UNCHANGED part
    /\ \/ part = "jobs" /\ k \in {1, 2} /\ J!Work(k) /\ UNCHANGED After10
       \/ part = "sources" /\ UNCHANGED After10
          /\ \/ k \in {1, 2} /\ D!Work(k)
             \/ k = 3 /\ D!ClosePopup
             \/ k = 4 /\ D!CheckPopupClosed
       \/ part = "resume" /\ UNCHANGED After5
          /\ \/ k = 1 /\ R!Work("p1")
             \/ k = 2 /\ R!Work("p2")
             \/ k = 3 /\ R!Poll("t1")
             \/ k = 4 /\ R!SomeAnswer("t1")
       \/ part = "monitor" /\ UNCHANGED After10
          /\ \/ k \in {1, 2} /\ N!Poll(k)
             \/ k \in {3, 4} /\ N!Answer(k - 2, "session")
             \/ k \in {5, 6} /\ N!Answer(k - 4, "rounds")

LiveSpec == Spec /\ \A k \in 1 .. 6 : WF_vars(Fair(k))

-----------------------------------------------------------------------------
\* The properties of the components, each of its own behaviours.

\* A chat makes one job the page is told of, and keeps it (JobPosting).
OneJobPerChat == part = "jobs" => J!OneJobPerChat

\* A cached analysis is one of the selected repositories (DataSource).
CacheIsOfSelection == part = "sources" => D!CacheIsOfSelection

\* A page that has come to rest shows what negotiations will use (Settings).
ShownIsSaved == part = "settings" => S!ShownIsSaved

\* An account is registered with its own key (Accounts).
KeyIsAccounts == part = "accounts" => A!KeyIsAccounts

\* An account is given NEAR once at the most (Accounts).
FundedOnce == part = "accounts" => A!FundedOnce

\* What the relayer pays for is bounded (Relay).
RelayBounded == part = "relay" => L!RelayBounded

\* A page claims no approval or rejection that did not happen (AgreementPage).
ShownIsTrue == part = "agreePage" => P!ShownIsTrue

\* A record on chain is never written over (AgreementContract).
RecordsAreFinal ==
    [][part = "contract" => \A s \in Session : v3[s] # Null => v3'[s] = v3[s]]_vars

\* The demo data are there once, whole, however often seeding stopped (Seed).
SeededOnce == part = "seed" => E!SeededOnce

\* The agent's key is shown as configured only where it is (EscrowPage).
KeyShownIsThere == part = "escrowPage" => W!KeyShownIsThere

\* A message is given to its reader or shown as unread (UnreadMessages).
NoMessageHidden == part = "unread" => U!NoMessageHidden

\* A published job is embedded in the end, in spite of a restart (JobPosting).
Unfound(j) == part = "jobs" /\ J!Unfound(j)
PublishedIsEmbedded == \A j \in 1 .. MaxJobs : Unfound(j) ~> ~Unfound(j)

\* A dialog does not wait for ever (DataSource).
Waiting == part = "sources" /\ D!Waiting
DialogSettles == Waiting ~> ~Waiting

\* A tab that waits for its resume comes to an end (ResumePipeline).
Generating == part = "resume" /\ R!Generating("t1")
GenerationEnds == Generating ~> ~Generating

\* A page that follows a negotiation ends up showing how it ended
\* (NegotiationMonitor).
Settled == part = "monitor" => N!Settled
MonitorSettles == <>[]Settled
=============================================================================
