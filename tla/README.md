# TLA+ models of TalentTEE

TalentTEE matches job seekers with employers: AI agents negotiate a contract
round by round, the two people approve or reject what the agents agreed, and
resume views are paid through an escrow contract on NEAR.  This directory holds
TLA+ models of the parts of the program that keep state, the TLC configurations
that check them on small instances, and proofs that TLAPS checks for all
instances.

    tlc -workers 2 -config MCEscrowContract.cfg MCEscrowContract.tla
    tlc -workers 2 -config MCPlatform.cfg MCPlatform.tla
    tlapm EscrowContract_proofs.tla

## Inventory

The program is a NestJS backend (one Node.js process, PostgreSQL through
TypeORM), a Next.js frontend and two NEAR contracts in Rust.

| Component (source) | State | Operations | What makes it correct |
|---|---|---|---|
| Escrow contract (`contract/escrow`) | balances, price, agents, earnings, access records; NEAR on its account | deposit, pay_for_profile, withdraw, authorize/revoke agent, set price | solvency, no money lost or paid twice, only authorised spending, records are the newest ones |
| Agreement contract (`contract/agreement`) | one record per session | record_agreement, set_system_agent | one record per session, hash and signatures match it |
| Negotiation engine (`negotiation-engine.ts`) | none | transition, getActorForState, isTerminal | turn taking, round limit |
| Negotiation service (`negotiation.service.ts`) | session and round rows; in-memory map of directions; background runs | create, start, intervene, executeRounds | rounds and session agree, a verdict is final, it ends and is announced |
| Agreement service (`agreement.service.ts`) | approval columns of the session row; messages, when each party last read | approve, reject, confirmTx, send and get messages, verify | approvals are not lost, hash exactly when both approved, rejection is final, no message is hidden from its reader |
| Agreement page and SSE (`agree/page.tsx`, `lib/sse.tsx`, `sse.service.ts`) | flow state of a page, requests under way, open streams, messages | approve/reject clicks, event handlers, reconnect, interview chat | a page claims nothing that did not happen |
| Match service, handoff (`match.service.ts`, `real-negotiation-handoff.ts`) | match rows | match runs (events, cron, API), agree, retry | one match per pair, one negotiation per match, limit of those per seeker |
| Profile access and payment (`profile.service.ts`, `real-escrow-payment.ts`) | grant rows | requestAccess, getReport | nothing is granted unpaid, nothing paid twice |
| Escrow page (`escrow/page.tsx`, `lib/near.ts`, `escrow.service.ts`) | shown balance, agent key of the server and of the account | load, deposit, add the key | a key is shown as configured only where it is |
| Relay (`relay.service.ts`) | delegate cache, rate limits, both in memory | prepare, submit, purge, restart | each delegate is relayed at most once, expiry, limit between two starts |
| Accounts (`auth/*`, `login`, `signup`, `wallet-adapter.tsx`, `web3auth.tsx`) | challenges, users; wallets and attempts of each tab | challenge, verify (login, signup), connect, sign, sign out | an account has its own key, is created and funded once |
| Job postings (`job.service.ts`, `jobs/create/page.tsx`, `jobs/page.tsx`) | job rows, chats in the browser's storage, background tasks | create, publish, close, chat, boundary, backfill | one job per chat, a published job is embedded |
| Settings (`seeker.service.ts`, the pages' sliders and switches) | preference columns of the user, fields and timer of a page | change, debounced save, load, switch | what is shown is what negotiations use |
| Resume pipeline (`resume.service.ts`, "My Value" page) | resume row, pipelines, tabs | generate, background pipeline, poll | a page that waits comes to an end |
| Data sources (`datasource.service.ts`, `datasource/page.tsx`, dialogs) | connection rows with analysis cache; dialogs, popup | connect, select, disconnect, read, background analysis | the cache belongs to the selection, no dialog waits for ever |
| Negotiation pages (`negotiation/[sessionId]/page.tsx`, `AgentStatusProvider.tsx`, lists) | shown session and rounds, polls | poll, open a session, mark a row | they end up showing the outcome |
| Demo seed (`seed.ts`) | all tables | find or insert one row after the other, a real negotiation | what it fills is there once and whole |
| AI client, cryptography, dashboards, schema | - | I/O, pure functions, rendering | outside this project, see below |

How they interact.  The match service calls the handoff, which pays through
profile access (and so the escrow contract), creates a session and starts it.
`POST negotiation/sessions` and its `/start` do the last two for any job and seeker,
without match, payment or limit.
`startNegotiation` runs `executeRounds` in the background.  When it ends, it
emits an event that the SSE service pushes to both participants' open streams.
They approve or reject through the agreement service, which writes the same
`negotiation_session` row.  The page of the second approver asks the wallet to
record the agreement on chain and reports the transaction with confirm-tx.

What is hard here:

- Every `await` is a point where other requests run.  Services load an entity,
  await something and save the entity, so a decision may rest on old columns
  and a save may write old columns back.  Only `approve` takes a lock.
- Background runs are in memory only.  A restart ends them, and directions.
- Events are dropped when the user has no stream, and never repeated.
- A contract's transfers are executed by the chain later and may come back.
- Pages ask, poll and get events at once: answers come back in any order, to a
  page that has gone on, or is gone.  Several tabs share a row, or a wallet.

`PROJECT.json` lists each hazard at its line, with the properties that cover it.

## Modules

| Module | Models | Uses |
|---|---|---|
| `EscrowContract` | the escrow contract and the chain that settles its transfers | |
| `NegotiationEngine` | the engine's functions as operators | |
| `NegotiationProtocol` | abstract: what a session promises | `NegotiationEngine` |
| `Negotiation` | the negotiation service, implements `NegotiationProtocol` | `NegotiationEngine` |
| `EntitySave` | TypeORM's save of an entity loaded earlier (external) | |
| `Agreement` | the agreement service's approve, reject, confirmTx | `EntitySave` |
| `AgreementContract` | the contract that records agreements | |
| `AgreementPage` | both parties' pages, their event streams, the interview chat | `AgreementContract` |
| `UnreadMessages` | interview messages, the mark of what was read, the dashboard's badge | |
| `Matching` | match service, handoff, profile access and payment as one | `EntitySave` |
| `EscrowPage` | the employer's escrow page and the agent's key | |
| `JobPosting` | a job posting: pages, service, background embedding | `EntitySave` |
| `Settings` | preferences: service and the pages that edit them | `EntitySave` |
| `DataSource` | data sources: service, page, dialogs | |
| `ResumePipeline` | the resume: service, background pipelines, tabs | `EntitySave` |
| `Accounts` | signup and login over two kinds of wallets | |
| `Relay` | meta-transactions | |
| `NegotiationMonitor` | the pages that follow a negotiation | `NegotiationProtocol`, `NegotiationEngine` |
| `Seed` | the script that fills a database | `NegotiationProtocol` |
| `MCEscrowContract`, `MCNegotiation`, `MCAgreement`, `MCAgreementScript`, `MCMatching` | instances for TLC | |
| `MCPlatform` | instances of twelve components in one model, see Runs | those components |
| `SumTheorems` | lemmas about the sum of a function over a finite set | TLAPS |
| `EscrowContract_proofs`, `Negotiation_proofs`, `Agreement_proofs`, `Matching_proofs` | theorems | the component, TLAPS |
| `Pages_proofs`, `Services_proofs`, `Saves_proofs` | theorems about the components in `MCPlatform` | `MCPlatform`, TLAPS |

An operator whose name has an underscore (`PlatformShare_ByPercent`) is a
plausible bug in the definition after it.  It is used by nothing; put in that
definition's place it violates the property `PROJECT.json` names, which shows
that the property depends on the code.

### EscrowContract

One action per method.  A contract call is atomic and a failed assert changes
nothing, so the asserts are guards.  The contract is built with
`overflow-checks = true`: an addition or product beyond `U128Max` aborts, and
is a guard too (`FitsU128`).  A transfer is a receipt in `pending`: its amount
leaves `native` at once, then the chain credits the receiver (`Deliver`) or
refunds the contract (`Bounce`, which no method notices).  `accounts`,
`balance`, `access_records`, `authorized_agents` and `seeker_earnings` are the
contract's maps with a default where there is no entry; `accounts` keeps which
entries exist, because the code refuses an employer without one.  The vector of
agents is used as a set.  `history`, the list of all paid views with their
callers, and `stranded`, the refunds per receiver, are not in the code: the
properties compare the code's state with them.  Gas and storage fees are left
out.

### Negotiation

`StartRead` and `StartSave` are the two halves of `startNegotiation`.  A
background run goes `loading`, `preparing`, `calling` (waiting for the AI),
`saving` (the round is saved, the session not yet), `saved` (session saved) and
back to `calling`, or to `finishing` through the catch block.  `mem` is the
session object of the run, `rows` the database: they differ, and every save
copies the one over the other.  An AI answer is a `Decision`: any string that is
none of the three words acts as a counter-offer, as in the code.  A garbled
answer is asked for once more (`GarbledReply`); garbage again, an AI error or a
failing save is `FailRound`.  A failing save in the catch block itself is
`FailureSaveLost`, a restart of the server `Restart`.  `StartSave` sets `mem` too: the
object that was saved is the one the background run gets.

Simplifications: `sessionRepo.save` is one step here (only the executor writes
these columns, and with two executors both columns come from one of them);
contents of offers, prompts and encryption are left out; the branch for a
session without job or seeker is left out, as both are foreign keys and nothing
deletes those rows; a round's role is the agent that was asked.

`NegotiationProtocol` is the specification the other parts rely on: a session
moves along the engine's table, one round at a time.  `ImplementsProtocol`
checks that `rows` implements it whatever fails.

### Agreement

One session row and any number of API calls.  `approve` is `ApproveLock` (FOR
UPDATE, checks, flag), `ApproveSave` (the saves and, before the commit, the
event) and `ApproveCommit`.  `reject` and `confirmTx` are a read
(`RejectRead`, `ConfirmRead`) and a save, `SaveSelect` and `SaveUpdate`:
TypeORM first SELECTs the row and then UPDATEs the columns in which the entity
differs (`EntitySave!Saved`).  The UPDATE waits for the row lock, the SELECT
does not.  `Abort` is a failing statement or a restart: the transaction rolls
back.  The row starts as `executeRounds` leaves it when the agents agree.  The
salary, which only fills the transaction's arguments, is left out.

### AgreementPage and AgreementContract

`AgreementPage` is what the two users see of that row.  A request is served in
one step (what calls do to each other in the database is `Agreement`), but its
answer returns later, in any order: `Serve` is the server, `Return`, `Approved` and
`Catch` are the continuations of the page.  `flow` is the page's `flowState`; the
comparison with it in the event handlers is kept, as is each fetch an event
starts.  A stream is the queue of events on an open connection, or Null; events
pushed to Null are lost.  `Lose`, `Reload`, `Break` are the faults.

`AgreementContract` keeps the control of `record_agreement`: who may call, the
existing record, hash and signatures of the canonical summary.  A text is a
sequence of tokens, because the canonical form joins texts by a colon that they
may contain.  `AgreementPage` calls it with the parameters the backend hands out.

### UnreadMessages

`sendMessage` is `Create`, `Commit` and `Announce`: `created_at` is the time at which the
save's transaction begins, and others see the row when it commits.  `getMessages` is a
read (`Find`), the time (`Clock`) and an update (`Mark`); the list of sessions reads the
marks first (`ReadMarks`) and counts afterwards (`Count`).  Server and database have one
clock, and a time is the number of messages created until then; that times are cut
to milliseconds is left out.  The reader is one party, on the list or in the chat, and
answers for a page left behind are dropped.  A reader who never opened the chat
is told of all messages, the own ones too; the comment in `listSessions` speaks of the
other party's only, but the badge then only shows too many.  History variables mark
what the property has to leave out: a message created while `getMessages` had read and
not yet marked (`overlapped`) is marked as read unseen, a mark written over with an
earlier one (`backwards`) makes messages unread again, and events without stream or
list (`missed`) are not counted.

### Matching

A call is a request, event or cron pass and a list of steps, one per statement
between two awaits: read, insert or update the match row (`Ranked` onwards), count
active sessions (`CheckLimit`), look for a grant (`Access`), pay (`Pay`), save the
grant (`Grant`), create, start and record the session.  Any step may fail, and
the error handling of each call decides how it goes on (`Fail`): match runs swallow
it per pair, requests end.  Salaries are sequences of digits compared as text,
which is what the code does with bigint columns.

What vector search and the reranker let through is any list of eligible pairs, and
a pair may be in it twice: `near-ai.client.ts` parses the AI's answer and neither drops
an index it names again nor checks its range (an index out of range makes the run
throw, which is a failing statement).  The loop then treats the pair twice; the history
variable `twice` keeps such pairs.  Each direction's query asks for the status of the other
side only (`JobsFor`, `SeekersFor`: ACTIVE postings, COMPLETE resumes); `listed` says who has
it, and `Relist` changes it at any time.  That a resume or posting also changes its skills
or salaries is left out.

`CreateSession` and `StartSession` are `POST negotiation/sessions` and `/start`.  They ask for
no match, no payment and no limit, although a design document
(`docs/superpowers/specs/team/seungyeon-negotiation.md:170`) has them follow an agreed match.
So nothing about payment or limit holds of all sessions: `NothingForFree`, `LimitRespected`
and `NegotiatedOnce` are about the sessions a match opens, marked `matched`, with the others
there.  All sessions count towards the limit, as in the code, and a request may start a
session that a match has opened, in which case the match's own start throws (`Start`).

### JobPosting, DataSource, ResumePipeline, Settings

Each has the page and the service in one model, since the hazards are in what
the page does while a request is under way.  Requests are records that go
through the service's awaits (`Read`, `Select`, `Update`, ...), and what the service
leaves in the background goes on after its answer.  `EntitySave!Saved` makes the
UPDATE write the columns in which the entity differs from the row as selected.
History variables mark what the properties have to leave out: `stale` is a row
written over with an entity read before somebody else's save, `dropped` a change
cancelled by the timer all fields share, `unseen` a draft whose answer came to no page.  These exceptions are defects of the
code that no sentence in the repository denies, so they are stated here and in the
comment of the property and not as findings.

The chat's draft is stored (`MakeDraft`) before its answer reaches the page (`ChatAnswer`).
`Lose`, a page left (`Show`) or a restart may come in between; the page then asks for another
try, and the service makes a second draft.  The form creates and publishes in two requests,
of which the second is not sent unless the first was answered.

In `DataSource` a failed load of the repositories (`LoadFails`) and a blocked popup (`Login`)
lead to the dialog's error page, whose only button goes to its first (`TryAgain`); a
window that is closed takes the dialog back to the step it began with, which is the list
of repositories when they are being managed.  In `ResumePipeline` the interval asks (`Poll`)
whatever became of the polls before, and answers come late and in any order (`PollAnswered`);
they are kept as the set of statuses on their way.

### Accounts and Relay

A tab of `Accounts` has its page, what each wallet remembers (`near`; Web3Auth's
`connected`, the key in the React state `key` and the one in the ref `ref`) and its
attempt.  The handler of a click works with the state of its render: `rendered`.
`Find` and `Create` are separate, so two tabs may both find no user.

`Relay` counts time in minutes, the purge's interval.  The list of times behind the
rate limit is a set, each time with the request it counts: two requests of one
minute are two entries, as in the list.  `Build` is the browser's part
(block height and nonce of the delegate), `Land` the chain, which takes a nonce
once.  `Restart` empties the list of times and the cache, which are Maps of the process;
what was sent to the chain may still be run.  Each time says which life of the server it
belongs to, as the limit is kept within one.

### NegotiationMonitor, EscrowPage, Seed

`NegotiationMonitor` follows the page that is open against a session that takes
the steps of `NegotiationProtocol`; a poll is two requests whose answers come one by
one.  `EscrowPage` has the key check of `lib/near.ts` apart from the balance; a refresh after a
deposit compares with the balance that was shown at the click.
`Seed` keeps one row of each kind with its references: `Find` and `Insert` per row,
`Stop` anywhere, the next run from the beginning.  Of the server beside it only the removal
of a connection is there: a connection made again, or a match inserted between the
script's look and its insertion, would be doubled, and `SeededOnce` says so.

## Runs

| Run | Configuration | Distinct states | What it shows |
|---|---|---|---|
| escrow | `MCEscrowContract` | 521 408 | money is conserved, records are the newest views, spending authorised |
| negotiation | `MCNegotiation` | 319 330 | rounds match the session, protocol implemented, with a fault |
| negotiation_live | `MCNegotiationLive` | 73 882 | two runs on one session: it ends and is announced, approve finds its round |
| agreement | `MCAgreement` | 119 688 | approvals survive concurrent calls, nobody waits for the lock for ever |
| matching | `MCMatching` | 750 284 (up to symmetry) | rows, payments, grants and sessions agree |
| platform | `MCPlatform` | 3 805 669 | ten components, each alone: what is stored is consistent, what is shown true |
| platform_live | `MCPlatformLive` | 230 368 | jobs are embedded, dialogs and tabs do not wait for ever, a page ends up showing the outcome |
| direction_applied | `MCDirectionApplied` | - | refuted: a direction does not touch the round in progress |
| rejection_is_final | `MCRejectionIsFinal` | - | refuted: a rejection cannot be taken back |
| salaries_overlap | `MCSalariesOverlap` | - | refuted: matched salary ranges overlap |
| completed_is_recorded | `MCCompletedIsRecorded` | - | refuted: a completed agreement is recorded on chain |
| recorded_is_approved | `MCRecordedIsApproved` | - | refuted: an agreement with a recorded transaction has its approvals and hash |

`MCPlatform` puts components that share nothing side by side: the first state
chooses `part`, and the component's variables are `v1` to `v13` by INSTANCE.  Its
states are the sum and not the product of theirs, and a property named there says
`part = ... =>` the component's own.  It is one run because the questions are alike.
Its sets and bounds are constants to which the two configurations give values, so
that what is proved of `MCPlatform` holds of components of any size.

What the properties say is in the comment above each one.  In short:

- `Solvent`, `LedgerBalanced`: the contract's NEAR is what it was deployed with
  plus all balances plus refunds; each account's money is what it started with
  minus its charges plus its shares and fees, wherever it is on its way.
- `EarningsMatchHistory`, `AccessHistoryIsRecent`: what the contract keeps
  incrementally agrees with the full history, over price changes and the cap.
- `NoOverflowAbort`: while the total supply times 80 fits a u128, the multiplication
  refuses no affordable view and every deposit fits; the addition to a seeker's
  earnings, a running total that nothing bounds, refuses no view while it is a whole
  supply away from the largest u128.  `SpendAuthorised`: a balance goes
  down only as its owner or an agent of that moment asked.
- `RoundsMatchSession`, `VerdictEnds`, `CompletionIsTrue`: the two tables and the
  announcement agree although they are written one after the other.
- `AgreementHasAcceptRound`, `StartedTerminates`, `OutcomeAnnounced`: two start
  requests do start two runs on one session, which overwrite each other; still
  approve finds the ACCEPT round it looks for, the session ends, and is announced.
- `AgreementIsWhole`, `AnsweredApprovalKept`, `SomeoneGetsTransaction`: the
  unlocked saves of reject and confirmTx do not break an AGREED row, and two
  simultaneous approvals do not both wait.  `AgreementIsWhole` is about AGREED
  rows because it fails for FAILED ones: a reject whose SELECT comes between two
  approvals clears the first and keeps the second's hash.  The first two are about
  at most one rejection (`AtMostOneRejection`): a confirmTx that revives a
  rejected session lets it be rejected again, and that second rejection can clear
  approvals and hash of a row that another confirmTx makes AGREED once more.  Five
  calls do it; `RecordedIsApproved` is the run that shows it.
- `OnlyConfirmRevives`, `RejectionIsFinal`: a rejected session returns to AGREED
  only through a confirmTx that read it before, and that does happen.
- `NothingForFree` and `LimitRespected` hold whatever fails or overlaps, of the sessions that
  matches open.  The limit does not: calls that overlap may all count before one of them
  opens its session, so each call beside the first may go one past it, and
  `LimitRespected` says that it is never more.
- `OneRowPerPair` is about calls that do not overlap, `PaidOnce` and `NegotiatedOnce`
  about calls that moreover do not fail, the latter about pairs the reranker never named
  twice in one answer: nothing is locked, and TLC shows each broken without its premise.
- `MatchesBothWays`: while the posting of a stored pair is ACTIVE and its resume COMPLETE,
  both queries and filters let the pair through.  Without that premise it fails: a run
  for a closed job stores matches that the seeker's direction would not find.
- `OneJobPerChat`: of the drafts a page was told of, a chat has one, and the page keeps that
  one.  A draft whose answer is lost does get a second one beside it.
- `CacheIsOfSelection`: the cached analysis of GitHub is of the repositories selected now, and a
  disconnected source has none.  `ShownIsSaved`: what the page takes for saved is what the
  service has, after any order of requests and answers.
- `KeyIsAccounts`, `FundedOnce`: the relayer could not serve an account whose row
  has another key, and pays for each new account.  `RelayBounded`: what it pays for, the
  rate limit between two starts of the server, one relay per delegate in all of them.
- `ShownIsTrue`, `KeyShownIsThere`: a page never claims what did not happen.  That
  it learns of what did happen is not promised: a lost event is not made up for.
- `NoMessageHidden`: a message is given to its reader or counted as unread and shown
  in the list, in whatever order messages are stored, read and announced.
- `RecordsAreFinal`, `SeededOnce`: what was written once stays, is whole, and is
  not written twice.
- `PublishedIsEmbedded`, `DialogSettles`, `GenerationEnds`, `MonitorSettles`: nothing
  waits for ever, apart from the cases each comment names.

### Bounds

- escrow: two employers (one is a seeker too), a seeker, the owner.  Prices 5
  and 2 give an exact and a rounded share; 0 is refused.  `e1` has 7 NEAR, which pay three
  views at 2, one more than the two records that are kept: the list is
  full in its order and the oldest goes.  `U128Max = 880` is 80 times the supply, so
  `NoOverflowAbort` is checked where it is tight.  `MaxReceipts = 6` is the transfers of
  three views, or of two with withdrawals.
- negotiation: three rounds reach each state of the engine and both kinds of
  limit; two sessions share the map of directions; `s2` has a key that does not decode;
  one fault.  A second fault meets a run that is dead already.
- negotiation_live and direction_applied: the smallest instance in which both
  agents speak and the limit is met (two rounds; three where a direction needs a
  later turn).
- agreement: four calls are two approvals, a confirm-tx and a rejection, which take a row
  to FAILED and back to AGREED while an approval or another confirm-tx is under way.  One call
  always approves and one always confirms; the other two ask for anything.
  rejection_is_final has the same four.  recorded_is_approved has
  five, each with its request given: the shortest way to a second rejection of a
  revived session.
- matching: one seeker with the limit 1, jobs of two employers (one without a
  minimal salary, so every case of the comparison is met) and a third employer with a
  long account id.  Two overlapping requests, or three one after the other; a session
  created or started by a request counts as one.  The constraint `FewIncidents` keeps a behaviour
  to one failing statement or one change of a status, and while requests overlap to
  no change of a status and no repetition by the reranker: the proofs cover those.
- platform: two requests or tabs under way where overlapping matters, one fault or
  restart; a seed that is run three times, relay requests up to one more than the
  limit, a window of two minutes and four minutes of time; with a restart between
  them, a window does have three.  Two messages, two pages
  opened and two of the reader's requests let a message fall between any two steps
  of `getMessages` and of the list, and two marks pass each other.
- platform_live: two requests of a page, which suffice for each wait to begin
  and to be overtaken by another; two pipelines for the resume; two answers on their
  way to a tab that polls; two polls of the
  page that follows a negotiation, as one is started while the last is under way.

`CHECK_DEADLOCK FALSE`: the models stop when their bounded requests are all
answered: the escrow model when its receipts are used up, the agreement model when
all calls are answered, the others when nobody may ask any more.

### Fairness

- `Negotiation!FairSpec`: weak fairness of the save in `startNegotiation` and of
  the background run.  Node.js runs every continuation whose await has settled,
  and the AI client gives up after 60 s (`near-ai.client.ts`), so no await stays
  open.  Nothing is assumed of users.  The liveness run has no faults and a
  decodable key: a restart does leave a session active for ever.
- `Agreement!FairSpec`: weak fairness of each call's steps.  PostgreSQL runs each
  statement and hands on a free lock; the calls are finitely many.  `Abort` is
  possible but owed nothing.
- `JobPosting!Fairness`, `DataSource!Fairness`, `ResumePipeline!Fairness`: weak fairness
  of the steps a request or background task takes by itself, for the same reason,
  of the browser's intervals and of the answers to their polls.  `DataSource` also lets the user close GitHub's
  window at last; the dialog cannot know of it otherwise.
- `NegotiationMonitor!Fairness`: weak fairness of each answer and of the polling
  timer.  The session itself is owed nothing; lost requests are bounded.
- `MCPlatform!LiveSpec` is the conjunction of these four: only one component runs, so
  fairness of `Fair(k)` is fairness of its k-th part.

## Proofs

TLC checks the properties of all theorems but `Negotiation!TypeOK` on the instances
above; the proofs are for every value of the constants that meets the component's
assumption.  Numbers of
calls, sessions, faults and restarts, where a bound limits them, are any.

### EscrowContract

`EscrowContract_proofs`, for all accounts, amounts, prices, caps and bounds:

- `TypeCorrect`: `Spec => []TypeOK`.  `TypeOK` is inductive as it stands.  What is
  not obvious is that balances stay natural numbers (the guards cover the
  subtraction) and that both parts of a price do (`ShareBounds`: rounding down
  80% leaves a remainder between 0 and the price).
- `SpendingAuthorised`: `Spec => SpendAuthorised`.  A withdrawal shows in this
  property as a transfer that was not pending before, so the proof needs that
  receipt ids are never reused: `ReceiptsNumbered` (every pending transfer has
  an id below `nextReceipt`).  `ReceiptsInv` is that with `TypeOK` and with the set of
  pending transfers being finite (`PendingFinite`).  One lemma per spending call
  (`WithdrawSpends`, `ViewSpends`) ties the drop of a balance to the call's
  arguments; every other action leaves balances alone or raises one.
- `AlwaysSolvent`: `Spec => []Solvent`.  Each action moves `native` by what it moves the
  sums of balances and refunds.
- `OverflowNeverRefuses`: `Spec => []NoOverflowAbort`.  It needs that NEAR neither
  appears nor disappears (`Conserved`: `native`, all wallets and the transfers on
  their way are the supply), because with `Solvent` that bounds one account's
  balance and wallet together (`HoldingsBounded`), and with them the price of an affordable
  view, which is what its earnings can go up by.
- `EarningsRecorded`, `NothingLostOrPaidTwice`: `EarningsMatchHistory` and
  `LedgerBalanced` are inductive with `ReceiptsInv`; both compare sums over the history
  before and after a step.
- `RecordsAreNewestViews`: `Spec => []AccessHistoryIsRecent`.  `PushKeepsNewest` shows for
  one list (`NewestOf`) that pushing and dropping the oldest keeps the newest.

These rest on `SumTheorems`.  The community modules define the sum of a function
over a set by a recursion that takes members in an unknown order, and the
provers cannot use an induction theorem over a predicate.  They can use one over
sets: the subsets of a finite set at which a lemma fails would have a smallest one
(`SmallestSet`), and a smaller subset contradicts it.  So the sum is unique,
exists, and moves with one member (what the escrow lemmas cite).

### Negotiation

`Negotiation_proofs`, for any number of sessions, requests, directions and rounds:

- `TypeCorrect`: `Spec => []TypeOK`.
- `AgreementsHaveTerms`: `Spec => []AgreementHasAcceptRound`, also when several requests
  start one session.  The invariant `AcceptBehind` says that where a row, or the
  session object of a run that may save it, is AGREED, an ACCEPT round is stored:
  rounds are only added, so no overwritten save can take it away.
- `RoundsMatch`, `VerdictIsLast`, `AnnouncementsAreTrue`, `FollowsProtocol`:
  `RoundsMatchSession`, `VerdictEnds`, `CompletionIsTrue` and the refinement
  `ImplementsProtocol`, for sessions that are started by one request each
  (`OneRequestEach`), as the handoff of matches starts them and as the run checks
  them.  With two, they fail.  Their invariant `Orderly` relates the stored row to its
  rounds (`SessionAt`: nothing said yet, an answer awaited, an answer stored of which the
  row does not know yet, or over) and both to the session object and the stage
  of the run (`StageAt`, `InStep`), for every point at which the run may be stopped.
  `ProtocolStep` shows that each step from such a state is a step of
  `NegotiationProtocol` or leaves `rows` alone.

### Agreement

`Agreement_proofs`, for any number of concurrent calls:

- `OnlyConfirmTxRevives`: `Spec => OnlyConfirmRevives`.  `Orderly` says what types the
  variables have, who holds the lock at which stage (`LockOf`) and what a call's
  object and answer can be (`OrderOf`); then a save cannot write AGREED over a
  rejection unless it is a confirmTx's.
- `StandingAgreementIsWhole`, `ApprovalsAreKept`: `AgreementIsWhole` and
  `AnsweredApprovalKept`.  The invariant has two phases.  Before any rejection is saved
  (`Ongoing`), the row only gains approvals, hash and transaction, and whatever a
  confirmTx has in hand was read from a whole row.  Once one rejection is saved and
  no second (`Frozen`), the row and each object of a confirmTx have one of two
  contents and the state tells which: the full agreement, or the approvals and
  hash the rejection left.
- `NobodyWaitsForBoth`: `SomeoneGetsTransaction`, with `Hashless`: until somebody is told
  that both approved, there is no hash in the row nor in any object.

### Matching

`Matching_proofs`, for any finite sets of seekers and jobs, any number of calls and
any limit; four invariants, each resting on those before:

- `Ordered` holds always: what a call has in hand fits the tables, and payments cover
  the grants there are and those about to be stored.  From it `NothingIsFree` (`NothingForFree`) and
  `DirectionsAgree` (`MatchesBothWays`).
- `LimitNearly` holds always: the sessions matches have open for a seeker and the calls that
  have counted and not opened theirs yet are together at most the limit and one for
  each call beside the first, because whoever passes the count saw fewer than the
  limit.  `Alone` holds while calls do not overlap: what a call has found is still so
  when it acts on it.  From the two `LimitIsKept` (`LimitRespected`), from `Alone`
  `PairsAreStoredOnce` (`OneRowPerPair`).
- `Calm` holds while, besides, nothing has failed: every payment has its grant or a
  call about to store it (`PaidInOrder`), every session a match opened its row or a call about to
  record it (`NegotiatedInOrder`), but for the pairs in `twice`.  From it `ProfilesArePaidOnce` (`PaidOnce`) and
  `PairsNegotiateOnce` (`NegotiatedOnce`).

The premises are those of the properties; TLC shows each of them needed.

### The components in MCPlatform

Three modules prove `Spec => []P` for each invariant of the run `platform`, and
`Spec => RecordsAreFinal`.  `Spec` is `MCPlatform`'s, whose constants are arbitrary: any
sets of calls, chats, accounts, tabs, requests and keys, and any bounds.  Assumed is
only that `Null` is none of the numbers, amounts, accounts and rows it stands for the
absence of (`NullIsNoNumber`, `NullIsNoAmount`, `NullIsNoAccount`), that the window and
the limit of the relay are natural numbers (`RelayBounds`) and that no chat is called "form" (`FormIsNoChat`).

Each proof has the same outline.  The component's module ends with the inductive
invariant; it says `part = ... => Inv` of the platform, holds initially, and is kept
because a step is one of the component's or leaves its variables alone.  A lemma says
what it takes that one call, tab or row goes on while all others stay (`OneCallGoesOn`,
`JobsGoOn`, `RequestGoesOn`, ...); there is one lemma per group of actions below it.
What each invariant adds to its property, and why the property alone is not kept:

`Pages_proofs`

- `PageTellsTheTruth`: `ShownIsTrue`.  A page copies an answer that was given a while
  ago, so `AnswersAreTrue` says of every answer under way that it is still true;
  that rests on approvals and rejections only being added (`Grows`, `HoldsOn`).
- `ConfiguredKeyIsThere`: `KeyShownIsThere`.  The answer to a check is shown later,
  beside the key the page then has.  `LoadsFirst`: while the page loads nothing else is
  under way, so the key it shows is settled before any check is sent.
- `MessagesAreNotHidden`: `NoMessageHidden`.  `MarksAreCovered`: not only the stored mark
  but also the one a `getMessages` is about to store covers found or overlapping messages.
  `CountsCover` follows the badge: a count is made with a mark that is not ahead of the
  stored one, and what it lacks is announced or missed (`ToCome`); for that each
  step's effect on the numbers of unread and unannounced messages is computed.
  `OneList`: a page waits for one list at a time.

`Services_proofs`

- `RelayIsBounded`: `RelayBounded`.  `PrunedIsWhole`: inside the window the pruned times
  are all there were in this life of the server, and each earlier life has the limit too.  `CachedIsFresh`: what is in the cache has not been relayed,
  and has survived each purge, so it is not older than the window.
- `SeedingIsRepeatable`: `SeededOnce`.  `HasWhatItPassed`: the rows a run has found or made
  are there and are what later rows refer to.  `OneOfEach`, `RefersToRows`: so a row that an
  earlier run left refers to the very rows this run has, and is found and not inserted
  again.  `SeedOrder` is about the plan itself: one row per kind, each after
  what it refers to, and none refers to a connection, the one kind that can be removed.
- `AccountHasItsKey`, `FundedAtMostOnce`: `KeyIsAccounts`, `FundedOnce`.  `Tracks` says
  of each tab that the key an attempt finds until it signs, and carries afterwards, is
  its account's; `mixed` accounts excepted.  `Create` needs a place without a row, hence an account not funded so far.
- `RecordIsFinal`: `RecordsAreFinal`, with the domain of the contract's table, because an
  update outside of it would say nothing of the entry read later.

`Saves_proofs`

- `ChatMakesOneJob`: `OneJobPerChat`.  `OneAnswerAwaited`: the page waits for one call of a
  chat at the most, and only while it keeps no job of it (`Sound`).  `KeptIsMade`: each
  draft is kept, told by the answer on its way, or unseen.  The saves of other requests
  write back entities they read before, so `IsOf` says that each such entity is of the
  chat of the row it replaces.
- `CachedAnalysisIsOfSelection`: `CacheIsOfSelection`.  What a request writes depends on what
  it read; `AsksAreSound` says which requests have read something, and that GitHub's row
  is never saved by the requests of the fixtures or of a document, whose content is no
  analysis of repositories.
- `RestingPageIsTrue`: `ShownIsSaved`, an equality that holds at rest only.  In between,
  `ShowsTheChange`: the page shows the change that waits for the timer, or else the one being
  saved, or else the row.  `OneSave`: the save under way has read, and will find, the row as it
  is, which is why `EntitySave` changes what was asked and nothing else.  `LoadsTheRow`: while
  preferences are loaded no save of the page's fields is under way, so the answer is current.

### Only model-checked

- Liveness: `EveryCallAnswered`, `StartedTerminates`, `OutcomeAnnounced`,
  `PublishedIsEmbedded`, `DialogSettles`, `GenerationEnds` and `MonitorSettles`.  The
  prover does not handle fairness.
- The five refuted statements: what their runs show is a counterexample.

Every other property of a passing run, safety or refinement, is a theorem.

## Not modelled

- The AI client, cryptography, signature verification and file or GitHub readers
  are I/O or pure functions; they appear as nondeterministic answers.
- Dashboards, the action card, the round history, the landing page and layout
  render what their last requests returned and keep nothing; of the session list
  only the unread badge is modelled.  `lib/api.ts` is one request per function,
  which the page models send themselves.
- Views of the contracts and lists of the services change nothing, and
  `verifyAgreement` is a read.
- Dummy mode of the frontend, dev-login and the stub for payments are for
  development.
- Entities, DTOs, modules and `main.ts` are schema and configuration.

Done: every component above with the operations that change state, its safety
properties and their proofs, and liveness where the code's scheduling justifies it.
What could come next:

1. The preferences and the match run as one model: a limit that is lowered while a run
   is on its way (`Settings` and `Matching` share the user row's columns only).
2. The pages with two tabs of one party, which share the wallet and the account.
3. The resume pipeline's safety: which pipeline's text the row ends up with; nothing
   in the code or the docs promises an answer today.
