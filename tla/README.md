# A TLA+ verification project for the Hermes customer-service runtime

The repository is the runtime of a customer-service agent. Customers write by SMS
or email; a webhook gateway stores every accepted message together with a job; a
worker runs one model turn per job, whose tools read the shop, the books and the
knowledge base and keep the customer's preferences, and delivers the reply;
employees follow up in a workbench, with a copilot that drafts for them and learns
from what they confirm. Everything durable is in one Postgres database, and the
processes around it (gateway, turn worker, background worker, copilot server, tool
service) share no memory.

This project models the path of a message through that system and what its parts
keep, checks the models with TLC on small instances, and proves every safety property
of the passing runs with TLAPS for every value of the constants. Where a document or a
comment of the repository promises more than the code does, a run expects the violation.

Paths below are relative to the repository: `HR` is
`hermes-runtime/hermes_runtime`, `TH` is `hermes/toee_hermes`.

## 1. Inventory

### Parts and how they interact

    provider ──webhook──> gateway ──one transaction──> context + job + case
                             │ phone lookup                │
                          STOP: claim, confirm          turn worker: sweep, claim,
                             │                          merge memory, run, report
                             │                             │  └─ agent loop ─> tools:
                             │                             │     memory, knowledge,
                             └──────> deliver_once <───────┘     account reads
                                          │
                                     outbound_send row  <──── parity route
                                          │
                                       SMS provider, message_turn mirror
    workbench ──tool service──> cases, accounts, policy, lessons, integrations,
                                memory, dead letters
    copilot server: draft turn ──> l6_review job
    background worker: schedules, ingest, retention, probes, reviews (same job table)

| Part | State | Operations | Hard behaviour | What makes it correct |
|---|---|---|---|---|
| Job queue, `HR/job_queue.py` | `job` rows: status, attempts, `run_at`, `locked_at`/`locked_by`, `dedupe_key` | insert, claim, complete, fail, lease sweep, schedule tick, replay | a lease expires under a body that still runs; its late report meets a retried, replayed or settled row | only the current holder may finish a row; attempts are neither lost nor overspent; no early takeover; every job settles |
| Workers, `HR/turn_worker.py`, `HR/background_worker.py` | the claimed `Job` in memory, the poll loop | sweep, tick, claim, run, report, back off, exit, restart | crash or database error between any two statements, a commit whose answer is lost | a failure costs an attempt at most, and no worker takes a type it should not |
| Outbound record, `HR/outbound_send.py` | `outbound_send` row per event | begin, record_skip, finish, deliver_once | crash between intent and POST or POST and finish; a timeout after the provider took the message; retries and concurrent callers | at most one POST per event; nothing sent before its intent row; a closed row is final; `sent` is true |
| Turn, `HR/agent_turn_job.py`, `HR/turn_runner.py` | the reply in hand | reload context, model call, deliver by SMS or by mirror | every combination of the above | no reply lost in silence, none sent twice, every accepted message answered or surfaced |
| Gateway, `HR/gateway_app.py`, `TH/gateway/pipeline.py`, `TH/gateway/rate_limit.py` | request in progress, limiter per process | duplicate check, opt-out, ingress match, rate limit, persist, respond | redelivery while the first delivery is in progress, in another process; crash between commit and 200 | a 200 means stored, claimed as a STOP, or throttled; one job per event; one STOP confirmation |
| Store, `HR/postgres_gateway_store.py` | threads, sessions, turns, contexts, claims, cases, memory | persist_accepted_inbound, claim_event, mirror, merge | READ COMMITTED: a SELECT locks nothing, FOR UPDATE only what exists | context and job commit together; one open case per thread; each value merged once |
| Phone lookup, `HR/datastore/shopify_identity.py` | progress of one lookup | searches, or a scan of pages | a slow vendor while a webhook waits | within its budget, whichever way it takes |
| Cases, `HR/datastore/handlers/cases.py` | `cases`, `workbench_audit_log` | create, claim, assign, label, view, resolve, manual SMS | two accounts on one case; a resolve against the gateway's filing; a POST inside a transaction | no silent steal; the log accounts for the case; no send on record that did not happen |
| Accounts, `HR/datastore/handlers/accounts.py` | `workbench_account`, audit rows | create, role, disable, authenticate | logins of one account interleave while a password is verified without a lock | no wrong password lost, a window ends early only by a login under way when it opened, the log accounts for every account |
| Customer memory, `HR/datastore/handlers/memory.py`, `identity.py`, `retention.py`, `HR/openrouter.py` | slots, links, merge audit | upsert, correct, clear, merge, sweep | merges of two turns on one channel, writes under a merge, a sweep run twice | each value moved or overridden once and on record; a turn's own channel first |
| Policy, `HR/datastore/handlers/knowledge.py`, `eval_review.py` | slots, history, eval runs | save, submit, sign off, promote, roll back | two promotions, two rollbacks, one of each | one publication per run and only past its gate; no published text lost |
| Copilot, `HR/copilot_turn.py`, `HR/agent_turn_app.py`, `HR/datastore/handlers/agent_experience.py` | drafts, reviews, `agent_experience` | draft, enqueue, review fork, propose, decide, inject | a fork that may not run twice, two processes with two environments, two administrators | one review per turn, kept if it succeeded; what is injected was confirmed |
| Agent loop, `HR/boot.py`, `HR/live.py`, `HR/openrouter.py`, `TH/plugin`, `TH/execute.py` | process-wide registry and provider class | boot, discover, complete, fall back, dispatch | what one turn leaves behind for the next; a fallback after tools ran | a turn's calls are its own, and none is made twice |
| Account reads, `TH/drivers` | credentials, the owner's mapping | orders, products, invoices, AR summary, deliveries | the mapping is edited between the vendor's answer and the join; faults of either service | no invoice to two shoppers, no empty answer for want of an attribution |
| Knowledge, `HR/knowledge` | `knowledge_chunk`, the embedding model | ingest, retrieve, search | a re-ingest between two statements of a retrieval; a deadline that abandons a thread | one corpus per answer; one model; every search counted once |
| Integrations, `HR/integration_probe.py`, `HR/datastore/handlers/integrations.py` | `integration_probe`, audit rows | cycle, re-probe, reconnect, read | deadlines, partial faults, lost writes | no fabricated green, no partial cycle, the log agrees |
| Dead letters, `HR/datastore/handlers/dead_letter.py` | none of its own | list buckets, replay | replay against a running body | replay brings back dead rows only |

`PROJECT.json` lists all parts under `components`, and under `hazards` the
places in the code where one of these behaviours bites, with the properties that
would notice.

## 2. The modules

| Module | Models | Composes |
|---|---|---|
| `JobQueue` | `job_queue.py`, both poll loops, replay | |
| `OutboundSend` | `outbound_send.py`, the provider POST, the mirror | |
| `TurnDelivery` | one turn from its context row to its outcome; the parity route; replay | `JobQueue`, `OutboundSend` by INSTANCE |
| `Gateway` | both webhook routes | `OutboundSend` by INSTANCE (the confirmation) |
| `PhoneLookup` | the Shopify lookup of an ingress | |
| `CaseDesk` | filing under a case, and the workbench | |
| `Accounts` | accounts and the login lockout ladder | |
| `CustomerMemory` | slots, links, the merge, corrections, clears, retention | |
| `PolicyReview` | policy slots, eval runs, promotion, rollback | |
| `CopilotLearning` | the draft turn, its review, lessons and their decisions | |
| `AgentLoop` | boot, registry, completions with fallback, tool dispatch | |
| `AccountReads` | the customer-scoped reads of the live drivers | |
| `KnowledgeBase` | ingestion, retrieval, the governed search | |
| `IntegrationProbe` | probe cycles, re-probes, reconnects, the badge | |
| `MCWorkbench` | one run over `CaseDesk`, `Accounts`, `PolicyReview`, `CopilotLearning`, `IntegrationProbe` | EXTENDS |
| `MCTools` | one run over `AgentLoop`, `AccountReads`, `KnowledgeBase`, `PhoneLookup`, `CustomerMemory` | EXTENDS |
| `MCJobQueue`, `MCOutboundSend`, `MCTurnDelivery`, `MCGateway`, `MCCaseDesk`, `MCCustomerMemory` | constants and symmetry for TLC | |
| `JobQueueProofs`, `OutboundProofs`, `TurnDeliveryProofs`, `GatewayProofs`, `CaseDeskProofs`, `CustomerMemoryProofs` | theorems and proofs about the module of that name | EXTENDS |
| `WorkbenchProofs` | those about `Accounts`, `PolicyReview`, `CopilotLearning`, `IntegrationProbe` | EXTENDS |
| `ToolsProofs` | those about `PhoneLookup`, `AccountReads`, `KnowledgeBase`, `AgentLoop` | EXTENDS |

`JobQueue` and `OutboundSend` are also the abstract specifications of what a turn
relies on: `TurnDelivery` is checked and proved to implement both of them
(`ImplementsQueue`, `ImplementsSendRecord`), so what is proved of the components
holds for the composition (`TurnsAreSentOnce` is one such consequence).

`MCWorkbench` and `MCTools` put parts side by side that share no row and no memory.
A behaviour of either is a behaviour of one part, chosen by `part` at the start, while
the others stand still. Nothing is lost by that: no action of one part reads or
writes a variable of another, so their interleavings only multiply states.

Definitions named in the code's own snake_case (`create_account`,
`promote_pending_policy`, `clear_preference`) are the operations of that name.

### JobQueue

`job` is the table (NULL for ids not inserted yet), `now` is Postgres' clock, `pc`
and `held` the local state of each worker, `tick` the background worker's position
in its pass over `SCHEDULES`.

A poll of `run_once` is `Sweep`, for a background worker `TickSchedule` for every
schedule and `TickDone`, then `Claim` or `ClaimNothing`, and after the body
`Complete` or `Fail`. Each of them is one transaction of the code.
`Claim(w, j)` takes `ORDER BY run_at, created_at` as "no other due row is before
j"; ties are open, as in SQL. `FOR UPDATE SKIP LOCKED` makes it atomic. `Fenced(w)`
is `_FENCE_SQL`: id, status running and the `locked_at` the worker was given; a
report that does not pass changes nothing. `PollError` is an exception caught by
`poll_forever` at any point of the poll, `Exit` a stop or a crash, both lose what the
worker held.

The clock is a separate action and a body takes as long as it likes, so a lease may
expire under any running body. That `locked_at` tells two claims of one row apart,
although it is only a time, is not built in: it follows from the sweep, which releases
a row under a running body only after the lease has passed (`FencingCorrect`).

### OutboundSend

`outbound[e]` is the row of an event (the unique index on `event_id` is why there is
one), `turn[c]` where a caller is inside `deliver_once`, `posts` how often the
provider was asked, `delivered` what it really took, `mirrored` the message_turn
rows. `Begin`, `Skip` and `Finish` commit one by one. `RecordRaises(c, committed)`
and `MirrorRaises(c, committed)` are a database error before or after the commit
took effect; `PostRaises(c, taken)` is a refused POST or a timeout after the message
was taken. `Leave` is the caller dying or going on at any point. The idempotency key
is a function of the event for every caller of the code, hence the event stands
for it. `skip_count` is the flag `skipped`: only whether it is zero is ever read.

### TurnDelivery

`Accept` is the gateway's transaction as a turn sees it: context and job at once.
A worker's body (`WorkerRuns`) starts `RunTurn` (the model answered) or `TurnRaises`
(anything before the delivery raised), goes through the steps of `OutboundSend`, and
`Report` completes or fails the job by how `deliver_once` ended. The parity route
runs the same turn without a job. `PollFails` and `WorkerExits` abandon a
delivery at any step.

### Gateway

Each process handles one request at a time: the handler does not await once the
body is read. `request[g].at` is the stage: `idempotency`, then `opt_out` and
`claimed` for a STOP or `ingress` and `persist` for a message. A response of 200 puts
the event in `acked`. `Crash` loses the request and the limiter. The confirmation
goes through `OutboundSend` step by step, so two processes that confirm at once
interleave there too.

### CaseDesk

Transactions are READ COMMITTED. `UpsertThread` takes the row lock of the thread and
`filing[g]` holds it to the commit; `SelectOpenCase` and `FileTurn` are the SELECT
and the write of `_ensure_open_case`, and the workbench may run between the two.
Claim, assign and resolve are one UPDATE by id each. The manual send is `CheckSend`,
then `PostText` or `PostFails`, then `RecordSend`; `SendLost` is a crash or a failed
commit anywhere in between. The audit log is in commit order.

### Accounts

`account` is the table, `login[l]` what an authenticate call has read, `adminLog` the
audit rows in commit order, `dbNow` the database's clock. An administrator's write and
its audit row are one transaction, hence one action. A login is two: the SELECT, which
turns away the unknown, the disabled and the locked, and after a verification that holds
no lock the UPDATE, `failed_attempts + 1` computed by the database or the reset. Both run
in one transaction, and `now()` is where it began: `login[l].since`. A window written by a
slow login therefore ends counted from its SELECT, which may be before the end of the
window another login has written meanwhile (`Climbed`).
`wrong` is a history: the wrong passwords in a row, against which the counter is
checked modulo the threshold.

### CustomerMemory

`slots[k][s]` is a row of `customer_memory_slot`; a key is a channel identity
(provisional) or a customer (verified). A turn carries the snapshot of its ingress
(`match`), merges the provisional keys linked to its customer one by one (`todo` is the set
left and `provisional_key` the next: the turn's own channel first, then the others in key
order, which is what decides between two channels that state the same slot; `LockRows` is
the SELECT ... FOR UPDATE, `MergeRows` the inserts, the DELETE and the audit row,
`MergeFails` an exception the turn swallows), loads memory and then writes and clears by
its binding. Employees correct and clear, `link_identity` may come at any time,
`trigger_retention_sweep` deletes by age and audits its count. The DELETE of a merge
is not restricted to the locked rows, as in the code: that is what `memory_merge`
is about. `fate` records what became of every value ever stated, and `took` what a turn
in progress has moved so far; both are histories.

### PhoneLookup

`lookup` is the phase (search or scan) and the position in it, `elapsed` the time spent.
A call takes any time up to its deadline, and is started only while `Affordable`. A query
that fails may be taken for a missing search action, the first as well as a later one:
every error of the client names the action, so half of the test in
`_is_missing_search_tool` always holds (section 6). The scan may then follow answered queries.

### PolicyReview

`policy` and `history` are the two tables, `run` the eval runs. A promotion begins
(`BeginPromote`, which stamps `archived_at` with the start of its transaction) and
commits under the slot's lock (`promote_pending_policy`) or is refused by a gate
(`PromoteRefused`). A rollback deletes the newest history row, which a second rollback
then does not get (`PopHistory`), and waits for the slot. Texts are numbered as they
are saved.

### CopilotLearning

Two processes, each with an environment (`copilotEnv`, `workerEnv`) that may differ and
that a restart may change. `BeginDraft` reads the confirmed lessons, `FinishDraft`
enqueues the review or fails to, `AnswerDraft` and `AuditRaises` are the audit row and its
failure. The review is a job of one attempt: `ClaimReview` refuses to fork in a
misconfigured worker, `ProposeExperience` is a write of the fork, to the datastore or to
a throwaway mock by the worker's flags, `ForkEnds`, `ForkRaises`, `SweepReview` and
`RestartWorker` are its ends. `Decide` is the guarded UPDATE of one administrator.

### AgentLoop

`registry` and `provider` are process globals. A turn is `Load`, plugin discovery
(which may register its own unbound handlers), `register_turn`, `AgentSetup`, then
completions: `Ask` for tools, `Answer`, `RetryCompletion` with the fallback, or
`CompletionRaises`. A completion carries a list of calls, dispatched one by one: `pos` is
the completion, `index` the place in its list, and each is `execute_tool` or `CallRefused`
by allowlist or gate. The list is not stored: nothing looks at a call before its turn, so it
is chosen when it is dispatched, and `GoesOn` ends the list anywhere. `ProcessRestarts` is
a death at any step. `calls` is the history of what reached a driver. The catalog has one representative of each
kind of entry that profiles, exclusions, overlays and gates tell apart.

### AccountReads

A read is admitted (`TurnRead` with the turn's identity, `DispatchRead` with none), the
vendor answers, refuses or faults, and an invoice read is then joined with the owner's
mapping, which `Remap` edits at any time. Trust has to agree in both directions
(`Agrees`, `SoleOwner`), and `joined` remembers which state of the mapping the read saw.
A page is the first `PageSize` invoices of the whole ledger, as the request asks. A
successful answer in none of the shapes the parser knows is `recognised = FALSE`, and goes
on as a page without invoices, as in the code.

### KnowledgeBase

`chunks` is the table, `tableLock` the lock TRUNCATE takes, `reading` the retrievals with an
open transaction on it. The caller's side of a search (`search`) and its thread's side
(`retrieval`) are separate: `Deadline` answers the first and leaves the second going.
Row ids restart with every corpus, so rows of two corpora are only told apart
by the run that wrote them.

### IntegrationProbe

A cycle submits each check in turn (`Submitted`), `VendorAnswers` is the thread,
`EndCheck` the wait that ends with a result, an exception or the deadline, and
`RecordCycle` writes all rows and prunes in one transaction. `RecordReprobe` and
`InitiateReconnect` carry their audit row in theirs. `Redeploy` changes which
integrations have credentials; `told` is the history of checks answered in time.

## 3. Runs

All bounds are constants of the modules and named in the cfg files.

| Run | Shows |
|---|---|
| `queue` | Two turn workers and a background worker, two jobs of two attempts, turns and a scheduled sweep every 3 seconds, a lease of 1, one replay, clock to 4: `AttemptsAccounted`, `FenceAdmitsOnlyTheHolder`, `HolderOrExpired`, `ClaimIsolation`, `SettlementIsFenced`. The clock lets one job be claimed, overrun, swept, claimed by the other worker, buried and replayed while the first body is still running, and a second schedule window open. |
| `outbound` | Two callers deliver an SMS, an email and an opt-out confirmation as often as they like with every fault: `AtMostOncePerEvent`, `SentIsTrue`, `WriteAhead`, `ClosedStaysClosed`. No bound is needed, the state is finite. |
| `turns` | An SMS or email turn, two workers, the route, one replay, two attempts, clock to 4: `NoSilentLoss`, `ImplementsQueue`, `ImplementsSendRecord`. With one job id either event is accepted, which is enough: turns of two events share nothing but the worker. |
| `turn_answered` | Under fairness: `EveryTurnIsAnswered`, `EveryJobSettles`. |
| `gateway` | Two processes, a message and a STOP of one phone, limit 1: `OneJobPerEvent`, `AckedIsDurable`, `OneConfirmation`, `ClaimOwnsTheSend`, and under fairness `EveryMessageIsHandled`. |
| `workbench` | Cases (two processes, one thread, two cases, two accounts, one send request, three audit rows), accounts (two ids competing for one username, two logins, a threshold of 2 passed twice and a half, a window of 2 in a clock to 4), policy (one slot, three runs, two rollbacks), learning (two drafts, two lessons, a limit of one, one restart), probes (two integrations, a cycle and an admin call, retention of one day in three): the five sets of properties below. |
| `tools` | Two turns of one process with two completions of up to two calls each; two reads by two shoppers over two accounts, two edits of the mapping, a ledger longer than a page; two ingestions against two searches with a pool of one; a lookup of three spellings and four pages with calls of up to 3 units; two channels and two turns of one customer with one slot, two values, two clears and a sweep: the eight properties below. |
| `two_ingests` | Violation: `OneIngestAtATime`, with two background workers and one ingest. |
| `throttled` | Violation: `ThrottledIsPersisted`. |
| `cases_inbound` | Violation: `InboundIsListed`. |
| `memory_merge` | Violation: `NothingStatedIsLost`; it takes a second slot. |
| `ledger_page` | Violation: `SummaryCoversTheLedger`. |

Three audit rows in `workbench` are a claim, a resolve and a claim by somebody else, the
longest interplay the audit properties tell apart; three runs and two rollbacks are what
it takes for a rollback to meet a promotion with history behind it. `MaxHistory` in
`tools` keeps a process from asking for further tools once two calls have reached a driver,
over both turns: two are what a repetition, a swap or a call under another turn's binding
takes, whichever turn, completion and place of a list they come from. With one slot and one
customer two channels still meet in one place, and two turns on one channel; the retention
windows are both 0 days there, since what is checked of a sweep is its record and its
meeting with merges, and neither depends on which window a row is under.

`OwnChannelFirst`, `FallbackRepeatsNothing`, `AnswersAreEarned` and `AnswersInBudget` stand
alone; the other properties of the newer modules are conjunctions of named parts, one per
hazard:

| Checked as | Parts |
|---|---|
| `SettlementIsFenced` | `SettledStaysSettled`, `OnlyTheHolderFinishes` |
| `AccountsAddUp` (with `WindowIsServed` beside it) | `LadderCounts`, `AdminLogAccountsForAccounts` |
| `MemoryAddsUp` | `MemoryTypeOK`, `MergedOnce`, `RemovalsAreOnRecord` |
| `PublicationsAddUp` | `PublishedOncePerRun`, `HistoryIsConserved` |
| `ReviewsAreSound` | `OneForkPerTurn`, `SucceededReviewsAreDurable`, `AuditedIffAnswered` |
| `LessonsAreDecided` | `DecidedOnce`, `InjectedIsConfirmed` |
| `ProbesAreHonest` | `GreenWasAnswered`, `CyclesAreWhole`, `AdminProbesAreOnRecord` |
| `TurnsAreIsolated` | `CallsRunUnderTheirTurn`, `RepliesStayInTheirConversation`, `ProviderIsRestored` |
| `InvoicesAreScoped` | `OneShopperPerInvoice`, `OneAccountPerShopper` |
| `SearchesAreSound` | `RankedWhatWasRead`, `IndexIsOneCorpus`, `ModelBuiltOnce`, `SearchesAreCounted` |

Each property of a passing run has a mutant in `PROJECT.json`: an edit a bug in that
code could be, under which TLC finds the property violated.

Symmetry is used over jobs, workers, callers, cases, accounts, processes, customers and
turns where the next-state relation treats them alike, and never in a run with liveness. In
`tools` the parts share one set of turn and shopper values, so that one exchange serves all.
Deadlock is checked except in `workbench`, `tools` and the memory and ledger runs: their
parts serve a bounded number of calls and really come to rest.

## 4. Fairness

`TurnDelivery!Fairness`: each worker's loop goes on (weak fairness of its steps and
of its restart by the container), and its sweep and its claim get through again and
again (strong fairness: the database is not down at every single poll). A body has
weak fairness only, so one that kills its worker on every attempt is
among the behaviours. Route requests end. For this run the clock moves only while
a row waits for it, which keeps the state finite and hides nothing a row could
notice; `MaxTime` is out of its reach.

`Gateway!Fairness`: the provider redelivers what has no 200, handlers go on, and no
fault of lookup, database or host repeats for ever. Nothing is assumed of a STOP, and
nothing is claimed of it; section 6 says why.

## 5. What is proved

Every invariant and every action property a passing run checks is a theorem, and so
are both refinements; `PROJECT.json` lists them with the property each one states.

| Module | Theorem | Says | Inductive invariant |
|---|---|---|---|
| `JobQueueProofs` | `TableCorrect` | `TypeOK`, `AttemptsAccounted` | `TableInv`, the two together |
| | `FencingCorrect`, `NoEarlyTakeover` | `FenceAdmitsOnlyTheHolder`, `HolderOrExpired` | `LeaseInv` |
| | `SettlementCorrect` | `SettlementIsFenced` (action) | `TableInv`, `LeaseInv` |
| | `IsolationCorrect` | `ClaimIsolation` | `LeasedByItsTier` |
| `OutboundProofs` | `AtMostOnceCorrect` | `AtMostOncePerEvent` | `SendInv` |
| | `RecordCorrect`, `ClosedCorrect` | `WriteAhead`, `ClosedStaysClosed` (actions) | `SendInv` |
| | `SentIsDelivered`, `SentCorrect` | `SentIsTrue`: its first half always, all of it for replies that are not blank | `SendInv`, `TruthInv` |
| | `ReturnLeavesRecord` | `LeftRecord` | itself, with `SendInv` |
| `TurnDeliveryProofs` | `QueueRefined` | `ImplementsQueue` | none needed |
| | `SendRecordRefined` | `ImplementsSendRecord` | `TurnInv` |
| | `NoSilentLossCorrect` | `NoSilentLoss`, for replies that are not blank | `SuccessRecorded`, `TurnInv`, `OutboxOK`, and the theorems of `OutboundProofs` |
| | `TurnsAreSentOnce` | `Send!AtMostOncePerEvent` of the composition | by refinement |
| `GatewayProofs` | `GatewayTypes` | `GatewayTypeOK` | `GateInv` |
| | `OneJobCorrect`, `AckedIsDurableCorrect`, `OneConfirmationCorrect`, `ClaimOwnsCorrect` | the four invariants of the run | `GateInv` |
| `CaseDeskProofs` | `OneOpenCaseCorrect` | `CaseDeskTypeOK`, `OneOpenCasePerThread` | `DeskInv` |
| | `AuditCorrect` | `AuditAccountsForTheCase` | `LogInv` |
| | `NoStealCorrect` | `NoSilentSteal` | `StealInv`, `LogInv` |
| | `RecordedSendsCorrect` | `RecordedSendsWereSent` | `SendsInv` |
| `WorkbenchProofs` | `AccountsCorrect`, `WindowServedCorrect` | `AccountsAddUp`, `WindowIsServed` (action) | `AccountsInv` |
| | `PublicationsCorrect` | `PublicationsAddUp` | `PolicyInv` |
| | `ReviewsCorrect`, `LessonsCorrect` | `ReviewsAreSound`, `LessonsAreDecided` | `LearningInv` |
| | `ProbesCorrect` | `ProbesAreHonest` | `ProbeInv` |
| `ToolsProofs` | `LookupCorrect` | `AnswersInBudget` | `LookupInv` |
| | `InvoicesCorrect`, `AnswersCorrect` | `InvoicesAreScoped`, `AnswersAreEarned` | `ReadsInv` |
| | `SearchesCorrect` | `SearchesAreSound` | `KnowledgeInv` |
| | `IsolationOfTurnsCorrect`, `NothingRepeatedCorrect` | `TurnsAreIsolated`, `FallbackRepeatsNothing` | `AgentInv` |
| `CustomerMemoryProofs` | `MemoryCorrect`, `OwnChannelFirstCorrect` | `MemoryAddsUp`, `OwnChannelFirst` (action) | `MemoryInv` |

They hold for any number of workers, jobs, callers, events, threads, cases, accounts,
channels, customers, slots and turns and for any lease, backoff, budget, window and
schedule that satisfies the module's one named assumption, which TLC evaluates in every
run: numbers are numbers, NULL (`Free`, `Nobody`, `"none"`) is not one of the values it
stands beside, no worker is of both kinds, no prober is a cycle and a call, no channel is a
customer. One hypothesis is stated in the theorems instead, because the code does not
guarantee it: replies that are not blank (`SentCorrect`, `NoSilentLossCorrect`); section 6
has it.

Why the properties need strengthening:

* **Job table.** Typing alone is not inductive: a release looks up the backoff of the
  attempt that ended, which exists only because `attempts` is within the budget. One
  lemma per kind of row write (`ReleasedRow`, `ClaimedRow`, `RequeuedRow`, ...) shows that the
  row it makes is consistent, `PutRow` carries that to the table.
* **Fence.** A worker in a body passes the fence and is the one the row names, or it has
  overrun its lease. A claim needs the row to be waiting, so every other worker on it fails
  the fence, hence overran its lease, hence holds a smaller `locked_at` and cannot
  pass it afterwards either. `SettlementCorrect` classifies every change of a row
  (`RowReplayed`, `RowClaimed`, `RowReported`, `RowSwept`) and reads the rest off the two.
* **Outbound record.** `OwnerInv`: a caller past `begin` is the only one for its event, the
  row is an intent as long as it is, and a POST made has left its row. A row never becomes
  vacant again. `TruthInv` adds what a caller on its way to `finish` knows.
* **Turn.** The queue refinement is a step-by-step simulation without an invariant. The
  send record needs `BodyOK`, that a worker is in a turn body only for the event of the
  job in its hand. `NoSilentLoss` is then put together from what the components prove:
  a report of success follows a return, and a return leaves a record (`SuccessRecorded`).
* **Gateway.** The claim has one winner (`OneClaimant`), whoever is past it is ahead of
  every record of the event (`ProcessOK`), and the tables agree about one event (`EventOK`).
* **Cases.** `_ensure_open_case` reads and writes without a lock on the case. Its safety is
  the lock on the thread: `LockHeldOnce`, and `NoneSeenNoneThere`, which says that what the
  SELECT did not find cannot appear before the INSERT. For the log, `LogInv`: entries are
  about cases that exist, so none is born with a history.
* **Accounts.** `LoginOK`: a login that verifies met no open window, so a window that stands
  now ends later than the one its SELECT saw.
* **Policy.** `StampsOK`: a stamp in use is on no history row yet, so a row is identified by
  it. `PopsOK`: a rollback in progress holds a row of its own.
* **Learning.** The one attempt of a review is spent by its claim (`ReviewOK`), a fork
  runs only where its proposals are kept (`ForkOK`), decisions are numbered (`DecisionsOK`).
* **Probes.** Results in hand are those of the checks made so far, in order (`ProberOK`);
  the rows of one cycle are written together and pruned together (`ProbeRowsOK`).
* **Lookup.** `LookupInv` is the property with its types; the argument is arithmetic
  (`CallFits`): a call is started only in the first half of a budget of two deadlines.
* **Reads.** `ReadOK` and `ScopedOK`: a disclosure on the mapping of now is of the pair
  that trusts each other in both directions, and tells all of its page that is the pair's; an
  edit makes the mapping another.
* **Knowledge.** The run that replaces the table has it for itself, so a retrieval between
  its two reads has in hand what the table holds (`StoreOK`, `RetrievalOK`); whoever
  builds the model or embeds holds its lock (`ModelOK`).
* **Agent loop.** `BootOK`: the discovery precedes the registration, so the registration
  stays. `CallsOK`: a turn in progress is past the places of its calls, which is what makes
  the next one new, whichever model is asked.
* **Memory.** What a row holds is kept and held by no other row (`RowsOK`); what a channel
  holds is named by no merge yet (`ChannelsUnmerged`), so a merge names new values only; a
  merge that holds the lock still finds the rows as it read them (`TurnOK`), because
  writes, clears, sweeps and other merges wait (`LocksOK`). `LogOK` counts fates. The set of
  stated values is an interval from 1, which is what makes it finite. For the order of
  channels: as long as the own channel is to be merged, a turn has moved nothing (`TurnOK`).

Only model-checked: the liveness properties `EveryTurnIsAnswered`, `EveryJobSettles` and
`EveryMessageIsHandled` (liveness under fairness is out of the prover's reach). The
five violations are counterexamples by TLC; there is nothing to prove.

## 6. Where code and documentation disagree

Shown by a run:

1. `cases_inbound`: a resolve that commits between the SELECT and the UPDATE of
   `_ensure_open_case` leaves the new message on a thread with no open case
   (`HR/postgres_gateway_store.py:619`).
2. `memory_merge`: `merge_provisional_memory` locks the provisional rows that exist,
   moves those, and then deletes every row of the key. A preference stated in between is
   deleted unmoved, although the method is to "move each provisional slot"
   (`HR/postgres_gateway_store.py:492`).
3. `ledger_page`: the AR summary is computed from the first page of all customers'
   invoices, so a customer beyond it is told that nothing is owed; "only a
   genuinely-zero, positively-attributed customer gets 0" (`TH/drivers/qbo_ar.py:72`).
4. `two_ingests`: `HR/job_queue.py:145` calls the replay check "what actually enforces"
   one ingest at a time. It looks for a running row, and a body that overran its lease has a
   dead one, which the check lets through. What keeps two ingests apart is that one
   background worker is deployed; `HR/retention_sweep.py:70` reckons with two.
5. `throttled`: `TH/gateway/rate_limit.py:5`, `TH/gateway/pipeline.py:149` and ADR-0109 say
   that a throttled turn is still persisted; the route persists `enqueue` decisions only
   (`HR/gateway_app.py:252`), and its 200 keeps the provider from sending it again.
   `AckedIsDurable` is about the other messages.

Read off the models, without a run of their own:

* `locked_until` is `now()` plus the window, and `now()` is the start of the login's
  transaction (`HR/datastore/handlers/accounts.py:225`), which also ran its SELECT: a slow
  login that fails can replace a window by one that ends earlier. `WindowIsServed` says
  exactly that much: only a login that had read the account before may do so.
* `HR/datastore/shopify_identity.py:164` wants two markers of a missing search action so
  that a vendor's plain "not found" is not taken for one, but every error of the client names
  the action (`TH/drivers/composio/driver.py:1252`), so such an error leads to the catalog
  scan, also after queries that were answered.
* An invoice answer in an unknown shape is read as one without invoices
  (`TH/drivers/composio/driver.py:512-519`), so an attributed customer is told 0, against
  `TH/drivers/qbo_ar.py:72`. `AnswersAreEarned` claims completeness of recognised answers only.
* A blank email reply writes no message (`HR/postgres_gateway_store.py:575`), and the
  record says `sent` without an error, "after a clean delivery" (`HR/outbound_send.py:216`).
  The runs' replies are not blank.
* A STOP whose handler dies between `claim_event` and the intent row is a duplicate
  ever after; `TH/gateway/pipeline.py:107` says the guard is the outbound record.
  `OneConfirmation` bounds the confirmations from above only.
* A promotion publishes the slot's draft of the moment (`HR/datastore/handlers/eval_review.py:258`),
  which may have been saved after the evaluation ADR-0040 asks for.
* `archived_at` is the start of the promoting transaction, so a rollback that races two
  promotions may go back to a text that is not the latest one.
* The identity of a turn is a snapshot: a link made before the turn runs makes the channel
  ambiguous, and the turn still merges onto the customer it matched (ADR-0112).
* ADR-0116: "Any new inbound or outbound service interaction refreshes the retention
  window". Only a write or a merge of the slot does, so a customer who goes on writing about
  other things loses their preferences. Nothing is claimed of when a row is swept.
* A probe cycle's rows are stamped when they are written, so a cycle that probed before a
  re-probe and writes after it takes back the "FRESH badge" of
  `HR/integration_probe.py:209`. `GreenWasAnswered` speaks of whether the shown check was
  answered, not of which check is the newest.
* A provider timeout closes the row as `failed` although the message may have been sent,
  which the code's own comment (`HR/outbound_send.py:307-312`) allows for while line 299
  says that a failed attempt "genuinely did not deliver"; and `send_sms_message` promises
  its mirror and audit row "atomically" with a POST that a rollback cannot take back,
  which is why `RecordedSendsWereSent` is an inequality.

## 7. Abstractions, and what is not modelled

* Message texts, phone numbers and payloads are model values or numbers; a reply is
  `"text"`, or `"blank"` where an instance admits it, the only difference the code acts on.
* A statement that commits is atomic. An error may come before or after its commit.
* Signature checks and field parsing reject a request before any state changes; in
  `Gateway` an ingress match yields a snapshot or fails transiently. What it does is in
  `CustomerMemory` (links) and `PhoneLookup`.
* In `JobQueue` the job bodies of the background worker end well or raise; the bodies of
  ingest, review, retention and probes are in the modules of those parts. The
  `honored_rate` body, a judged sample written as one aggregate row, is left out.
* The mock send used without `SIMPLETEXTING_API_TOKEN` is not modelled; the live one is.
* `Replay` is one step: two SELECTs and an UPDATE guarded by status, where what happens in
  between can only refuse it or let a claim of another ingest slip in, which is
  `two_ingests`' matter. `TickSchedule` reads the database's clock where the code takes
  `time.time()` for the window: the two are taken to agree.
* A turn runner of `None` (an app without a model configured, `HR/agent_turn_job.py:73`) is
  left out: the job would succeed without a turn.
* A blocked SELECT ... FOR UPDATE re-checks the rows it had found; `LockRows` reads the key
  afresh once it is free, which differs for a row inserted meanwhile only.
* An eval run is recorded by the evaluation harness for a slot with a draft (`RecordRun`); that
  the handlers promote a run of this slot's text is not enforced by them (section 6).
* `update_case` changes labels only and writes no audit row; read models,
  list filters and sort orders change nothing. Both are left out, and so is
  `dismiss_proposal`, an audit row alone.
* `_get_audit_log` sorts by `created_at`, the start of the writing transaction; the
  model's logs are in commit order, so the audit properties speak of that order.
* What a model says and which tool it asks for is arbitrary. The agent SDK's own loop is
  external and modelled by what the runtime relies on; its built-in tools are left out.
  A process serves one turn at a time: workers are loops, and the routes await
  nothing while a turn runs.
* Passwords are right or wrong, chunking and ranking give any rows and any order, the
  content scan of a proposal is a refusal, an eval run without a policy key
  publishes nothing and is left out.
* The drivers' field mapping is left out, and so is the direct linkage of recorded
  invoices: an invoice of the live toolkit names a QuickBooks customer only.
  `list_customer_orders` is scoped by the vendor's query, and `get_order` by one comparison;
  nothing is claimed of them.
* Not modelled because there is no protocol in it: the web application (a proxy), webhook
  signatures and field parsing, the eval runner (offline scoring of recorded transcripts) with
  its profile gate, pool handling and migrations.

## 8. Plan

Done: the queue, outbound record, turn, gateway and cases; memory, accounts, policy,
learning, agent loop, account reads, knowledge, probes and the phone lookup; proofs of
all their safety properties and of the two refinements. Next, in order:

1. The gateway's confirmation as a refinement of `OutboundSend`, as `TurnDelivery` has it,
   so that `OneConfirmation` follows from `AtMostOncePerEvent`.
2. The limits of the violations as theorems: the only value a merge loses is one written to
   its channel between its SELECT and its DELETE; what `sent` still means for a blank email;
   one ingest at a time as long as no ingest outlives its lease.
3. Pure algorithms against a reference definition: text chunking, phone
   normalisation, the session id split, the queue order of `_list_cases`.
