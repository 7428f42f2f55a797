# Weav, verified: runs, notifications, sessions and drafts

Weav runs workflows: graphs of nodes that start at a trigger and call mail, chat,
HTTP, spreadsheet and AI providers. This project is a TLA+ model of the parts of it that
keep state across failures and concurrency.

* The engine, in `services/workflow-service`: *whether, when and how often* providers are
  called. The readiness planner, the runner, the leases and the fenced commits of a run,
  its recovery after crashes, and the delivery that brings a run to a worker: outbox,
  broker, listener, recovery scanner and the pollers' back-off.
* What tells users about it, in `services/notification-service`: the intake of events, the
  read state two APIs share, and the delivery to Telegram, Expo and mail.
* Three places where a client and a server share state: the login of the web client
  with its rotating refresh token, the draft editor, and a turn of the AI assistant.

TLC checks the models on small instances. TLAPS proves every safety invariant and every
action property of the passing runs for every instance (section 6); only the liveness stays
with TLC.

Paths below are relative to `src/`. `wf/` stands for
`services/workflow-service/src/main/java/com/weav/workflow/`, `ns/` for
`services/notification-service/src/`, `ai/` for `services/ai-service/src/`, and `web/` for
`apps/web/src/`.

## 1. The system

| Component | State it keeps | Operations | Talks to |
|---|---|---|---|
| Readiness planner (`wf/domain/execution/ReadinessPlanner.java`, `GraphState.java`) | none: it maps a graph state (a status per node, UNKNOWN/ACTIVE/INACTIVE per edge) to the next one | `initialize`, `ready`, `afterSuccess` | called by the runner |
| Execution runner (`wf/application/execution/ExecutionRunner.java`) | `RuntimeState` (statuses, edge states, attempt counts, retry times), the map `running` of futures, the completion queue, `failureSeen`, `cancelSeen`, `leaseLost` | `run`, `runClaimed`, `initializeIfNeeded`, `scheduleReadyNodes`, `promoteDueRetries`, `commitCompletion`, `finalize*`, `close` | claims, loads and commits through `ExecutionStatePort`; node executors on virtual threads; a heartbeat task |
| Execution state (`wf/infrastructure/persistence/repository/ExecutionStateAdapter.java`) | the rows: `workflow_executions` (status, lease owner, token, expiry, recovery count, stop flag), `node_executions`, `node_execution_attempts`, `notification_outbox` | `claim`, `load`, `commit`, `renew`, `release`, `requestCancel`, `enqueueRecoverable`, each one transaction under the row lock | PostgreSQL |
| Idle polling (`wf/infrastructure/scheduling/IdleBackoff.java`, `ActivitySignal.java`, `wf/infrastructure/messaging/OutboxWakeup.java`, the ticks of publisher and scanner) | current delay, next poll; a pending flag, a generation counter | tick, wake, record a poll as busy, idle or failed, raise a signal after commit | publisher, scanner, every transaction that writes an outbox row |
| Job delivery (`wf/infrastructure/messaging/ExecutionOutboxPublisher.java`, `ExecutionJobListener.java`, `OutboxEventRepositoryAdapter.java`, `wf/infrastructure/scheduling/ExecutionRecoveryScanner.java`) | outbox rows with status, lease and retry time; the job queue, its retry queue and dead-letter queue | claim pending events, publish with confirm, mark or reschedule; consume, hand to the runner, defer; scan for runs to re-enqueue | RabbitMQ, the runner, execution state |
| Admission (`wf/application/service/ExecutionAdmissionService.java`, `WorkflowExecutionRepositoryAdapter.java`) | `workflow_executions` rows, idempotency keys | admit a manual, scheduled or event run under the workflow's row lock; capacity limit; replay | outbox |
| Publication, drafts, triggers and the schedule scanner | versions, drafts, trigger registrations, next fire times | publish, edit with optimistic version, enable, scan | admission |
| Notification outbox, alert rules, monitoring, retention, templates, files, control bot | rows of their own | publish once-or-more, evaluate, purge, report | notification-service |
| Notification intake (`ns/infrastructure/rabbit.consumer.ts`, `inbox.persistence.ts`, `prisma.inbox.repository.ts`, `prisma.repository.ts`) | `notification_inbox`, `notification_deliveries` (read state, the link between them); unacknowledged messages | consume, store an event of version 1 or 2, acknowledge, refuse or return; mark one or all read, through either API; purge | RabbitMQ, PostgreSQL, the web client |
| Notification delivery (`ns/application/delivery.worker.ts`, `ns/infrastructure/providers.ts`) | status, retry count, schedule, lease and receipt of each delivery; the timer and its delay | claim, send, ask for a receipt, write the result; sleep, look up the next due row, wake | Telegram, Expo, SMTP; woken by the intake |
| Login of the web client (`web/api/auth.api.ts`, `web/store/useAuthStore.ts`) with `RefreshSessionUseCase`, `LogoutUseCase` of identity-service | access token and session mark in localStorage, refresh cookie, Web Lock; the session row with current and previous token | renew, use another tab's token, log out; rotate, revoke | each other over HTTP |
| Draft editor (`web/pages/WorkflowBuilderPage.tsx`, `web/api/workflow-v1.api.ts`) | canvas, name, `isSaved`, `isSavingWorkflow`, `renameRef`; draft and publication on the server | edit, rename, save, publish, run, connect | workflow-service over HTTP |
| Assistant turn (`ai/presentation/http/assistant.controller.ts`, `ai/infrastructure/admission.ts`) | slots per replica and user; `assistant_usage` per day; messages | admit, count, ask, stream, answer, roll back, release | model providers, PostgreSQL |
| workspace-, ocr-service, api-gateway, other clients, `packages/` | workspaces, members, connections; none | HTTP handlers | each other over HTTP and RabbitMQ |

**What is hard.** A run is executed by whichever worker claims it, in any process.
Between its transactions a worker decides on a copy of the rows, while its lease
may run out, another thread (even of the same process, which has the same lease
owner name) may claim the run, the process may die or shut down, a stop request
may arrive, and calls already on the wire go on. A provider call cannot be
undone, and after a crash nobody can tell from the rows alone whether it
happened. Retry counters, recovery counters, node rows and attempt rows are
written by different pieces of code (Java in the runner, SQL in recovery) that
must agree. Deliveries of an execution id are duplicated, late, or lost.

Around the engine it is the same in small. A notification is sent by whichever instance
leases its row, and the provider's answer or the write of the result may be lost. Events
come twice, in two versions and in any order, while users mark them read through two APIs.
Browser tabs rotate one refresh token, and using an old one means theft. An editor awaits
one request after the other while its canvas goes on changing. A turn of the assistant can
leave at every await, and what it took must be given back.

**What makes each component correct.**

* Planner: the loop of `ready()` excludes exactly the nodes no route can reach any
  more; a join is decided only when every route into it is; a decision is never
  taken twice; some node can always go on.
* Runner and execution state: one writer at a time; no commit from stale rows; an
  unrepeatable call takes effect at most once and the rows never deny it; attempts
  stay in budget and are never rewritten; finished runs are settled, final and
  announced exactly once; every run ends (it need not, see finding 5).
* Job delivery: an admitted run is delivered until it is claimed; a duplicate is
  harmless; a poisoned one does not block the queue; nothing is marked published
  that was not; what is left of a finished run disappears.
* Idle polling: no sleep of minutes over work this instance knows of, however polls
  fail and whenever a row is committed.
* Notification intake: nothing is acknowledged that is not stored; nobody is told of an event
  through both versions of it; the two APIs agree on what is read; nothing read turns unread.
* Notification delivery: a provider accepts a message again only for a reason; sends are
  bounded; late results are ignored; every delivery is settled in the end; whoever was
  told of a delivery is on time for it.
* Web login: as long as nobody ends the session, and lost answers are made up for one by
  one and within their grace, no tab logs the others out.
* Draft editor: a rename never brings an old canvas back (finding 6 is the exception); a run
  executes what was on the screen when it was asked for (finding 4).
* Assistant: slots are the turns in work; turns stay within the daily quota.
* Admission: one run per idempotency key and per scheduled time; the capacity limit
  holds under concurrency; the row and its outbox intent exist together.

The full list of hazards, each at its line, is in `PROJECT.json`.

## 2. Plan

The modules in the order they were written.

1. `ReadinessPlanner` - the planner's operators, pure, without RECURSIVE (the
   exclusion is a recursive function) so that modules with proofs may extend it.
2. `PlannerWalk` - the loop of `ready()` as a state machine, checked against the
   closed form the operators use.
3. `ExecutionRun` - one run: rows, leases, workers, calls, failures.
4. `ExecutionLifecycle` - what a run promises to those who only see its rows;
   `ExecutionRun` implements it.
5. `ExecutionRunProofs` - type correctness, one writer, no stale commit, finished means
   final. `ExecutionRunRows`, over `ReadinessPlannerProofs` - rows and decisions agree.
   `ExecutionRunResults` - history, results, the refinement of `ExecutionLifecycle`, and
   one effect per unrepeatable call. `PlannerWalkProofs` - the loop and its walks.
6. `JobDelivery` - outbox, broker, listener and recovery scanner: from a committed
   intent to a claim, with lost confirms, duplicate deliveries and dead letters.
   `JobDispatch` - what it promises to a run; discharges the fairness `ExecutionRun`
   assumes of `Claim`. `JobDeliveryProofs` - its types, its fences, that no step loses the
   job, and that rows are sent once per failure.
7. `IdleBackoff`, `OutboxPolling`, `RecoveryPolling` - when the publisher and the
   scanner look at the database at all.
8. `NotificationDelivery` - claim, send, receipt and result; `NotificationDeliveryProofs` -
   its types, bounds and fence, and that acceptances have reasons. `NotificationPolling` - when its worker looks.
9. `NotificationIntake` - from the broker to the tables, and the read state.
10. `WebSession`, `DraftEditor`, `AssistantTurn` - clients and servers that share state.
11. `Services`, `MCServices` - the composition of 7 to 10, and its instance for TLC.
    `ServicesProofs` - every property it checks, proved.

Not done, in the order of their worth: admission and publication as modules; the two
refinements joined, a run whose `Claim` is enabled by an instance of `JobDelivery`;
theorems about `Excluded` for walks with failures (`PlannerWalk` has successes only, and
`RoutesAreDecidedOnce` covers the rest). The proofs of a new component go into the
modules of the one it composes with.

## 3. The modules

### ReadinessPlanner

The operators `Initialize`, `Ready`, `AfterSuccess` on a graph state. `ready()`
loops over a topological order until nothing changes; `Excluded` is the closed
form of what the loop excludes. Argument checks that throw are preconditions: they
are what `DefinitionValidator` guarantees (`WellFormed`).

### PlannerWalk

The loop itself: `Visit` handles one node in the topological order of a pass,
`EndPass` starts another pass while something changed, and `Complete` lets a READY
node succeed with any of its ports. TLC enumerates all graphs made of eight
candidate edges over two triggers, a condition with two ports, a node and a join.

### ExecutionRun

| Variable | Stands for |
|---|---|
| `run` | the `workflow_executions` row: status, lease owner, token, whether `lease_until` is in the future, recovery count, stop flag, and whether the version, root and registration it names still match |
| `saved` | `node_executions` (status, next attempt time set or not, OUTCOME_UNKNOWN), the persisted edge states, `node_execution_attempts` |
| `notices` | `workflow.completed` / `workflow.failed` rows of `notification_outbox` |
| `due` | waiting nodes whose `next_attempt_at` has passed |
| `accepting` | per process, that listener and runner have not been closed |
| `pc`, `job`, `mem`, `futures`, `done` | per worker thread: where it is between transactions, its lease token and flags, `RuntimeState`, the map `running`, the completion queue |
| `orphans`, `effects` | calls on the wire nobody listens to any more; how often each unrepeatable node changed the outside world |

Each transaction is one action because it holds the row lock from its first
statement: `ClaimFailsLegacy`, `ClaimExhausts`, `ClaimGranted` (with
`recordInterruptedAttempts`), `Load`, the commits of `InitializeRun`, `Turn`,
`ScheduleReady`, `Complete` and `Finalize*`, the release in `RefuseRun` and `Exit`,
`RequestCancel`. What the runner does between two transactions touches only its
own memory, except for reading the stop flag and the clock, so it belongs to the
action of the next transaction. `CallReturns` is a node executor's virtual thread;
`OrphanLands`, `BackoffElapses`, `LeaseExpires`, `Crash`, `Shutdown`, `Restart`,
`HeartbeatFails` and `Throw` are the environment, the last five only where the
constant `Faults` allows them. A lease may also expire, in every instance, when no
worker holds it.

A commit is accepted with its whole image or refused. It is refused, and the loop
ends, when the lease is lost, the fence fails or the image is not valid
(`validateNodeStatuses` throws). `Exit` is the `finally` block.

`pollCompletion` gives up at the earliest retry time. When that time has passed already
(`Overdue`), its millisecond of patience is truncated to zero and it returns before it looks
at the completion queue. `Turn` promotes due nodes, but not once a stop or a failure was seen:
then `Overdue` stays, `PollTimesOut` is all the worker can do, and `Complete` never happens
(`Spinning`). A poll could read a result only if `System.nanoTime()` gave the same value
twice, which is left out.

Data is abstracted to what decides control: a provider's answer is a selected port
or one of three kinds of failure (surely not sent, transient, permanent); mapping,
configuration and output documents, log lines and timestamps are gone. A node is
*unrepeatable* when `NodeSideEffects` calls it side-effecting and it is not an
`http.request` (which carries a stable Idempotency-Key).

### ExecutionLifecycle

The abstract specification: a status, node statuses, announcements. `Begin`,
`Advance`, `End(result)`, `Withdraw`, `Abandon`. `ExecutionRun` instantiates it
(`Lifecycle`) with `run.status`, `saved.node` and `notices`.

### JobDelivery

One admitted run, and everything that carries it to a worker.

| Variable | Stands for |
|---|---|
| `run` | the run's row as the delivery sees it: QUEUED, RUNNING or ENDED; the live lease; the recovery count; whether it is older than `queued-delivery-age` |
| `events` | its `outbox_events` rows: status, publisher lease and whether it has run out, whether `next_attempt_at` has come, retry count, and whether the row is younger than the re-enqueue cooldown |
| `round` | per publisher: rows of the claimed batch still to be sent, and the broker's answers to the ones sent |
| `queue`, `retryQueue` | ready messages of `workflow.executions.v1` and `.retry`, counted by their redelivery header |
| `worker` | per consumer thread: where `onMessage` is, the header of its message, whether the broker still holds the message unacknowledged |
| `scan` | per scanner: idle, its query has read, it holds the row lock |
| `faults` | failures so far, at most `MaxFaults` |
| `stranded`, `accepted`, `enqueued` | history: the run lost a carrier that nothing replaced; how often the broker took a row; how many rows the scanners wrote |

A publisher's round is `ClaimPending`, one `Send*` per row, then one `Settle*` per
answer, as `publishPending` does it: everything is sent before the first confirm is
awaited, with no transaction open, so leases may run out and other publishers may
claim in between. A round draws a new lease token; a row the publisher still holds
from an earlier round becomes `Forgotten`, a token nobody has. `Holds` is the fence of
`markPublished` and `scheduleRetry` (PENDING under this token). A listener thread is
`Deliver`, a `Claim*` (the transaction that `ExecutionRun` has in full), the end of
`run()`, and the acknowledgement, the rejection to the dead-letter queue, or the
deferral to the retry queue, which acknowledges only after a broker confirm. A scan is
three steps, because its query reads a snapshot, its row lock (FOR UPDATE SKIP LOCKED)
re-checks the run but not the outbox rows, and its insert is visible at the commit;
meanwhile a claim of the same run is skipped as if there were nothing to claim, and its
message acknowledged (`ClaimSkipsLock`). `Init` is the state after an admission.

A settled row that is older than the cooldown is read by no query of the delivery any
more; `RowIsHistory` frees its slot. `Slots` therefore bounds the rows that matter at
the same time, not the rows written.

### JobDispatch

The abstract specification of the delivery: a run nobody owns is claimed; a claim of a
run already begun uses up a recovery, and one too many ends it. `JobDelivery`
instantiates it (`Dispatch`) with the three fields of `run`. Its fairness,
`WF(Claim)`, is what `ExecutionRun` takes for granted of its environment.

### IdleBackoff, OutboxPolling, RecoveryPolling

`IdleBackoff` has the arithmetic of `IdleBackoff.java`: the doubling ramp, the wake
aligned to multiples of the maximum, the ramp after errors. `OutboxPolling` is the
publisher's tick around it, one outbox row and the signal `OutboxWakeup`, which is
raised after the commit of the row and consumed at the next tick; a row that is
rescheduled becomes claimable later, and an idle poll looks that time up.
`RecoveryPolling` is the scanner's tick, with the generation of `ActivitySignal`. Time
passes one tick at a time; commits and callbacks fall between any two steps of a poll.

### NotificationDelivery

| Variable | Stands for |
|---|---|
| `rows` | `notification_deliveries`: status, `retry_count`, whether `scheduled_at` has come, the Expo receipt in the payload and whether it is 23 hours old, and the fence: `updated_at` differs for every claim, so it is the worker whose claim wrote it, and whether its lease has run out |
| `worker` | per instance: where `deliver()` is, its row, whether the claim returned a receipt, the provider's answer |
| `calls` | history: how often a row was sent |
| `credit` | history: one, plus what may excuse another acceptance, minus the acceptances |
| `faults` | crashes, failed writes and overrun leases that may still happen |

`Claim` is the whole transaction of `claim()`: it gives up every overdue row without an
attempt left and leases one row; `ClaimNothing` is the one that finds none. `Send`,
`SendAndLoseTheAnswer` and `AskForReceipt` are the provider, `Finish` is the fenced update.
`Drop` is a worker that loses its row: three failed writes, or a crash and a restart. A lease
is at least three request timeouts, so that it runs out under a worker only when the process
stalls (`LeaseOverrun`, a fault); without a worker it runs out in time (`LeaseExpires`).
The claim of the code takes the oldest row; the model takes any, which is more.

### NotificationIntake

| Variable | Stands for |
|---|---|
| `queue` | where each message is (unsent, ready, taken, acknowledged, dead-lettered) and how often it was returned |
| `handler` | per message in work: where `handle()` is, what its transaction has read, whether its channel still lives |
| `inbox`, `deliveries` | read state of the item of an event and a user; of each delivery, and whether it is linked to the item |
| `pushes` | the rows that a version 2 event has in `notification_deliveries`, for the devices of a user or the mail of an invitation: stored as read and linked to the item. One per event and user stands for all of them |
| `stored` | the type under which an event is stored, for the identity checks |
| `request` | a read transaction between its two statements |
| `purged`, `raced` | history: events that retention has touched; events stored while a read transaction was open |

An ingest is `BeginIngest` (the advisory lock, and what it reads) and `CommitIngest`. A read
request is opened by its first statement, which fixes what it marks, and ends with the
second. Handlers run on when the connection closes; their acknowledgement then
fails, and the broker has returned the message already.

The list of the legacy API has no filter on the provider, so it shows the rows of a version 2
event's devices as read while the item may be unread; that is intended ("must not count the
push as an unread notification", `prisma.inbox.repository.ts:247`). A request that names such
a row marks its item (`MarkPushRead`), and retention deletes it before its item (`PurgePush`).
Which devices are registered when an event is stored is arbitrary. An event with `pushes` has
no deliveries of version 1 (`OneChannel`), so `ApisAgree` is about events with deliveries. A
version 1 copy that follows a version 2 copy reads its rows as a group that is linked
already, and changes nothing. A redelivered invitation that already has its mail is left
alone by the code; the model lets it add rows for devices again, which is more.

### NotificationPolling

`DeliveryWorker.schedule`: the timer (`Fire`, `Rearm`), the ramp and the aligned wake
(`IdleDelay`), the lookup of the next due row (`LooksUp`), a failing tick (`Throws`) and
`wake()`, which falls between any two steps of a tick. One delivery is followed, as in
`OutboxPolling`.

### WebSession

Tokens are numbers in the order the session issues them; `aged` says up to which they have
expired or are about to. `token`, `mark` and `cookie` are the browser's; `session` is the
row: current and previous token, whether the ten seconds of grace still run, whether it is
alive. `tab` is `refreshAccessToken`, per tab: waiting for the lock, asking with another
tab's token, sent, answered. `leaving` is a logout request, `stray` a request whose tab is
gone. `cause` is history: something that may end the session has happened (a logout, a
revocation, an answer lost for longer than the grace, two answers lost in a row).

### DraftEditor

Contents of the canvas and names are numbered in the order of the edits. `save` has a slot
for the buttons and one for the inspector, each a request with the canvas of the moment its
handler was called; `rename` reads the saved draft and writes it back. The inspector's dialog
is submitted in `Connect`, which keeps the page of that moment, and `ConnectionCreated` puts
the connection into the step and starts the save. The dialog does not block the page: its X is
enabled while it works, and closing it stops neither request. One connection is made at a time,
and it is taken as the canvas of the answer plus the connection, so that a line drawn during
the request, which the code drops from that save, is left out. `rename.crossed` is history: a
save of the inspector landed since the rename read. Typing a name and leaving the box are
steps of their own, which allows more than the page does. `server` is the draft
and the publication. `run` remembers what was on the screen at the click and what is
executed.

### AssistantTurn

One action per await of `AssistantController.chat`, per turn: `Admit`, `RecordUsage`,
`CheckQuota`, `StoreQuestion`, `ReadHistory`, then the stream (`Delta`, `Done`, `Break`,
`InternalError`), the two statements of `rollbackTurn` in any order and each may fail
(`Refund`, `DeleteQuestion`, `FailToUndo`), and the release (`End`).

### Services

The disjoint sum of the seven small machines: the initial state chooses one, and the
variables of the others stand still. They share nothing in the code, so one run can ask all
their questions; its state space is the sum of theirs, and so is every proof about it.
The constants of the pollers are named apart, because their units differ.

### Defect operators

Definitions named `...Defect` are mistakes the code does not make (no fresh token per
claim, a result that forgets the receipt, an acknowledgement before the commit, a retry of a call that may have been sent, a recovery that forgets the attempt
rows, ...). Each has the parameters of the definition it stands before; putting it in
that definition's place must make the run named in `PROJECT.json` fail, which shows
that the property depends on that code.

## 4. What TLC checks

| Run | Instance | Shows |
|---|---|---|
| `planner_walk` | all graphs over 5 nodes and 8 candidate edges | the loop equals the closed form (`LoopMatchesClosedForm`), always progresses (`NeverStuck`), runs exactly the selected nodes (`RunsOnlySelectedNodes`), never decides a join early (`JoinsWaitForEveryRoute`) |
| `three_workers` | one side-effecting node, two threads of one process and one of another, all faults, 2 attempts, 1 recovery | `AtMostOneEffect`, `RowsTellTheEffects`, `OneWriter`, `HolderSeesTheRows`, `FinishedIsFinal` |
| `parallel` | a condition with two ways beside a side-effecting node, one worker, crashes, lost leases, shutdowns, exceptions | `TypeOK`, `RowsNeverContradict`, `FinishedRunsAreSettled`, `OneNoticePerResult`, `OneRoutePerDecision`, `HistoryIsKept`, `LifecycleSpec`, `RunEndsOrSpins` |
| `delivery` | 2 publishers, a listener thread, a scanner, 2 rows, 1 copy per queue and header, 2 failures, 1 recovery | `TypeOK`, `JobOnItsWay`, `SentOncePerFault`, `LateAnswersChangeNothing`, `DispatchSpec`, `FinishedRunGoesQuiet` |
| `notification_delivery` | 2 instances, an Expo row and another one, 2 attempts, 2 faults | `TypeOK`, `AcceptedOncePerReason`, `SendsAreBounded`, `StaleResultsChangeNothing`, `EveryDeliverySettles` |
| `services`, intake | 2 handlers, four batches of copies of one event (both versions, a duplicate, a conflicting type, an own action), a request, a fault | `AckedIsStored`, `OneChannel`, `ApisAgree`, `ReadStaysRead` |
| `services`, session | 2 tabs, 4 rotations, two lost answers | `NobodyIsLoggedOut` |
| `services`, editor | 2 edits or connections, a new name, a failed request | `OnlyTheInspectorCrosses` |
| `services`, assistant | 3 turns of 2 users, a daily limit of 1 per user and 2 per workspace, 2 days, a fault | `SlotsAreTurns`, `QuotaHolds` |
| `services`, outbox poller | seconds, the defaults but for a maximum of 60 and an errors' ceiling of 8 | `NeverSleepsOverKnownWork` |
| `services`, recovery poller | units of 30 s, exactly the defaults | `ActiveRunKeepsTheBase`, `SleepIsBounded` |
| `services`, delivery poller | seconds, a ramp up to 8 and a maximum of 64 | `WokenWorkerIsOnTime` |
| `schedule_clears_retries`, `delivery_reenqueue`, `failed_scan`, `edits_marked_saved`, `stop_spins`, `rename_crosses` | small instances | the six findings below: violations of `RecoveriesNeedAFault`, `ReenqueueIsCapped`, `ActiveRunIsNeverSleptOver`, `RunExecutesTheEdits`, `StoppedRunEnds`, `RenameCarriesTheCanvas` |

**Bounds.** Two workers are enough for every race of the fence, which compares one
worker with the row. `three_workers` has two that share a process, and so the owner name, and
one in another process, which goes on when the first one dies or shuts down. Two attempts
distinguish a first, a repeated and an exhausted attempt. One recovery lets a run be
recovered and then exhausted. Graphs have at most four nodes behind the trigger: one node
under every failure that three workers can meet, a fork (parallelism), a chain beside another
node (order), and a condition beside another node; joins and excluded routes of every shape
are the planner's runs. The concurrency limit of 2 is reached and binds in none of them; the
theorems hold for every limit. In `ExecutionRun` no state constraint is used; all counters
are bounded by the code's own limits.

The delivery has real bounds, all guards of named actions: `MaxMessages` copies of a
job per queue and header (with 1, a job and its duplicate are in different queues, differ in
their header, or one of them is in the hands of the listener), `Slots` (two rows: the one in
flight and the one a scan adds), and `MaxFaults`. Two failures are what the interesting
histories need: one that leaves a message without its row settled (a lost confirm, a
slow round, a closed channel) and one that hits what was done about it. With
`MaxAttempts = 2` two failures make a row FAILED; with `MaxRedeliveries = 1` they
dead-letter a message. Two publishers are what a late answer needs; two scanners and two
listener threads would make the check of the liveness too long, and the theorems about the
safety hold for any number of them (for the liveness one of each is a limit of the run).
`MaxCounted` bounds a counter that only `delivery_reenqueue` needs.

A claim that meets the row lock of a scan (`ClaimSkipsLock`) takes from the budget of
failures although nothing breaks: the two have to coincide within milliseconds, and if
they may coincide for ever, the run is never claimed. That is a limit of the design
worth knowing: each scan replaces the message it made the listener drop.

The pollers' runs keep the ratios of the defaults (base, ramp ceiling, maximum,
jitter); what they exercise is where the ramp ends and the aligned wake begins.

`notification_delivery` has two instances, because the fence compares one worker with the
row, and two faults: one that leaves a row leased or accepted but unwritten, and one that
hits what was done about it. With two attempts a row is sent, sent again and given up. In
`services`, an event is shown by one item and two deliveries, which are each other's
siblings; two copies of a message and one lost connection are what a redelivery beside a
running handler needs, and a delivery limit of 1 is reached by it. Three tokens are needed
for a renewal by a tab that holds neither the current nor the previous one, and a fourth for
what comes after it; of two lost answers the second may be the one that was to make up for the
first. An edit before a save, one during it and one rename are all a crossing
needs. Of the assistant's limits, two turns of one user meet his limit of 1, and three turns that count
before any of them looks meet the workspace's limit of 2. The pollers' instances of `services`
have no fault bound.

`services` uses symmetry over handlers, destinations and tabs, and `three_workers` over the
two threads of one process: no definition distinguishes them, and the runs check no
liveness.

Deadlock is checked in `failed_scan` only. A finished planner, run, delivery,
notification or turn stops, and the sum in `services` stops with it.

**Fairness** (liveness only). In `ExecutionRun`: weak fairness of everything a worker
thread does for the run it has (it is a running thread; provider calls have timeouts,
so a call returns), of restarts (the deployment restarts a stopped process), of retry
delays (time passes) and of the expiry of a lease nobody renews; strong fairness of
`Claim`, which is what `delivery` shows of the delivery (`DispatchSpec`). Faults are not
limited there; that they cannot go on for ever is *shown*, not assumed: each abandoned
claim consumes one of `max-recoveries`. `RunEndsOrSpins` is what holds under it: a worker that
keeps its lease may poll beside an overdue retry for ever. `stop_spins` has no faults, and its
counterexample is a fair one: every step it takes for ever is the worker's own, and the worker
takes every step it can. In `JobDelivery`: weak fairness of the
schedulers' ticks (`ClaimPending`, `ScanReads`), of every next step of a round, a
delivery and a scan, of the broker (`Deliver`, `RetryComesBack`) and of time (leases,
delays, ages, cooldowns). No failure is fair, and neither is a user's withdrawal. In `NotificationDelivery`: weak
fairness of what each instance does (a tick runs to its end and the timer is armed again in
its `finally` block), of leases that run out, of retry times that come and of receipts that
age. That no provider ever accepts is allowed, and so is one that never has a receipt:
`EveryDeliverySettles` rests on the attempts and on the 23 hours.

## 5. Findings

1. `scheduleReadyNodes` clears `nextAttempts` of all nodes (`ExecutionRunner.java:332`). When
   a READY node is started while another waits for its retry, the commit's image has a
   WAITING node without a retry time, `validateNodeStatuses` throws, the run loop dies,
   calls in flight are cancelled, and the run is recovered although nothing had failed
   (`schedule_clears_retries`). The recovery cap was meant to count crash recoveries.
2. `enqueueRecoverable` writes a row for a run that is still QUEUED after every cooldown,
   without any failure and without end (`delivery_reenqueue`): a backlog grows by one
   message per waiting run and cooldown. A comment in `OutboxEventRepositoryAdapter` says
   that re-enqueueing is bounded by the recovery cap, which only a claim of a RUNNING run
   counts.
3. A recovery scan that throws is recorded as an empty poll (`record(false)` in the
   `finally` block of `recoverOnSchedule`), so two failing scans put the scanner to sleep
   until the aligned wake, five to fifteen minutes at the defaults, with runs in flight
   (`failed_scan`). Its own comment says any active run keeps it at the base interval.

4. `handlePublishWorkflow` and `saveDraft` call `setIsSaved(true)` when an awaited answer
   comes (`WorkflowBuilderPage.tsx:877`, `794`), although the canvas was editable meanwhile.
   An edit made in between is taken for saved and published, and the next click on Run
   executes the publication without it (`edits_marked_saved`). The comment at line 924 says
   that unsaved or unpublished edits are published first.
5. A node waits for its retry beside a call in flight, and the run is asked to stop (or another
   node fails for good). The loop schedules nothing more and keeps the retry time
   (`ExecutionRunner.java:517-520`). When it has passed, `pollCompletion` gives itself one
   millisecond, truncates what is left of it to zero and returns before it polls (`681-688`).
   The worker commits and polls at full speed, its heartbeat renews the lease, the call's
   result is never read, and the run stays RUNNING (`stop_spins`) until a shutdown, a crash or
   a lost lease. Line 177 says that nodes already running finish, and the handoff for mobile
   (`docs/handoff/2026-10-week6-mobile.md:235`) lets the app show "Stopping" until the run is
   CANCELLED.
6. The inspector's save neither sets `isSavingWorkflow` nor keeps the dialog open: its X
   (`ConnectionsPage.tsx:543-550`) works while the request runs. When a save of the buttons
   is answered during it, `isSaved` is true again, and a new name starts a rename that reads the
   draft before the inspector's PUT and writes it back afterwards: the connection is gone from
   the draft (`rename_crosses`). The comment at `WorkflowBuilderPage.tsx:819` says that the two
   PUTs can never cross. `OnlyTheInspectorCrosses` is what does hold.

Smaller disagreements, seen while modelling and not checked by a run: a run flagged to
stop while RUNNING may end FAILED or SUCCESS, where the HTTP contract says it ends
CANCELLED; the failure notification of a run whose recoveries are exhausted is written by
`claim()` with no live lease; an idle poller sleeps up to one and a half times
`idle-max-delay` (`SleepIsBounded` states what does hold).

* `services/notification-service/README.md:118` and `packages/contracts/http/notifications-v2.md:74`
  say that legacy delivery reads and v2 inbox reads are independent; both mark both tables now
  ("so both APIs agree", `prisma.repository.ts:173`; `ApisAgree`). They can still disagree
  about an event that is stored while a mark-all is open (`raced`).
* `assistant.controller.ts:242` says that the rollback comes before the release so that a
  quick retry cannot overtake it: with the default of two turns per user the retry needs no
  released slot. Line 265 says that a turn that produced nothing gives its quota back: a
  statement that fails after the count and before the stream keeps the unit and may
  keep the question.
* `auth.api.ts:812` says that the local cleanup of a logout is authoritative: a renewal in
  flight stores its token afterwards and sets the mark again, and `LogoutUseCase` does not
  find the session by a token that was rotated meanwhile.
* A web renewal whose answer is lost for more than the ten seconds of grace ends the session
  of every tab at the next renewal, as if the token had been stolen. So do two answers lost in
  a row, however quickly (`LosesTheCookie`): the browser is left with a token that is not even
  the previous one. The attempt to prove `NobodyIsLoggedOut` for any number of lost answers
  found the second case; a run with one lost answer cannot show it.

## 6. What TLAPS proves

Every invariant and every action property of a passing run, for every value of the
constants that the module's assumption allows. `PROJECT.json` lists the theorems. Where a
property is not inductive, which is nearly everywhere, the inductive invariant below was
first checked by TLC on an instance of the run.

### The planner

Assumptions: `WellFormed` (edges lead from nodes to nodes that are no triggers, and a trigger
has no ports; `DefinitionValidator` refuses anything else) and, for the walk, `Topological`
(the order that `ready()` is given lists every node once, sources first).

* `ReadinessPlannerProofs` has lemmas only. `Excluded` is a recursive function of the
  nodes, so what it means rests on its equation having a solution: `FixpointExists` gives one,
  the union of all sets of nodes that could be excluded together. `ExcludedUnfolds` is
  what the other proofs use: a node is excluded when it is PENDING and every route into it
  is inactive, or undecided and from an excluded node.
* `LoopComputesReady` (`PlannerWalkProofs`): `Spec => []LoopMatchesClosedForm`. `WalkInv` says
  that every graph state of a walk is `Walked` (a route is undecided as long as its source
  may run, a node that is decided has all its routes decided), that the loop is `OnTheWay`
  from the state before to the closed form, and that a pass which has changed nothing so far
  has passed by every node it visited (`LoopInv`). When a whole pass has changed nothing, the nodes that loop and
  closed form disagree on have a first one in the order (`FirstNode`), on whose predecessors
  they agree; so there is none. That takes the place of an induction over the graph.
* `NoWalkGetsStuck`, `OnlySelectedNodesRun`, `JoinsWait`, `DecisionsStay` follow from
  `WalkInv` and the closed form: the first two again by the first node in the order
  that would be stuck, or would run unselected. `OnlySuccessSelects` (only a node
  that succeeded has an active route) and `DecisionsStay` are theorems that no run checks.

### The execution run

Assumptions: `DefinitionAssumption` (the pinned version is well-formed, the root is one of its
triggers, no trigger is side-effecting) and `BoundsAssumption` (attempts and concurrency at
least one, a worker lives in one process, no process is called "nobody").

* `TypeCorrect` (`ExecutionRunProofs`): `Spec => []TypeOK`. Starting a node adds one to its
  attempt count, and clearing a claim adds one to the recovery count. `TypeInv` adds that a
  node that may still be started has an attempt left (`Sound`), that nothing was started
  before the root succeeded (the first commit makes every node PENDING whatever was there),
  that the root is never called, and that an unfinished run has at most `max-recoveries`
  recoveries. One lemma per image operator (`FailedImageSound`, `InterruptedSound`,
  `StartedSound`, ...), then one per action.
* `OnlyOneWriter`, `FencedWorkerSeesTheRows`: `TokensInv` says that tokens never exceed the
  row's, that no two workers share one and that a RUNNING row has one. Every step but a
  granted claim is a `FencedStep`: it hands out nothing, and it changes the rows of a run
  that goes on only through a fenced worker that keeps what it writes. A granted claim has a
  token no worker has had. `FinishedForEver` follows from the same step lemma.
* `RowsAreConsistent`, `RoutesAreDecidedOnce` (`ExecutionRunRows`): the rows are written by the
  runner from its memory and by the recovery from the rows, so `RowsInv` is
  `FencingInv /\ ImagesInv /\ LoopsInv /\ RunInv`. `ImagesInv` calls an image tidy when nodes,
  attempts and routes agree, and says so of every worker's memory as well, stale or not.
  `LoopsInv` says what a loop knows: the calls it waits for are nodes that its own image has
  RUNNING, all of them once everything is submitted, and each has one answer at most.
  `RunInv` is what claims leave behind: an untouched image while the run is queued, no
  RUNNING node after a claim.
* `AttemptsAreHistory`, `FinishedIsSettled`, `ResultsAreAnnouncedOnce` (`ExecutionRunResults`):
  every image a step writes is `Progress` from the one it read (attempts are kept, nodes move
  as the lifecycle lets them and start in dependency order), one lemma per operator; a
  finished run has one announcement and no open node.
* `RunImplementsLifecycle`: `Spec => LifecycleSpec`, by the same lemmas. Every step of a run is
  a step of `ExecutionLifecycle` or a stutter.
* `OneEffectPerRun`, `EffectsMatchTheRows`: the rows do not show where a call is, for it may be
  with a worker that lost its lease or on the wire with nobody listening. `CallInv`
  follows the call: it is in one place (`OnePlace`), its row is RUNNING or FAILED until its
  result is committed (`RowKnows`), and as long as it has not returned it has had no effect
  (`NotYet`). A recovery makes such a row FAILED and no step starts a FAILED node.

### The job delivery

Assumption: `DeliveryAssumption` (finitely many publishers; limits are naturals, at least one
attempt; "nobody" and "forgotten" are no publisher, and "nobody" is no worker).

* `DeliveryTypeCorrect` (`JobDeliveryProofs`): `TypeInv` adds that a PENDING row has an attempt
  left, that an unfinished run has at most `max-recoveries` recoveries and that a QUEUED
  run has no lease.
* `LateAnswersAreIgnored`: only a settlement or a crash takes an answer away; the one is
  fenced by the row's holder, the other changes no row.
* `DeliveryImplementsDispatch`: `Spec => Dispatch!Spec`, the safety half of the refinement
  that `delivery` checks with its fairness.
* `AlwaysOnItsWay`: a PENDING row alone is not a safe witness, for one whose message was
  accepted may become PUBLISHED at any moment. `CarriersInv` says that a QUEUED run that
  is not stranded has a carrier or a row the broker never had (`CarrierInv`); that answers
  are "accepted" only for rows it had (`AnswersInv`); that nobody works on a row that left
  its slot, so that a new row there starts from zero (`GoneInv`); and that a thread that has
  run the job acknowledges a run that is no longer QUEUED (`BegunInv`). Every step
  `HandsOn`: it keeps carriers and rows, or makes one, or the run needs none any more, or it
  counts as stranded.
* `RowsAreSentOnce`: `CreditInv` counts, for every row, the acceptances, the publishers that
  are about to send it, and one more while another publisher may claim it; the sum exceeds
  the failures by one at most. A claim moves the last of these to a publisher, and
  what opens a row again is a failure.

### The notification delivery

Assumption: its `DeliveryAssumption` (finitely many instances, at least one attempt, "nobody" is
neither an instance nor a row).

* `TypeCorrect` (`NotificationDeliveryProofs`): a claim adds one to the attempts of a row, and
  a refusal is written over whatever the row has become, so `TypeInv` adds that a busy worker
  has a row and asks for a receipt only when it holds one (`SoundWorker`), that a sent row has
  no next try and a waiting one has (`SoundRow`), and that a worker serving a row under its
  last claim agrees with it on whether there is a receipt (`AgreeInv`).
* `SendsBounded`: a worker that has claimed a row and not sent it yet has a call to come, and
  it may have lost the row since. `SendsInv` counts both: calls plus the workers about to send
  a row never exceed its attempts.
* `LateResultsAreIgnored`: from `TypeInv`.
* `AcceptedOnce`: `CreditInv` keeps one unit of credit for each worker that is about to send
  the row and one for a row that is open to be claimed for a send.

### The services

From `ServicesAssumption`, the conjunction of the assumptions named below. Each machine has an
inductive invariant, proved from its own `Init` and `Next`; a step of `Services` is a step of
the machine that was chosen or leaves its variables alone, so the invariant holds as long
as that machine is the one (`EditorIsKept`, `TurnIsKept`, ...).

* `RenamesKeepTheButtonsCanvas`: `EditorInv` says that a rename and a save of the buttons are
  never both between their read and their write (`isSavingWorkflow` covers the one order,
  `renameRef` the other), however the inspector saves beside them, and that a canvas that
  differs from the server's was crossed by the inspector.
* `SlotsAreCounted`, `QuotaIsKept`, under `TurnAssumption` (finitely many turns and users, a
  user per turn). A turn counts before it is granted and is refunded after it is over, and
  several count before the first looks. `TurnInv` keeps, per day and user, the turns that
  have a unit of the usage row (`Units`) and those that have one within the limit (`Within`).
  The workspace's sum over users is a fold over a set, a recursive function of its subsets:
  `SumExists` builds the solution of its equation up to one size after the other, and
  `SumCovers` compares it with the turns its users have, both by a least counterexample.
* `KnownRowsAreNotSleptOver`, `KnownRunsAreWatched`, `SleepHasAnEnd`, `KnownDeliveriesAreOnTime`,
  under `PollingAssumption` and `BackoffAssumption` (delays are positive, the base is at most
  the maximum): what bounds the sleep holds from the end of one poll to the next, also over
  ticks that do not poll; the aligned wake needs the arithmetic of quotients.
* `TabsKeepTheSession`, under `SessionAssumption`: as long as nothing has happened that may end
  the session, the browser's cookie is the current token, or the previous one within its
  grace; a request whose tab is gone finds the cookie current or is the only one to have
  lost an answer (`StrayIsHarmless`); one tab renews at a time (`OneRenews`).
* `AcksAreBacked`, `OneChannelOnly`, `ReadStatesAgree`, `ReadIsForGood`, under `IntakeAssumption` (a version 1
  event names one user, and so do the version 2 copies of its type:
  `WorkflowNotificationOutboxAdapter.java:192` has one recipient; an event stored before the
  migration has a version 1 copy). `IntakeInv` says of each event that its rows are linked
  exactly when it has an item (`EventInv`); of an open ingestion that nothing has appeared
  since it read (`ViewInv`) and that it is the only one of its event (`OneIngest`); of an open
  read transaction that its choice is complete (`ChoiceInv`); the last two but for the
  events that were stored while it was open or touched by retention, which
  `ApisAgree` excepts too. `PushInv` says that an event with rows for devices or mail has no
  deliveries and that each such row has its item; an open ingestion of version 1 that saw no
  item therefore meets no such row at its commit.

**Model-checked only.** `RunEndsOrSpins`, `FinishedRunGoesQuiet`, `EveryDeliverySettles` and the
fairness half of `DispatchSpec`: liveness needs ENABLED, which is outside the prover. The
findings are violations, which TLC shows. That the constants of the runs satisfy the
assumptions is TLC's part as well.

## 7. Not modelled

* `InterruptedException` in `pollCompletion` and `renew` when it succeeds (a live lease
  stays live); execution logs, metrics and the finished listener (after the commit). An
  interrupted worker thread polls in a loop until its container is gone.
* `JobDelivery` leaves out the row lock of a withdrawal that is rolled back: a claim that meets
  it is skipped as one that meets a scan is (`ClaimSkipsLock`).
* Validation of definitions, node configuration and mappings: pure functions of
  documents.
* Admission: one transaction under a `FOR UPDATE` lock of the workflow, with a unique key
  per trigger and idempotency key. Whether it holds rests on the database's locks and
  constraints, which a model would restate. Its result is the initial state of
  `ExecutionRun` and `JobDelivery`.
* Publication, drafts on the server and the schedule scanner: single transactions on
  configuration. What the editor sees of them is in `DraftEditor`.
* The notification outbox of workflow-service, and those of identity- and
  workspace-service: the claim, send and settle of `JobDelivery` again, for rows nobody
  waits for.
* notification-service: the single devices behind a row of `pushes` and their registration, the
  classic queue's drain, rendering, the batches of a purge.
* ai-service: rate limiters, deduplication of equal requests, the circuit breaker, tool
  calls, deletion of conversations.
* Web: browsers without Web Locks, where `withRefreshLock` (`auth.api.ts:324`) runs without a
  lock: `NobodyIsLoggedOut` does not hold there (that is its mutant `NoLockDefect`), and only
  the ten seconds of grace help. Several editors of one draft (the server takes the last one), a request that takes
  effect after its client gave up, pausing, the chat history, and all views that show what
  a query returned; most of the client's code is such views. The admin and mobile clients,
  api-gateway and ocr-service keep no state that outlives a request.
* Everything else listed `not_modelled` or `partly` in `PROJECT.json`, with its reason there.
