# BKN Foundry: models, checks and proofs

TLA+ models of the parts of BKN Foundry whose correctness depends on the order of
concurrent steps, on retries and on crashes; TLC configurations that check them on
small instances; and TLAPS proofs of what matters most for instances of any size.

Every definition that models code names, in `PROJECT.json` under `map`, the lines it
stands for.

## The system

BKN Foundry is a set of backend services around business knowledge networks.

| Part | State | Operations | Talks to |
|---|---|---|---|
| BKN Trace core (`bkn-trace/agent-observability`): sessions | conversations, interactions, operations, receipts, assembly revisions in MariaDB | ensure/new generation/close, start/terminate, ensure operation/start attempt/complete/fail; a reaper that abandons, expires and assembles | callers over HTTP; writes the projection outbox in the same transaction |
| BKN Trace core: projection outbox and worker | outbox rows, dead letters | lease, deliver, retry, bury, replay | OpenSearch through the sink |
| BKN Trace core: projection rebuild | checkpoint, target index | snapshot, catch-up, validate, switch alias | the store and OpenSearch, concurrently with the worker |
| BKN Trace core: evidence ledger | immutable events, conflicts | ingest | producers; writes the projection outbox |
| Producer evidence outbox (`bkn-backend`, `ontology-query`) | stream epoch and sequence, outbox rows, operator audit | enqueue, claim head of line, deliver, complete, retry, abandon, clean up | the evidence ledger over HTTP |
| BKN Trace core: evidence, assembly, archive, log and trace queries | none of their own beyond archives | read models, hashing | MariaDB, OpenSearch, files |
| BKN Engine (`adp/bkn`): action schedules | schedule rows with a lock and a next run | create, update, pause, resume, delete; a polling worker per pod that locks, executes and releases | the action's execution over HTTP |
| BKN Engine: knowledge networks | MariaDB rows | CRUD, queries | VEGA, execution factory |
| VEGA (`adp/vega`): build tasks and index cleanup | task rows, the resource's index state, a queue and the tasks in flight in memory, OpenSearch indexes | create, start, stop, delete; poll, build in batches, publish; recover; clean up | the source table, OpenSearch |
| VEGA: catalogs, discovery, queries, cursor sessions | connections, cursor sessions in memory | query, page, discover | external databases |
| Execution factory (`adp/execution-factory`) | operators, tools, sandbox session pool, MCP instances | register, run, pool acquire and release | sandbox |
| BKN Safe (`bkn-safe`) | policies, audit chain, decision log, licence | authorise, append, verify | all services |
| Infrastructure (`infra`, `comm-go`, `data-migrator`, `deploy`) | external systems' | proxies, model management, scripts | |

How they interact: a service that runs for an agent opens an interaction in the trace
core, makes each call an operation with a receipt, and enqueues evidence events in its
own database; a delivery worker pushes them to the ledger in stream order. Every change
of the core's rows, and every ledger event, leaves an outbox row in the same
transaction; the projection worker of each replica drains the outbox into OpenSearch,
which the queries read.

What is hard, per part:

- **Sessions.** Many callers and the reapers of all replicas act on one conversation;
  transactions serialise on the conversation row but read the clock before they wait
  for it, and a reaper lists candidates before it locks them. Receipts finish after
  their interaction ended. Correct means: one current generation, one active
  interaction, exactly one terminal transition, evidence decided once and never
  better than the receipts, everything decided in the end.
- **Projection outbox.** Leases run out under a busy worker, index requests arrive late
  or twice, processes die between request and bookkeeping, operators replay dead
  letters. Correct means: delivered rows are visible, dead rows have an open dead
  letter, documents never go back, every row is settled in the end.
- **Producer outbox and ledger.** Restarts bump the epoch while old events wait; a
  delivery that timed out may have been committed; two replicas share a stream; one
  refused event holds the rest back. Correct means: the ledger follows the stream,
  without gaps that no operator asked for, and the head always moves on.
- **Rebuild.** The authoritative rows and the outbox move while the target index is
  filled and validated; replicas rebuild into the same index, fail and start over.
  Correct means: no delivered row is missing after the alias switch, no document goes
  back, the rebuild succeeds in the end.
- **Schedules.** A lock lapses before its execution is through, pods work off a list of
  due schedules that grows old, handlers compute a next run and write it later. Correct
  means: a lock keeps others out until its time is up, a slot runs once unless a lock
  was lost, and an active schedule whose expressions have slots has a next run and gets it.
- **Build tasks.** Handlers, workers, discovery and cleanup read and write the rows of
  tasks and resource in separate steps; progress and completion race with stop, edit and
  delete; the process dies between a batch and its checkpoint. Correct means: what a
  resource serves is complete and of its own configuration, and neither a worker nor the
  cleanup destroys what is served or resumed from.
- **Transactions.** A callback is run again after a deadlock, with what the first run
  left in its captured variables; a domain error hides a database error.
- **Cursor sessions.** A session is in the manager's table before its creator has locked
  it, and the offset advances although the answer may be lost on its way.
- **Sandbox pool.** The first acquirer of a new session is not counted among its running
  tasks, so the pool can scale the session down while it is used; the reconciliation
  overwrites a session's record.

`PROJECT.json` lists each of these hazards at its line, with the property that would
catch it or the reason there is none yet.

## Modules

| Module | Models | Extends / uses |
|---|---|---|
| `ProjectionDelivery` | the promise of the projection to readers: due, delivered or dead; delivered means visible; only committed versions; documents never go back | abstract |
| `ProjectionOutbox` | `outbox.go`, `projectorsvc/worker.go`, `opensearchprojection/sink.go` | refines `ProjectionDelivery` |
| `ProjectionOutboxProofs` | theorems about `ProjectionOutbox` | TLAPS |
| `MCProjectionOutbox` | instances for TLC | |
| `SessionPromise` | the promise of the lifecycle core: one active conversation and interaction, a verdict that is what the receipts say, decisions sealed in order | abstract |
| `SessionLifecycle` | `sessionsvc/service.go` over the MariaDB session store, with the reaper | refines `SessionPromise` |
| `MCSessionLifecycle` | instances for TLC | |
| `SessionLifecycleProofs`, `SessionPromiseProofs`, `SessionProjectionProofs` | theorems about `SessionLifecycle`: its invariants, its refinement of `SessionPromise`, its projections | TLAPS |
| `EvidenceDelivery` | the promise of outbox and ledger together: each event is taken once, in the order of its stream; what is reported of it is true | abstract |
| `EvidenceStream` | `bkntrace/outbox/outbox.go`, `sessionstore/ledger.go`, `ledgersvc/service.go`, `ledgervo/causality.go` | refines `EvidenceDelivery` |
| `EvidenceStreamProofs` | theorems about `EvidenceStream` | TLAPS |
| `MCEvidenceStream` | instances for TLC | |
| `ProjectionRebuild` | `projectionrebuildsvc/service.go`, `sessionstore/rebuild.go`, the versioned half of `opensearchprojection/sink.go`, the projection supervisor | refines `ProjectionDelivery`; its workers do what that promises of one index |
| `ProjectionRebuildProofs` | theorems about `ProjectionRebuild` | TLAPS |
| `MCProjectionRebuild` | instances for TLC | |
| `ActionSchedule` | `schedule_worker.go`, `action_schedule_service.go`, `action_schedule_access.go` | |
| `ActionScheduleProofs` | theorems about `ActionSchedule` | TLAPS |
| `MCActionSchedule` | instances for TLC | |
| `BuildTasks` | `build_task_service.go` and its access layer, `build_task_worker.go`, `build_worker_batch.go`, `index_cleanup_worker.go`, the parts of the resource service and of discovery that write index state | |
| `BuildTasksProofs` | theorems about `BuildTasks` | TLAPS |
| `MCBuildTasks` | instances for TLC | |

### ProjectionOutbox

One record of functions per row mirrors the table: `status`, `holder` (whose
`lease_token` the row carries), `locked` (`locked_until` is ahead), `available`
(`available_at` has passed), `windowOpen` (`created_at + MaxRetryAge` is ahead),
`attempts`, `dlq`. `index` and `inflight` are OpenSearch: the version shown per document
and the requests a client gave up on that may still be applied. `batch`, `copied` and
`outcome` are a worker's memory: the rows `RunOnce` leased and has not settled, the
attempts it read with them, and what projecting the first of them gave. `Lease`,
`Project`, `Settle` are the three points at which `RunOnce` meets the database or the
sink; anything can happen between them: `Crash`, `LockLost`, another worker, an
operator's `ReplayProjectionDLQ`. `SettleFails` is a settling statement that errs before
or after it took effect.

### SessionLifecycle

Each mutating call takes the conversation row's lock before it reads, so it is one
action; its guard is the conjunction of the code's refusals, and a refused call is no
step. `now` is any time up to `MaxLockWait` before `clock`: `tx.Now()` is read when the
transaction begins. `reaper[p]` is a pass of replica `p`: the list read from a snapshot
and what is left of it; each revisit re-reads its row under the lock, as the code does.
`outbox` keeps the newest projection per aggregate and `executions` counts, as history,
how often a caller was told to execute an attempt. Random identifiers are named by the
unique keys of their rows.

### EvidenceStream

`epoch` and `next` are the stream's row, `status`, `place` (epoch and sequence),
`holder`, `leased` and `due` an outbox row, `claim` and `answer` what a replica's worker
has in hand: the record it claimed and the status it is about to complete it with.
`ledger` is Core's table in the order of `ingest_sequence`; `inflight` holds requests
whose worker stopped waiting and which Core may still apply (`LateIngest`). The worker
meets the database or Core in `ClaimHeadOfLine`, `Deliver` and `Complete`; between them
the replica may restart (and take a new epoch), lose its lease, or have its update fail.
`Enqueue` is one action because the stream row is locked until commit. `Answer` keeps
the order of Core's checks, `CoreDeliveryOutcome` is the producer's reading of the
answer. Operators retry and abandon, the retention job removes settled rows. A lease
(30 s) outlives the request timeout (10 s), so it lapses after its worker is gone unless
the worker stalls (`LeaseLost`).

### ProjectionRebuild

`authority` is the version in each authoritative row, `archived` the documents whose rows
trace archiving deleted, `phase` an outbox row (absent until its transaction commits: the
ids are assigned earlier, so rows become visible in any order); `index` holds the old and
the new index and `alias` says which of them readers and workers use. `step` is where a
replica is in `Rebuild`, from reading the watermark (`begin`) over `snapshot`, `history`,
`count`, `compare` and `recheck` to `switch`, and then `serve`. `items` is the batch it
has read, `todo` what is left of it to project, `cursor`, `checkpoint`, `highWatermark`
and `expected` are the local variables of the same names. Every request to the database
or to OpenSearch is an action, so commits, archiving, workers and other rebuilds come
between any two of them. `Leave` ends an attempt: all its variables are forgotten, the
index is not. A replica in `older` is of the release before and does not rebuild: the
deployment sets no strategy, so Kubernetes starts the new pod beside the old one, whose
worker writes through the alias until `Replace` (the rollout) puts a replica that rebuilds
in its place. `overlooked` is history: the rows that a worker wrote to the old index when
a rebuild had gone past them without them (`Past`, `Copied`); the rebuild cannot know of
them, and the switch takes them away from readers.

### ActionSchedule

`row` is the schedule table: status, cron expression, next run, and the lock (`holder`,
`lockTime`). `pod` is what the poll loop of a pod has in hand: the list it read
(`pollAndExecute`), what is left of it, the cron expressions as they were listed, and
the time it took its lock. `TryAcquireLock` is the conditional update, with a clock read
anywhere between the previous schedule of the list and now; `executeSchedule` is the
request, which takes up to `ExecutionTimeout`; `ReleaseLock` sets the next run, if the
lock is still the pod's. `call` is what a handler has read before it writes: `AskUpdate`,
`AskStatus` and `AskDelete` read, `UpdateSchedule`, `UpdateScheduleStatus` and
`DeleteSchedules` write the columns the code writes and no others. `lastSlot` and
`behind` are history: the latest slot run, and the schedules that a handler set back with
a next run it had computed before that slot was run. Cron expressions are functions from a
time to the next slot, or to `Never`: an expression may parse and have no slot in the next
five years, for which the cron library returns the zero time, and the code stores that as a
negative number of milliseconds. `had` is history: the expressions a schedule has had,
which `ActiveHasNextRun` needs to say where a `Never` may come from.

### BuildTasks

`resource` is the row of one table resource with its configuration and the state of its
local index, `task` the rows of its build tasks, `index` the OpenSearch indexes, `queue`,
`inFlight` and `worker` the pool of the process, `call` what a handler has read,
`cleaner` how far the cleanup is with one index. Every handler is a pair of a reading and
a writing action, because the code locks nothing in between: `AskCreate` and `Create`,
`AskStart` and `Start`, `AskStop` and `Stop`, `AskDelete` and `DeleteByIDs`, `AskEdit`
and `Edit`, `AskDeleteResource` and `DeleteResource`. A worker goes from `runBatchTask`
over `Claim`, `PrepareIndex`, rounds of `ReadBatch`, `IndexDocuments` and progress, to
completion; a publication reads the resource in one action and writes it in the next,
since the transaction reads without FOR UPDATE. Rows of the source are numbered by their
cursor, so a checkpoint is a number and an index the set of rows it holds. `Restart` ends
every actor at once and recovers interrupted tasks: the deployment runs one replica and
replaces it by Recreate. `overtaken` is history: the last write of the index state was
based on one that had changed since it was read; `PublishedIsComplete` is about the
others, and what goes wrong then is described below.

## Runs

| Run | Instance | Shows |
|---|---|---|
| `ProjectionOutbox` | 2 workers, 2 versions of one document, batch 2, 2 attempts, 2 disruptions, 1 replay | bookkeeping invariants, fencing, refinement of `ProjectionDelivery` |
| `ProjectionOutboxLiveness` | as above, 1 disruption, no replay, fair | every committed row is settled |
| `SessionConversations` | 2 generations, 2 interactions each, 1 reaper, no operations | uniqueness of the current conversation and of its active interaction; projections current |
| `SessionEvidence` | 1 interaction, 2 operations with 2 attempts each, 1 reaper | manifests, receipts, execution hand-out; refinement of `SessionPromise` |
| `SessionReapers` | 1 interaction, 1 operation, 2 reapers, client deadlines, unlicensed collection, fair | abandonment only of lapsed leases; interactions end; evidence is decided |
| `SessionTerminalReplay` | 1 operation, explicit terminal command | **violation**: a repeated explicit command is not recognised |
| `EvidenceStream` | streams of 2 events with 2 replicas and of 1 event with 1; 1 restart, 2 disruptions, 2 events that name each other, fair | refinement of `EvidenceDelivery`; no holes, no conflicts, no cycles; nothing an operator has in hand is in the ledger; every event is settled or waits for an operator |
| `EvidenceStreamScope` | the same, the lone event names a cause of another interaction | **violation**: that event is retried for ever |
| `ProjectionRebuild` | 2 replicas, both rebuild or one of them still serves as the release before; 2 documents, 3 rows, batch 2, 1 failure or replacement, 1 document that may be archived, fair | no delivered row is lost but what the old release wrote behind the rebuild's back, refinement of `ProjectionDelivery` across the switch of the alias, every other committed row goes live unless something is archived |
| `ProjectionRebuildArchive` | as `ProjectionRebuild`, both replicas rebuild | **violation**: an archived document keeps the rebuild from ever ending |
| `BuildTasks` | 2 tasks of one resource, 1 worker, 1 task handler, 1 editor or discovery, cleanup; 1 source row, 3 configurations, 1 edit, 1 start, 1 restart | what is served is complete, of its configuration and from a completed task; checkpoints are backed; a task in hand is not queued again |
| `ActionSchedule` | 2 pods, 1 handler, 1 schedule, 2 cron expressions, one with a single slot, lock 1, execution up to 2, time up to 4, 2 faults, fair | locks keep executions apart, slots go forward, active schedules have a next run unless an expression they had has none, due schedules are executed |

Bounds and why they suffice. Two workers and one lost lock give every overtaking of
one worker by another; two versions of one document are what external versioning
compares. Two attempts are one retry and one exhausted budget. Two events are one that
blocks or is abandoned and one that follows; two disruptions are a timed-out request
and a lost lease on the same record; one restart separates two epochs, and two streams
are what a causal cycle needs to close in either order. The event that closes it is
refused as invalid; a malformed one would be refused the same way. Three rows are two
versions of one document with a row of another between them: the first can be in the
snapshot, the second in the history or below the watermark and not yet committed; two
replicas race for the index and the alias, one failure leaves a half filled index
behind, and a batch of two ends within and at the end of a scan. `MaxRestarts`
counts failures and replacements together; a rollout may be under way in the initial
state, or over, and one replica of the old release is enough to write behind the back of
one that rebuilds. The theorems
lift these bounds for safety. Two generations and two ordinals are the
successor of something that ended. Times reach 3: a lease, a renewal and a deadline of
one or two ticks run out with room for a call whose clock is one tick old.
`MaxLeaseVersion` bounds how often a mere repetition renews a lease, `LastCall` is the
last time a client calls, and every run stops at `MaxClock`, which is why deadlock is
not checked: the bounded behaviours end. In `BuildTasks` two tasks are one whose index is
served and one that replaces it, extends it, or is cleaned up next to it; the default
configuration has one batch worker (`defaultBatchBuildWorkerCount`), and the theorems
hold for any number of workers and of task handlers. That two workers never have one task,
and that two requests at once create two tasks of a resource without harm, therefore rest
on the theorems: the run has one of each, and checks what would lead to it, a task queued
again while it is in hand. One row is a batch that is there or not, since an index without its
last batch and one without any are both incomplete. In `ActionSchedule` an execution of
two ticks outlasts a lock of one; four ticks leave room for a lapse, a take-over and the
late release of the first pod; two cron expressions are the old and the new one of an
update, one with a slot at every tick and one that runs out of slots at the second.

Fairness. `runProjectionWorker` ticks for as long as the process lives and handles
every row it leased: weak fairness of `Lease`, `Project` and `Settle` per worker, and
of the passing of locks and delays. `runLeaseReaper` calls its three passes in turn
for ever: strong fairness of listing per pass (the other passes disable it again and
again), weak fairness of the revisits and of the clock. The delivery worker polls
every 250 ms and its calls end: weak fairness of claiming, delivering and completing
per worker, of lapsing leases and of delays. `runProjectionSupervisor` repeats the
rebuild until it succeeds and then ticks: weak fairness of the one loop, rebuild or
worker, of each replica. The schedule worker polls on a ticker for as long as the pod lives
and its requests time out: weak fairness of listing, of acquiring with the present clock,
of executing and releasing per pod, and of time. `BuildTasks` claims no liveness: a lost
status write leaves a task running with nobody at work until the process restarts. No client, operator, failure, commit, archiving or lost request is
assumed to happen.

## Findings

1. `SessionTerminalReplay`: `TerminateInteraction` fills in the assembler deadline from
   its own clock before it hashes the command (`service.go:824`); the identical command,
   repeated later, has another hash and is answered with a terminal conflict.
2. `EvidenceStreamScope`: `verifyCausationScope` refuses a cause of another interaction
   with a plain error (`ledger.go:285`), which reaches the producer as a 500. It retries
   the head of its stream for ever; no operator action applies to a record in retry, and
   everything behind it waits. The service layer and the in-memory store treat the same
   event as invalid, which would dead-letter it.
3. `ProjectionRebuildArchive`: trace archiving deletes authoritative rows but not their
   documents in the index, and a rebuild keeps the index it finds. From the first archived
   document in it on, the counts differ (`service.go:135`) in every attempt and the
   projection worker of that replica never starts. It takes a document that is archived
   while a rebuild runs or between two attempts, or a restart after the archiving with
   the rebuild version still configured.

Met while modelling, and part of the models, where no line of the repository promises
otherwise:

- `EnsureOperation` on a ready retry whose input is a stored artifact saves the receipt
  (`sessionsvc/service.go:1082`) without a new row version or a projection event; the live
  index and a rebuild differ until the receipt finishes.
- While a rolling update runs, the worker of the release before delivers through the old
  alias. A row it delivers after the rebuild's last look at the watermark, or one with an
  id below the watermark that commits after its document was scanned, is in the old index
  only; the switch (`projectionrebuildsvc/service.go:147`) takes it away from readers, and
  a delivered row is not delivered again until its document changes. In the run
  `ProjectionRebuild` this happens: `overlooked` marks these rows, and its properties are
  about all others. `OnlyOldWorkersOverlook` says that stopping the old release first
  avoids it. The chart calls rebuilding "an explicit maintenance operation"
  (`values.yaml:162`); nothing in the repository promises more of it.
- A task that is stopped and started again while its worker is between two rounds goes on
  in the hands of that worker as a pending task: its progress is no longer recorded, and
  it ends stopped instead of completed. A reset that comes between the worker's first look
  at the task and the claim does not empty the index.
- Two requests to create, or to start, a task of one resource can both find no active one.
  Both tasks then run, and `PublishedIsComplete` holds all the same.
- A publication, a checkpoint and an edit each write the index state they computed from
  what they read. One that overtakes another can publish an index for a configuration that
  has just changed, or take an index that was just published out of service. A lapse of
  this kind lasts until the next full build; it is what `overtaken` marks.
- A schedule handler that computed a next run before a slot was executed and writes it
  after sets the schedule back to that slot, which runs once more (`behind`).
- A cron expression that parses but has no slot within five years, such as `0 0 30 2 *`, is
  accepted (`action_schedule_service.go:418`). The next run stored for it is negative
  (`:434`; the test `!= 0` at `action_schedule_access.go:174` lets it pass), and the poll
  asks for `f_next_run_time > 0` (`:508`): the schedule says active and is never polled.
  A handler that changes the status, or a pod that releases its lock, may have read such an
  expression before a user replaced it by one with slots; it then leaves `Never` with the
  good expression, and the schedule is not polled until somebody changes it again. And
  the lock asks only for `f_next_run_time <= now` (`:457`): a pod with a list from before
  executes such a schedule once more, and, if its clock reading is older than the last run,
  sets it back to a slot already run. `Never` is part of the module, and
  `ActiveHasNextRun` and `SlotsGoForward` name exactly these cases.

## Proofs

`ProjectionOutboxProofs` proves, for any finite or infinite set of rows and workers, any
batch size, budgets and bounds that satisfy `OutboxAssumption`:

- `TypeCorrect`, `DeliveredRowsAreIndexed`, `DeadRowsHaveDeadLetters`, `BudgetIsKept`:
  the invariants of the run `ProjectionOutbox`;
- `SettledRowsStaySettled`: the action property of that run;
- `PipelineDelivers`: every behaviour of `ProjectionOutbox` is, under the mapping
  `phase`, `document <- index`, a behaviour of `ProjectionDelivery`.

The invariants are not inductive as they stand. `IInv` adds three facts: a worker that
holds the lease of a row in its batch has the row's current attempts (`CopyIsCurrent`,
without it a worker could overspend the budget); an outcome "ok" is about the head of
the worker's batch, whose version is in the index (`OutcomeIsOfHead`, without it
`Settle` could deliver a row that was never projected); and nothing touches a row before
it is committed (`OnlyCommittedHandled`). `NextIInv` proves that every action preserves
`IInv`; `BookkeepEffect` states what a settling statement changes, and `IndexGrows` that
documents only move forward, to versions that were committed. Refinement goes step by
step: `SettlingRefines` and
`WritingRefines` map the settling and the indexing actions to `Deliver`, `Bury` and
`Apply`; every other action stutters or is `Commit` or `Replay`.

`EvidenceStreamProofs` proves, for any events, streams, replicas, causes and interactions
and any number of restarts and disruptions that satisfy `EvidenceAssumption`, every
safety property of the run `EvidenceStream`:

- `StreamKeepsPromise`: every behaviour is, under the mapping `fate`, `earlier`, one of
  `EvidenceDelivery`;
- `ParkedNotIngested`: what waits for an operator, or was given up, is not in the ledger;
- `NoConflicts`, `LedgerFollowsStream`: the ledger takes a stream in order, so an event
  is never out of sequence and there are no holes but abandoned events;
- `SettledStays`, `InteractionsAcyclic`, `TypeCorrect`.

The inductive invariant is `IInv` of `EvidenceStream`. Its heart is `OneAtATime`:
everything before an event that any worker ever had in hand is settled. It is kept
because claims go to the head of line (`ClaimIInv`), new events take later places, also
in a new epoch (`EnqueueIInv`, `RestartIInv`), and settled records stay settled. From it
`NeverBehind` shows that Core never compares a handled event with a later one; hence
its answers are "accepted", "invalid" or an error (`AnswerIsTrue`). A refusal as invalid
stands, because the ledger only grows (`RefusalStands`): that is why a request applied
after its event was abandoned changes nothing. `AnswersHold` and `RecordsHold` carry
what a worker remembers of an answer, and what the outbox records of it, to the next
step; a stale worker's memory stays true, and its update is conditional on the lease.
`OutboxKeeps` and `RowStepIInv` gather what the actions have in common. `ConflictFree`
makes the outcome "conflict" unreachable: it is there for producers that break the
protocol, such as one whose epoch went back.

The refinement uses that invariant throughout. `fate` forgets leases, retries and the
difference between them; `earlier` reads the places, so that a new epoch puts an event
behind all others. An enqueue is `Produce`, a claim, a failed update and a lost lease are
stutters, a request that Core applies, in time or late, is `Take` or a stutter
(`OneAtATime` says the event has its turn), and a completion reports what the answer
entitles it to. There is no step for a conflict: `ConflictFree` rules it out.

`ProjectionRebuildProofs` proves, for any rows, documents, batch size, number of
replicas, failures, archived documents and replicas of the release before that satisfy
`RebuildAssumption`:

- `RebuildLosesNothing`: no switch takes a delivered row away, but those a worker of the
  old release wrote behind a rebuild's back (`overlooked`);
- `OnlyOldWorkersOverlook`: no row becomes one of these unless a replica of the old release
  is left, so where it is stopped before the rebuild starts there is no exception;
- `Provenance`: no index shows, and no rebuild is about to write, a version that was not
  committed, and the store is not behind anything;
- `RebuildKeepsPromise`: but for these rows readers do not notice the rebuild. Every
  behaviour is one of `ProjectionDelivery`, with the document readers see, `Shown`, taken
  from the index the alias names. An archived document is nobody's to read any more and
  counts with its last authoritative version; what was overlooked is counted in. A switch
  is one `Apply` of many documents at once. That no document goes back for readers is part
  of this promise and not stated apart.

`TypeCorrect` has one difficulty, `HasGreatest`: the watermark is the greatest committed
id, and a set of numbers that is not empty and has a bound has a greatest one.

`IInv` of `ProjectionRebuild` says why: until the alias moves, a row that is in use (a
worker wrote it, or the old index shows it) and that a rebuild has gone past is copied, or
about to be, or was overlooked (`Covers`). A snapshot goes past the documents up to its
cursor, the history past the rows up to its checkpoint, and whoever is about to switch is
past everything; a row that comes later is not yet passed, or is `Overlook`ed when it is
written. Once the alias has moved it does not move back. Without the old release no row
comes into use before the switch: then the catch-up with the history and the second look
at the watermark are not needed for this, since what they would miss is still due and
reaches the new index through a worker. `OwnStepIInv` gathers the steps of a rebuild that
write nothing; the lemmas before `NextIInv` take one action each.

`ActionScheduleProofs` proves, for any schedules, pods, handlers, cron expressions with or
without slots, timeouts and faults, every safety property of the run `ActionSchedule`:
`TypeCorrect`, `LockHolds`, `SlotsForward`, `ActiveIsPlanned`. `CronAssumption` says of an
expression only that its next slot, if it has one, is later than the time it is asked at.
`LockOutlivesTimeout` needs little beside the types. `SlotsGoForward` is about free
schedules and says nothing of a lock in between; `Locks` adds that a locked schedule has
run no slot after the time of its lock (`SlotsBehindLock`) and that the pod whose lock a
row carries remembers that time (`HolderKnows`), so that the next run it sets on release
lies after it. `ActiveHasNextRun` is not inductive either: `Plans` adds that rows and pods
go by expressions the schedule has or had, and that a handler about to activate a schedule
or to replace its expression brings a next run or such an expression without one
(`RowsKnowCrons`, `PodsKnowCrons`, `CallsCarryNext`). What the history knows only grows
(`NextGrows`), so an explanation once found stays one (`StaysPlanned`).

`BuildTasksProofs` proves, for any tasks, workers, handlers, configurations, batch size
and bounds, every property of the run `BuildTasks`: `TypeCorrect`, `OneWorker`,
`OnlyCompletedServed`, `ServedIsWhole`, `CheckpointsBacked`. The argument: what a resource
serves, and what anybody who read the resource may serve again, is `Retired`, the index of
a task that is over and that no worker builds; so nobody recreates it. The checkpoint of a
full build, in its row or in its worker's memory, is never ahead of the index
(`RowBacked`, `WorkerBacked`), and the cleanup, from its first look at the task on, has
in hand only indexes of tasks that are over or whose resource is gone (`Judged`). The
lemmas `StepIInv`, `OnwardIInv`, `RetreatIInv`, `ResourceIInv` and `HandIInv` say what
kinds of steps keep the invariant; one lemma per action applies them.

`SessionLifecycleProofs`, `SessionPromiseProofs` and `SessionProjectionProofs` prove, for
any keys, callers,
replicas, generations, ordinals, attempts and times that satisfy `SessionAssumption`,
every safety property of the runs about sessions: `TypeCorrect`, `NewestIsCurrent`,
`InteractionsAreHosted`, `AttemptsExecutedOnce`, `ManifestsCover`, `DecisionsSealed`,
`CompleteIsDurable`, `OnlyLapsedAbandoned`, `KeepsThePromise`, `ProjectionsCurrent`. `IInv`
has three parts beside the types:

- `Hosting`, the two invariants about conversations: they are only inductive together,
  since a new generation may be opened because the last one has nothing active;
- `Attempts`: attempts have receipts from the first to the current one and no others, a
  ready attempt's receipt is pending, and an unfinished receipt has decided nothing.
  Without it an attempt could be handed out that nobody can finish, or a receipt could
  appear after the manifest was written;
- `Endings`: the manifest of an interaction that ended lists exactly its receipts, its
  evidence is complete only if nothing in the manifest speaks against it, and is what was
  sealed last; before the end nothing of this is written.

`HostingShrinks` covers all steps that only end things, `AttemptsOfOne` those that change
one operation, `CallKeeps` the calls on an active interaction, `FinishIInv` both ways an
interaction ends. A receipt that finishes late cannot take completeness back
(`FinishKeepsNeutral`), because complete evidence has no required receipt left undecided.

`KeepsThePromise` maps the rows to what `SessionPromise` knows: where a conversation and
an interaction stand (`Standing`, `Stage`), what each receipt reports, the verdict once
there is one to tell, and the completeness of the sealed revisions in order. It says what
the invariants leave open about change: a conversation goes only when nothing in it is
active; an attempt is only made for an active interaction; a verdict moves only with an
end, with a receipt that finishes late, or from undecided to partial; and whatever is
decided is sealed in the same step and stays on record. The code judges by the order of
the client's manifest and stops at the first receipt that decides; the promise judges by
the set of what the receipts say. `JudgedBySaid` proves that the order cannot make more
of it than the set allows, which takes `Endings`: the manifest lists exactly the receipts
there are. The order matters while both a pending and a lossy receipt are listed: the
verdict is then partial or undecided, and the promise allows both. One lemma
per action (`...Promise`) maps its step; leases, replays, listings and clock ticks are
stutters (`Stutters`), and so is an attempt that is handed out (`ClaimReadyAttemptPromise`).

For the outbox, `Shown` says that a view agrees with four tables; a lemma for each table
changes one row and its document, and each action is a chain of these.

Every safety property that a passing run checks is the statement of one of these
theorems. Only model-checked: the liveness properties `EventuallySettled`,
`InteractionsEnd`, `EvidenceIsDecided`, `SettledOrParked`, `CommittedGoesLive` and
`DueIsExecuted`, since fairness and ENABLED are out of the prover's reach. The abstract
specifications state safety only.

## Not modelled

Read paths, JSON, hashing, HTTP and metrics. In `SessionLifecycle`: owner checks,
parent operations, business references, the capacities of evidence references and
claims, historical provenance requests, the in-memory store; explicit manifests are
taken to be valid ones that list every receipt in some order. The revision sealer and
the historical provenance handler are further consumers of the same outbox rows and
behave as the sink does. In `EvidenceStream`: ownership checks and payload conflicts
of the ledger, its table of conflicts, state versions and audit rows of operator
actions, streams of epoch 0, the projection row of a ledger entry (an
`AppendProjection` of `ProjectionOutbox`). In `ProjectionRebuild`: rows for other
consumers, the checkpoint table (written and never read), an alias request that times
out and is applied late, the guards of archiving, and the worker beyond what
`ProjectionDelivery` promises of it. In `ActionSchedule`: the fields of a schedule that no
guard reads, the record of an execution, clocks of pods that differ. In `BuildTasks`:
embedding, the shape of documents, composite cursors, streaming tasks (the API refuses
them), the cleanup's dry run, more than one resource.

A reaper pass is one transaction; a pass that is rolled back is a pass that has not listed
anything. That is also why there is no module of its own for store transactions: a
repeated callback finds the database as it was, and what is left of its first run is in
variables of Go closures (result slices, flags, fields of the command), which a model of
the tables does not show. Cursor sessions live under the mutex of one manager and die
with the process; the sandbox pool follows an external service whose states this code does
not determine. Knowledge networks, catalogs, the agents and proxies are data mapping over
external systems with a transaction per request; BKN Safe appends to its chain under one
lock. Each is listed with its reason in `PROJECT.json`.

By lines, most of the repository is generated parsers and documentation, database drivers,
CRUD handlers and query builders, in which no order of steps can go wrong that a unit test
would miss. The modules cover the parts in which it can, and only a small share of the
lines.

## What is left

1. The composition of a ledger commit and a session change with `ProjectionOutbox`: both
   append rows in their own transaction, which `ProjectionOutbox` takes as `Commit`.
2. A module for the sandbox pool, once the states of the sandbox service are described in
   this repository.
3. Liveness of build tasks, if a task whose status write was lost is recovered without a
   restart.
4. Abstract specifications for schedules and for what a resource serves, in the manner of
   `SessionPromise`: the theorems about them are invariants so far.
