# taskmq in TLA+

taskmq is a task queue on Redis Streams. This directory specifies its core in
TLA+, checks the specifications with TLC and proves some of their properties
with TLAPS. Paths below are relative to `src/internal/taskmq/` unless they start
with `docs/`, `tests/` or `README`.

## Inventory

| Component | State it keeps | Operations | Correct when |
|---|---|---|---|
| Enqueue client, admission scripts (`client/enqueue.go`, `lifecycle/`) | stream, delayed ZSET, unique lock | Enqueue, EnqueueAt/In, EnqueueBulk | all or nothing; limits respected; one task per unique key |
| Message processor and middleware (`worker/process.go`, `worker/middleware.go`) | in-memory task, stage of the chain | gates, lock watchdog, rate limit, handler, retry, DLQ, complete | every message is settled exactly as docs/TERMINAL_OUTCOMES.md says; no task lost |
| Broker (`broker/broker.go`) | PEL, stream, delayed, DLQ ZSET and index, lock | MoveToDLQ, ScheduleRetry, DeferRateLimitedTask, CompleteTask, Release/RenewUniqueLock | settling is atomic, capacity never loses a task off the record |
| PEL janitor (`runner/pel_janitor.go`) | claim cursor | XAUTOCLAIM, delivery count, reprocess | crashed messages run again, poison pills stop |
| Delayed scheduler (`runner/delayed_scheduler.go`) | sleep timer | promote, wake up, hand cron tasks on | due tasks move once, under the hard limit |
| Worker pool, pause controller (`worker/worker.go`, `worker/pause.go`, `client/control.go`) | paused flag, wait channel, paused key | fetch loop, pause, resume, reconcile | pause takes hold, resume wakes everybody |
| Cancellation (`worker/cancel_hub.go`, `client/control.go`) | cancelled marker, cancel functions | CancelTask, subscribe, poll | a cancelled task is dropped or its context is cancelled |
| DLQ administration (`client/dlq.go`) | DLQ ZSET and index | list, delete, retry one, retry all, purge | a dead letter is retried or kept |
| Cron (`runner/cron_manager.go`, `client/cron.go`) | spec hash, delayed members | register, run, delete, heal, reschedule | one pending occurrence per job, none after delete |
| Retention janitor (`runner/retention_janitor.go`) | stream, DLQ, delayed, consumers | safe trim, age purge, cancelled purge, idle consumers | removes nothing that is still needed |
| Multi-queue and priority workers (`worker/multi_worker.go`) | queue order | poll in weighted or strict order | priorities hold, nobody starves unless strict |
| Rate limiter (`ratelimit/limiter.go`) | GCRA arrival time | TryConsume | at most the configured rate |
| Active and scheduled APIs (`client/active.go`, `client/scheduled.go`) | stream, PEL, delayed, lock | list, delete, run now | remove or move exactly one task |
| Metadata, metrics, events, heartbeat | hashes, counters | best-effort updates | eventually describe the task |
| Daemon set, topology, wiring (`runner/daemon_set.go`, `worker/topology.go`, `module.go`) | which loops a process runs | start, failed start, stop | every queue's pending entries can be recovered, no role dies by itself |
| Codec, task type, keys (`codec/`, `task/`, `keys/`) | none | encode, decode, defaults, effective timeout | a worker gets what was submitted |
| gRPC and HTTP front ends (`grpcserver/`, `../handler/`) | none | request to client call, result to reply | the reply tells what was stored |
| Configuration, logging, Redis connection, CLI, generated code | none of their own | I/O | — |

How they interact: all shared state is in Redis, changed by single commands and
Lua scripts. A client adds to the stream or the delayed ZSET; the scheduler moves
due members to the stream; a consumer goroutine fetches with XREADGROUP and runs
`MessageProcessor.Process`; the janitor takes pending entries over with XAUTOCLAIM
and runs the same `Process`; the broker's scripts settle. Control and wakeup
messages travel over pub/sub and may be lost.

What is hard: a slow executor and the janitor's executor working on one message;
crashes between any two Redis calls; limits met in the middle of a script or a
batch; counters kept in two places (task body and PEL); check-then-act across a
mutex or a network call; lost control messages. `PROJECT.json` lists these as
hazards, each at its line.

## Modules

| Module | Role |
|---|---|
| `TaskQueue` | one queue: clients, executors, janitor, scheduler over the Redis keys |
| `TaskContract` | what a queue promises about a task; implemented by `TaskQueue` |
| `TaskQueueProofs` | theorems about `TaskQueue`, its refinement of `TaskContract` among them |
| `MCTaskQueue` | constant values for the runs of `TaskQueue` |
| `PauseControl` | pausing and resuming a queue: administrators, subscriber, consumers |
| `PauseControlProofs` | a theorem about `PauseControl` |
| `MCPauseControl` | constant values for its runs |
| `DLQAdmin`, `DLQAdminProofs`, `MCDLQAdmin` | the DLQ client and the age purge against executors; its theorems; constant values |
| `Retention`, `RetentionProofs`, `MCRetention` | the retention janitor against consumers; its theorems; constant values |
| `CronJobs`, `CronJobsProofs`, `MCCronJobs` | cron configuration, chains, healing; its theorem; constant values |
| `DelayedScheduler`, `DelayedSchedulerProofs`, `MCDelayedScheduler` | the schedulers against the clock, wakeups, the scheduled task API; its theorems; constant values |
| `TaskExecution`, `TaskExecutionProofs`, `MCTaskExecution` | cancellation, metadata, metrics, deletion of active tasks, shutdown around an execution; its theorems; constant values |
| `PriorityWorker`, `MCPriorityWorker` | the polling loop over several queues and the execution pool |
| `Deployment` | roles, their maintenance loops and groups, process failures, the heartbeat |
| `TaskPolicies` | rate limit, retry budget, backoff, deadline, with the stored number formats |
| `Codec`, `Submission` | the two wire formats; front ends, client, scripts over a connection, replies, decoding |
| `ServicesProofs` | theorems about `Deployment`, `TaskPolicies`, `PriorityWorker`, `Codec` and `Submission` |
| `MCServices` | constant values for `Deployment`, `TaskPolicies` and `Submission`, which share no state and are checked one after the other in one run |

The modules overlap on purpose: `TaskQueue` has the complete life of a message without
time; the others take one mechanism that `TaskQueue` leaves free (when a member is due,
whether the limiter admits, what a reply says) and reduce the rest of the queue to what
touches it.

Operators whose comment starts with "Mutant" are deliberately wrong variants of
the definition they precede; no specification uses them. They show that each
property can fail.

### TaskQueue and the code

A Redis command or script is one step. State: `stream`, `lastId`, `cursor`,
`groupStart`, `pel` are the stream and its group (entry bodies, last generated ID,
last delivered ID, the cursor the group was created with, delivery counts);
`delayed`, `dlq`, `lock`, `cancelled` are the other keys; `pc`, `msg`, `job`, `err`
are what one run of `Process` has in memory. `accepted`, `unacked`, `ends`, `disrupted`
are history. An executor is any goroutine that runs `Process`: a consumer's or a
janitor's slot.

| Action | Code |
|---|---|
| `Enqueue`, `EnqueueAt`, `CancelTask` | `client/enqueue.go`, `client/control.go`; a rejected call is no step |
| `StartGroup` | `workerPool.Start`, XGROUP CREATE at `$` |
| `Promote` | the scheduler's script, one member at a time |
| `Deliver` | XREADGROUP `>` and the call of `Process` |
| `Reclaim`, `ReclaimLive`, `ReclaimUncounted` | XAUTOCLAIM of an abandoned message; of one whose executor is alive; with the delivery count falling back to 1 |
| `ReclaimDeleted` | XAUTOCLAIM of an id whose entry is gone: it leaves the pending list |
| `DiscardAck`, `DiscardDel` | corrupt payload: XACK, then XDEL, whatever XACK returned; either may fail |
| `RouteExceededMaxRetry`, `DiscardIfCancelled`, `Execute` | the gates of `Process`, in their order |
| `ReleaseAtStart`, `ReleaseOnError`, `LockExpires` | `UniqueLockWatchdogMiddleware` and the lock's TTL |
| `Admit`, `DeferRateLimited`, `DeferFails`, `DeferReplyLost` | `RateLimitMiddleware` and `DeferRateLimitedTask` |
| `HandlerSucceeds`, `HandlerFails` | the handler; `retryable` or `final` (SkipRetry, ErrNoHandler) |
| `ScheduleRetry`, `MoveToDLQ`, `CompleteTask` | the settling scripts |
| `Abandon` | the process dies, or the settling call fails |

Abstractions. Time is left out: a delayed member may be due, an entry idle, a
lock expired whenever the model likes, which covers every timing (the watchdog renews a
lock only after a third of its TTL, and may fail). A serialized
task is its ID and retry counter; two delayed members that differ only in
`LastError` are the same member. The DLQ ZSET and its index, always changed by
one script, are one set. Which members have the farthest or oldest scores is
chosen freely. A batch of promotions is a series of steps. MAXLEN trimming is off
(`streamMaxLen` 0). A cancelled marker does not expire. A settling call that takes
effect and whose reply is lost leaves the executor with nothing more to do, as
success does; only for the deferral does the lost reply matter, and it has its
own action. Stream entries without a task field, which no taskmq client writes,
are left out.

Disruptions are the failures the environment injects: `crash`, `brokerError`,
`lostReply`, `overlap`, `miscount`, `rateLimit`, `lockExpiry`. A run allows a set of
kinds and at most `MaxDisruptions` of them.

### PauseControl and the code

`key` is the Redis key, `paused` the flag in memory, `registered` the consumers that
hold the open channel of `pauseChans`: a waiting consumer outside it holds a closed
one. `Pause`, `Resume` write the key and `Publish` sends, or loses, the message;
`Receive`, `ReconcileRead`, `ReconcileApply` are the subscriber; `Check`, `WaitChan`,
`Wake`, `ReadMessage`, `ReadNothing`, `Recheck`, `Process` are `runBackgroundLoop`.
`fetched` is history. The janitor, which does not look at the flag, and the
priority worker, which polls it, are not part of this module.

### DLQAdmin and the code

`zset` and `index` are the two keys of the DLQ; `queued` counts the copies of a task in
the stream. A call of an administrator goes through `pc`: `RetryDeadLetter` (HGET) and
`RetryAllDeadLetters` (`ReadPage` ZRANGE, `ReadBodies` HMGET) share the loop `Requeue`
(Enqueue), `DeleteRequeued` (the script), `EndOfPage`; `DropMissing` is a member without a
body. `RequeueRejected` is a duplicate or a full queue, `Abandon` any failed call or a dead
caller. `ReadAged`, `PurgeZRem`, `PurgeHDel` are `purgeDLQByAge`, whose pipeline is not
a transaction. `Complete` and `MoveToDLQ` are executors, in one step each: `TaskQueue` has
the rest of them, and the capacity of the DLQ. `gone`, `failures`, `abandons`, `raced` are
history: `raced` holds the tasks that were dead lettered while a call or the age purge was
about to delete their ID (`Doomed`).
Bodies that do not decode, which no executor writes, are left out.

### Retention and the code

`stream`, `lastId`, `cursor`, `owner` are the stream and the group's pending list, `consumers`
and `idle` its consumers, `delayed` the ZSET in score order, `running` the messages in the
hands of live executors. The worker reads under the names `Readers`, the PEL janitor claims
under `Reclaimer`. A tick is a walk of `jpc` through `safeTrim` (`XPending`,
`XInfoGroups`, `XTrim`), `purgeCancelledDelayed` (`ZRangePage`, `PurgeMember`, `EndPage`) and
`purgeIdleConsumers` (`XInfoConsumers`, `DelConsumer`), each if the configuration enables it.
`XTrim` is approximate: it removes any number of the entries below the threshold, oldest
first. EXISTS and ZREM of one delayed member are one step, since the marker outlives it by
hours. XAUTOCLAIM drops a pending ID whose entry is gone (Redis 7). `between`, `revived`,
`fails` are history.

### CronJobs and the code

A member of `delayed` is a serialized task: job, configuration (`ver`) and kind. `First` is the
configuration itself, added by `register_cron.lua`; `Fresh` is what `Reschedule` and a healer
make, distinct by its creation time (`copy`); a failed run comes back as "retry".
`promoted` is what the scheduler has moved to the stream and not yet passed to
`Reschedule`. `RunRead`, `RunXAdd` are the commands of `RunCronJob`, `DeleteRead`, `DeleteZRem`
(whose error is ignored), `DeleteHDel` those of `DeleteCronJob`; `SetNX`,
`HGetAll`, `Scan`, `HealJob` are the healing loop. Scores are left out, so the farthest
members are chosen freely, and the scan reads all of its pages in one step and
may miss members, as it does beyond `scanMaxCount`. `calls`, `retries`, `faults`, `dropped` are
history.

### DelayedScheduler and the code

`spc` is the place of a scheduler in `delayedScheduler.Run`: `Subscribe`, then `PromoteReadyTasks`
(one script, again after a full batch), `Peek` (`calculateSleep` and `resetTimer`), and the
`select` of `TimerFires`, `Receive` (a wakeup, with its jitter) and `Resubscribe` (the channel was
closed). `Disconnect`, `LosePublish`, `PromoteFails`, `PeekFails`, `Crash` are faults. `EnqueueAt` and
`Fail` (a retry) add a member and leave its run time to `Publish`, as PUBLISH follows the
script. `Find`, `ForcePromoteMember`, `ForcePromoteRefused`, `DeleteMember`, `DeleteGone`, `DeleteLock` are
`RunScheduledTask` and `DeleteScheduledTask`: a scan, then a command on the bytes it found, which
hold the retry count. Time is discrete and relative; a command takes none, so `Tick` waits
until every scheduler sleeps. `aware` and `late` are history: the tasks a scheduler has
seen or was told of, and how long a due task has waited.

### TaskExecution and the code

`pc` follows `Process` from the cancelled marker's EXISTS (`Gate`) over SetState and
`Cancelations.Add` (`StateActive`), the handler, the settling script (`Settle`) and the metadata and
counters behind it (`MarkSettled`) to the deferred `Cancelations.Delete` (`Leave`). The script may
fail (`ScriptFails`), or take effect and lose its reply, after which nothing is written
(`ReplyLost`); the writes behind it are best effort, and MarkCompleted's pipeline may stop half
way (`MarkFails`, `PutFails`, and the failing halves of `StateActive` and `StateCancelled`). `registry` is
`Cancelations.cancelFuncs`, one entry per task ID; `stopped` are the executions whose context
is cancelled, by `CancelMessage` (pub/sub), `PollCancelledMarker` or `Stop`. `meta`, `ttl`, `completed`
are the metadata hash, its expiry and the completed index; `toPut` is the metadata a
client still has to write after its XADD. `DeleteActiveTask` marks, or fails to, and
`RemoveActiveTask` acknowledges and deletes the entry that was read; `RemoveFails` is its failing
XDEL. History: `stale`, tasks whose last write was lost or late, until an execution that has the
task alone writes again; `overlapped`, tasks executed twice at once; `deleted`, tasks whose
deletion set the marker.

### PriorityWorker and the code

`BeginPass` draws the order (`sortQueues`, `shuffleQueues`); `NotPaused` is the look at the pause flag,
and `Skip`, `ReadFails`, `Fetch` the XREADGROUP that follows it; `ProcessSync` or `Acquire` and `Finish` execute, with a token of the pool; `Sleep`, `Wake`,
`Exit`, `GiveUp` end a pass or the loop. Queues are numbers of undelivered entries. Weights are
numbers; the draw by weight is a free choice of the order, with the fairness below. `ready`
is history: queues that had work throughout a pass.

### Deployment and the code

`Runners(p)` is what a process of a role runs: the worker pool of a queue with its loops
(`WorkerPool`), the priority worker (`PriorityWorker`), or the daemon set (`BuildQueueDaemons`), each with
its consumer group and collaborators. `StartProc`, `StartProcFails`, `StopProc`, `CrashProc` are the
life of a process. A queue has at most one entry and one cron job: `Take`, `Settle`,
`ReclaimEntry`, and `RegisterJob`, `PromoteJobPanics`, `HealJob`. A start that fails may leave the workers
of other queues running for a moment, with their groups, a beat and what they fetched. `beat` is
the remaining life of the heartbeat key in intervals; processes of one configuration share the
consumer name. Every beat, the first one included, and the DEL on stopping may fail. History:
`missed`, a process's failed writes in a row; `written`, processes that have written since they
started; `unlisted`, intervals without the key.

### TaskPolicies and the code

`TryConsume` is the GCRA script: the TAT is stored rounded to `Grain`, its key expires after
whole seconds, waits are whole milliseconds. `Charge` is `RetryAndDLQMiddleware` on an error: if
MoveToDLQ or ScheduleRetry fails, or CompleteTask after a success, the message stays pending
(`StaysPending`) and the janitor hands it out again with the delivery count in place of the retries
(`ReclaimPending`), past the gate of `RouteExceeded`. A message reclaimed while its handler still
runs is `TaskQueue`'s subject. `NextBackoff` is the delay of a retry in `Width` bit arithmetic,
where the conversion of an out of range power depends on the machine. `ContextEnd` is `EffectiveTimeout`. `DueAfterWait` and `PromoteDue`
truncate to milliseconds as the scores do. `debt` is history: an ideal bucket.

### Codec, Submission and the code

A task is the sequence of its fields in the order `BinaryCodec` writes them, strings are
sequences of bytes, and a length or number keeps what its width holds. JSON (`MarshalJSON`) writes
numbers of any size and the payload as base64, but U+FFFD for each byte of a string that is not
UTF-8 (`JSONString`); protobuf and the front ends' JSON decoder hand over UTF-8 only, so such
strings come from Go callers (`IsRequest`). `Encodable` says which tasks a codec gives back. `Open` is the front end and the grouping of `EnqueueBulk`, `Prepare` the checks of
`pipelineImmediate` for one queue, `Run` one command of the pipeline (`EnqueueStream`,
`EnqueueDelayed`: the scripts), `Break` and `Resend` the connection, `Collect` the results of a chunk,
`Answer` the reply. A single call is a batch of one. `Process` and `ProcessDelayed` are a worker
that decodes and completes. `stored` and `wrong` are history.

## Runs

| Run | Checks | Shows |
|---|---|---|
| `drains` | Conservation, DeliveryCoverage, CapacityBounds, Drains | with every disruption, a corrupt payload whose XACK or XDEL may fail and small limits, no accepted task is lost, none is out of reach, no limit exceeded; after finitely many disruptions the queue empties |
| `exclusive` | OnePlace, UniqueInFlight, PoisonPillCutOff, ImplementsContract | without overlap and lost replies a task is in one place, a unique key is in flight once, crashes stop a message after MaxRetry + 1 deliveries, the queue implements its contract |
| `pause` | FetchedWhilePausedWaits, FlagConverges, ResumeReleasesWaiters | a pause holds, the flag converges, a resume releases |
| `dlq_admin` | RetryLosesNothing, NoOrphans, CallsReturn | overlapping and abandoned retries, deletes and purges lose nothing, keep both keys in step and return, apart from the races below |
| `retention` | UndeliveredKept, PendingKept, DeliveredCovered, PurgeCatchesUp | trim and idle removal spare what is undelivered or pending, apart from the two races below; cancelled delayed tasks are found although pages shift |
| `cron` | ChainUnbroken, JobsKeepRunning | a registered job keeps a next occurrence whatever calls overlap, and its occurrences are promoted again and again: healing restarts what crashes or the capacity broke |
| `scheduled` | LatenessBounded, OneEntry, UniqueUnfinished | no order of adding, publishing, promoting and peeking loses a wakeup: a due task a scheduler knows of waits for the shortest sleep and the jitter at most; a lost message makes that the longest sleep and the jitter; run, delete and promotion of one member exclude each other |
| `execution` | RecordsAgree, CancelTakesEffect, StopEnds, DeletedActiveEnds | cancelled handlers stop although messages are lost and executions overlap, a stopping worker ends, a deleted active task ends if the deletion could mark it, metadata and counters describe what happened, apart from lost writes until the next execution |
| `priority` | StrictDominance, NoStarvation, FetchedEnds | the strict order holds, the weighted one starves no queue, a fetched message gets its token or stays pending |
| `services` | PanicConfigured, HeartbeatTruthful, ListedAgain | `Deployment`: no role panics by itself, the heartbeat lists the living but for failed writes and the DEL of a namesake, and a gap ends an interval after the process's own failed writes |
| | BucketAgrees, DeferralsBounded, RetryBudget, RetrySpacing, ContextEnds | `TaskPolicies`: rounding gives no tokens away, a deferral is repeated once at most, deferrals cost no attempt and failing calls add a bounded number of executions, delays stay in bounds, deadlines hold |
| | ReportsTruthful, DeliveredAsSubmitted | `Submission`: replies and counters tell what was stored, workers decode what was submitted unless the codec cannot express it |

Two runs end in a counterexample; each compares the code with a sentence of the
repository and is quoted under `findings` in `PROJECT.json`:

- `group_start`: the group starts at `$` (worker.go:93, multi_worker.go:184), so what was enqueued before the first
  worker of a queue is never delivered. If the hard limit is smaller than what is
  stranded, nothing else can be enqueued or promoted until the retention janitor
  trims.
- `lost_wakeup`: a resume between `IsPaused` and `WaitChan` leaves the consumer
  waiting while the queue is active, until the next pause and resume.

### Other disagreements

Where the code does less than one would expect, the properties above name the case they
except. These cases are behaviours of the modules; they have no run of their own.

- `applyDeliveryCount` overwrites the retry counter, so crashes replace failures
  instead of adding to them: with MaxRetry 2 a failure followed by crashes starts the
  handler four times (worker/process.go:101 "crash recovery counts against MaxRetry").
- Two executors of a reclaimed message both settle it: it is completed and dead
  lettered (excepted by `Exclusive` in `OnePlace`;
  tests/integration/race_stolen_settlement_test.go:22 expects a consistent final state).
- A retried task that fails before the retry deletes its dead letter loses the new one,
  because the deletion is by task ID; so does one that fails after `RetryAllDeadLetters`
  found no body for it (excepted by `raced` in `RetryLosesNothing`).
- The age purge removes ZSET member and index field with two commands. A task dead
  lettered between them keeps its ID without its body; `delete_dead_letter.lua` ignores
  such an ID and `RetryAllDeadLetters` reads it again for ever (excepted in `NoOrphans` and
  `CallsReturn`).
- Two deliveries between XPENDING (empty) and XINFO put a pending entry below the trim
  threshold (excepted by `between` in `PendingKept`).
- A consumer that reads between being listed as idle and being removed loses its pending
  entry; the message is delivered and pending for nobody (excepted by `revived` in
  `DeliveredCovered`).
- The next run of a cron job is added twice by a healer that scanned before `Reschedule`, or
  because a failed run is promoted again with its CronSpec; the members differ in
  `CreatedAt`, so that the deterministic ID of cron_manager.go:207 prevents nothing, and each
  starts a chain of its own.
- After its first run the member of a cron job is no longer the stored configuration, so
  deleting the job (client/cron.go:151) or replacing its configuration leaves the chain in
  place; `../handler/admin_handler.go:558` answers "successfully deleted".
- A Redis error while deferring a rate limited task is charged to the task and settles it
  (worker/middleware.go:82); docs/TERMINAL_OUTCOMES.md:24 and :59 say the message stays pending.
- A message whose MoveToDLQ or ScheduleRetry fails does stay pending, and is reclaimed with the
  delivery count in place of the retries it was charged: it is executed again, with MaxRetry 2 a
  third time (`RetryBudget` counts the failed calls).
- A failed XACK of a corrupt message is followed by its XDEL all the same: the ID stays pending
  without its entry until XAUTOCLAIM drops it (excepted by `unacked` in `DeliveryCoverage`).
- `DeleteActiveTask` removes the entry although its CancelTask failed: the handler runs on, and a
  retry brings the task back (excepted by `deleted` in `DeletedActiveEnds`).
- A worker whose first heartbeat fails consumes for an interval without being listed (`written`).
- `Stop` cancels the contexts of running handlers before it waits, so a shutdown is charged as
  a retry; worker/options_base.go:86 and docs/OPERATIONS.md:30 want in-flight work to finish.
- With roles worker and daemon apart, the daemons' janitor uses the group
  "taskmq-daemon-group" unless one is configured, and it has no processor: what a dead worker
  leaves pending is never reclaimed.
  module.go:88 says the daemon set is built for "all" too; it is empty.
- A scheduler without a cron manager (cron disabled, scheduler not) panics on the first task
  with a CronSpec (`PanicConfigured`).
- Processes of one configuration share the heartbeat key, and one that stops deletes it
  (excepted by `erased`).
- Metadata is left over by a client's Put after the completion, by SetState(active) of a second
  executor, by SetState(cancelled) after a discard, without a TTL, and whenever the write after a
  settlement is lost (excepted by `stale`); docs/OPERATIONS.md:184 says it is deleted on success. The cap of the completed index drops
  index members, not their hashes, unlike the comment of `MarkCompleted`. Overlapping executions
  count a task twice.
- The strict strategy starves lighter queues; worker/multi_worker.go:280 "completely avoids
  starvation". The priority worker does not look at the pause again after a fetch.
- `DeleteScheduledTask` and `DeleteActiveTask` delete the unique lock without comparing its owner;
  with scope UntilStart or UntilSuccess it can be another task's. The purge of cancelled
  delayed tasks, and drop_farthest, leave the lock of the dropped task to its TTL.
- Backoff overflows a Duration for Retry 37 and more with the defaults, and the retry can be
  due at once. MaxRetry n means n executions,
  while crashes are allowed until Retry exceeds n.
- An emission interval below 50 microseconds is lost in the 14 digits of the stored TAT: the
  limit is then not enforced. A limiter that cannot be reached admits everything.
- A chunk sent again over a new connection stores its tasks twice, or reports a stored
  one as refused (excepted by `broken`).
- A string of 64 KiB or more makes the binary format undecodable or another task; the worker
  discards it. JSON turns a string that is not UTF-8, such as a raw digest as UniqueKey, into
  another one (both excepted by `Encodable`).
- gRPC takes an unset max_retry as 0, HTTP and `NewTask` as 3; gRPC's dead letter and cron calls
  check neither empty names nor limits, unlike the HTTP ones.

Bounds. Two executors are the smallest number that can overlap on a message; in
`exclusive` two tasks that hold a unique key until they succeed compete for it with a third
that gives it up on an error and is then in flight beside them; limits of one and two are
met and exceeded. `MaxRetry` 2 separates first run, retry and dead
letter. Two disruptions allow a disruption of the recovery from a disruption; three
in `exclusive` are the MaxRetry + 1 crashes after which a message is cut off. In
`drains` `MaxMsgs` is 8, more than the run can use, so that the bound is never what stops a
task, and one of the two tasks cannot be decoded. Three commands of two administrators give a
pause, a resume and another pause with their messages crossed. `SYMMETRY` permutes
executors, only in runs without temporal properties that could be affected:
`exclusive` checks a step-wise refinement, `drains` uses none. Deadlock is not checked
for `TaskQueue`: an empty queue may rest.

Two administrators let every pair of DLQ calls meet on one task, which may fail again
twice and be in the stream twice, with one abandoned call; tasks only meet in a page, and
the theorems cover any number of them. Three messages, a reader and the janitor's
consumer give `retention` a pending message, a delivered one behind it and an undelivered
one; four delayed tasks with pages of two let a page shift. The delayed ZSET shares nothing
with the stream, so `MCSpec` looks at behaviours that use one of them. In `cron` three client calls
(`MaxCalls`) are a registration with a replacement, a deletion or a manual run around it;
stream and delayed ZSET have room for one member, so that a chain and what is left of an
older one compete; one failed run and two faults, so that a crash can break the chain that was
healed after a crash, are allowed. `MaxCopies` 3 bounds the occurrences of one configuration that
exist at once: one delayed, one in the stream, one being rescheduled (`MaxPromoted` 1, as the
scheduler reschedules what it moved before it moves more), so that it never stops `Reschedule`.
`JobsKeepRunning` is about the promotion itself, which must happen again and again.

In `scheduled` two tasks of one unique key and a plain one meet one scheduler and one
administrator; a delay of 4 is beyond the longest sleep of 3, a jitter of 2 is longer than the
shortest sleep and the poll interval lies between the two, batches have one member and
the stream room for two entries, waiting or being executed, so that every promotion is a full
batch or meets the limit; one fault. Two tasks meet every combination of calls and the fault; in behaviours with all three,
`MCSpec` lets calls go on only if nothing has failed. Several schedulers would only wake
earlier. `execution` has two executors, one task that
may be retried once, one overlapping reclaim and one fault: two tasks share nothing there but
counters and the completed index, whose cap is 1. In `priority` a queue of weight 0 and one of
weight 2 have one entry at a time that producers replace for ever, two consumers compete for
one token. In `services` two processes and two queues with each of three configurations start
three times; the policies are one task whose backoff outgrows five bits, with and without
jitter, one whose two retries need tokens, so that settlements fail and are
reclaimed between deferrals, and two tasks that share a limiter key of burst 2; two calls may fail,
two heartbeats too; units are 4 to a millisecond, 2 to
the last digit, 8 to a second. Requests are bulks over two queues with chunks of 2, nil, large
and long items, fail-fast or not, against a single submitter of the same unique key, with one
broken connection; two byte lengths are modulo 4 and numbers modulo 16.

Fairness. `TaskQueue`: the worker starts, the scheduler's and consumers' loops run,
every pending entry without an executor is eventually claimed (XAUTOCLAIM pages
through the list and starts over), and an executor goes on until it settles, which
supposes that handlers return. Disruptions are never fair. `PauseControl`: each
consumer goroutine runs and the reconcile ticker fires; nothing is assumed of
control messages or administrators. `DLQAdmin`: executors settle what is queued and a
caller goes on. `Retention`: the ticker fires; its calls fail finitely often.
`CronJobs`: scheduler, worker and healers go on, and the lock's TTL ends; client calls and
faults are bounded: registering or running a job for ever can keep it from its turn.
`TaskExecution`: goroutines, scheduler and janitor run and a worker is started again; a handler
returns if its context is cancelled and otherwise need not. `PriorityWorker`: goroutines run and
executions end; the channel of the pool serves its senders in order (strong fairness of
`Acquire`), and a queue that has work whenever the consumer draws is drawn first again and
again, with probability 1 (strong fairness of such a draw). Nothing is assumed of producers.

## Proofs

For every value of the constants that satisfies the assumptions:

- `TypeCorrect`, `NoTaskLost`, `NoMessageStranded` (`TaskQueueProofs`): `TypeOK`,
  `Conservation` and `DeliveryCoverage` are invariants of `TaskQueue`, with any set of
  disruptions. The inductive invariant `IInv` adds that message IDs are generated in
  order with the cursor behind them (`IdsInOrder`), that a busy executor holds a
  delivered message and, while the entry exists, works on the entry's task
  (`Holding`), and what holds between XACK and XDEL, failing or not (`Discarding`). Without `Holding`,
  XACK and XDEL by a stale executor could remove another task's entry. The lemmas
  follow the code: `SettleStep` for whatever acknowledges and deletes, `RequeueStep`,
  `DeadLetterStep` and `CompleteStep` for the three scripts, `LoadStep` for delivery and
  reclaim, `XAddStep` for whatever adds an entry; then one lemma per group of actions.
- `PauseHoldsFetchedMessages` (`PauseControlProofs`): a message fetched in a pause is
  not started before that pause ends. The strengthening says where its consumer is:
  on the way to the channel, or registered on the one the resume will close.
- `DeadLettersStayWhole`, `RetriesLoseNothing` (`DLQAdminProofs`): `NoOrphans` and
  `RetryLosesNothing` hold for any tasks and administrators. The strengthening says that
  what a call has enqueued is queued or done (`Requeued`), that a body found missing stays
  missing unless the task is queued or done (`BodiesRead`), and that what the age purge has
  removed from the ZSET stays out of it (`PurgeHalfDone`), all apart from the tasks that
  were dead lettered while their ID was doomed.
- `RacesExclude`, `UniqueKeyOnce` (`DelayedSchedulerProofs`): `OneEntry` and `UniqueUnfinished`
  hold for any tasks, schedulers, administrators, delays, limits and faults. `Known` (what is
  somewhere was enqueued) makes a new task new everywhere; `Covered` says that what is
  unfinished of the key is the task the lock names and that, while a deletion is between its
  ZREM and its DEL, nothing of the key is unfinished and the lock is still held, which is
  why a DEL that compares no owner is harmless under UntilSucceeded. `MoveStep` is shared by the
  promotion script and the forced promotion.
- `RegistryHoldsTheLiving`, `CancelHitsItsTask` (`TaskExecutionProofs`): an entry of the registry
  is empty or the context of an execution of that task that has not ended, so a cancel
  message stops no other task's handler. The strengthening `HolderRegistered` places the
  holder between `Cancelations.Add` and the deferred `Delete`; without it an executor that was
  reused could be found under its old task.

- `LimitsHold` (`TaskQueueProofs`): `CapacityBounds` for all limits and overflow policies. It is
  inductive once the delayed ZSET is known to be finite (`Bounded`); the counting (what is
  dropped before an addition, or evicted after one) is done with FiniteSetTheorems.
- `PoisonPillsStop` (`TaskQueueProofs`): `PoisonPillCutOff`. `Charged` says that at the gate the
  delivery counter has been charged to the retries of the task, and past the gate that this
  charge was compared with MaxRetry; the counter itself cannot move while an executor has the
  message, because nobody is robbed.
- `NoTaskDuplicated` (`TaskQueueProofs`): `OnePlace`. Two facts carry it. `Grip`: no two executors
  have the same message, who has one has not settled it, and what the gates promise holds
  behind them. `Places`: a task has one stream entry or one delayed member or one outcome.
  Each settlement script takes the entry away and adds one place, which keeps `Places` only
  because of `Grip`; delivery and reclaim keep `Grip` because `Places` gives them an entry
  nobody has.
- `UniqueTasksExclusive` (`TaskQueueProofs`): `UniqueInFlight`. `LockKept` adds that a task of scope
  UniqueUntilSucceeded owns its lock for as long as it is in the queue, so that a second task
  of the key is refused.
- `QueueImplementsContract` (`TaskQueueProofs`): with `Exclusive`, as in the run, `TaskQueue`
  implements `TaskContract` under the mapping `Status`. Each step moves the status of the one
  task it works on, and of those it evicts; `Conservation` excludes the status "lost",
  `Places` a return from "ended" or "dead".
- `UndeliveredStays`, `PendingStays`, `DeliveredStaysCovered` (`RetentionProofs`): the three
  invariants of `Retention`. The janitor computes a threshold in one call and uses it in
  another, so `Threshold` says what it means in between: after an empty XPENDING everything
  delivered since is pending, and the threshold of XINFO spares the last delivery, which is
  why one delivery between them is harmless and two are not. `ListedFree` does the same for the
  consumers listed as idle.
- `ChainsHold` (`CronJobsProofs`): `ChainUnbroken` is inductive as it stands, given the types: every
  operation that takes an occurrence away leaves another one, a deletion under way or a recorded loss.
- `WaitsAreBounded` (`DelayedSchedulerProofs`): `LatenessBounded` for all sleeps, jitters and poll
  intervals. For each scheduler `Rests` bounds what is left of its sleep by what a due task has
  already waited, whatever the scheduler knows; `Wakes` does the same with the shortest
  sleep for the tasks it knows of, or finds the wakeup in its channel. The bound
  first stated held for a jitter of one tick only, and the proof showed
  why: a wakeup one tick before the timer fires replaces the timer by the jitter, so that
  the wait is the sleep less one tick plus the jitter. `Overrun` states that, and the run has a
  jitter of more than one tick since.
- `RecordsStayTrue` (`TaskExecutionProofs`): `RecordsAgree`, with failing writes and lost replies.
  `Orderly` says of a task whose last write was neither lost nor late that it has one
  execution, and which write that one makes next;
  `OneHome` that a task is in one place unless a reclaim overlapped; `Counted` bounds each
  counter by the settled tasks less the executors that have settled and not yet counted.
- `HeartbeatsTruthful`, `ListedSoon`, `PanicsConfigured` (`ServicesProofs`): the invariants of
  `Deployment` for any processes, queues, configurations and failed writes. `Pulse` says what is
  left of the key's life after the writes a process missed since its first, `Silence` how long
  nobody has written, `Unseen` (for `ListedAgain`) that every interval without the key but the one
  under way is paid for by a write that failed.
- `AttemptsBudgeted`, `ContextsEnd`, `LimiterAgrees`, `FewDeferrals` (`ServicesProofs`): the policies, for any
  units. `Budgeted` bounds what a task has run and may still run by an `Allowance` that every failed
  call raises: a message that stays pending loses its count to the delivery count, and the failure
  that left it pending pays for that; it counts executions and failed calls together; `Bucketed` relates the
  debt of the ideal bucket to the stored TAT and the key's expiry, through both roundings;
  `Waited` says how close to its token a task refused once or twice is due.
- `RetriesSpaced` (`ServicesProofs`): `RetrySpacing` for every base, cap, retry counter and width of a
  Duration. What it needs of powers of two (they grow, they double) is proved by counting the
  subsets of 1 .. n, since 2^n is defined by recursion.
- `StrictOrderKept` (`ServicesProofs`): `StrictDominance`. `Ranked` says that the rest of a pass comes
  in order of weight and has every queue in it that was ready throughout.
- `RoundTrip` (`ServicesProofs`): decoding what was encoded gives the task back, if each length and
  number fits its width. The recursive functions of `Marshal` and `Unmarshal` are identified as
  the only functions that satisfy their equations (a least place where two of them differ is
  impossible); that each field is read where it was written then goes field by field, over the
  cells before it and the cells after it.
- `RepliesAreTruthful` (`ServicesProofs`): `ReportsTruthful`, for any clients, requests and limits, any
  chunk size and any number of broken connections. A reply is about the whole of a request, so
  `Consistent` says of a request on its way that each of its tasks waits in a queue still to do, is in
  the batch being sent, or is listed, and is in one of these places only (`Apart`), that what has been
  listed is true (`ListedTrue`), and that the results not yet collected are what the scripts did to
  the tasks sent so far (`SentTrue`). The batch in increasing order has each task once, so that the
  rejections a chunk adds to the counters are as many as the tasks it tells of.
- `TasksAreDelivered`, `SubmissionTyped` (`ServicesProofs`): `DeliveredAsSubmitted` and the types. Every
  entry is the encoding of a task of a request, which no longer changes once it is made
  (`Genuine`); the rest is `RoundTrip` for the binary format and `JSONKept` for JSON, which changes
  no string that is UTF-8.

Only model-checked:

- the temporal properties (`Drains`, `FlagConverges`, `ResumeReleasesWaiters`, `CallsReturn`,
  `PurgeCatchesUp`, `JobsKeepRunning`, `CancelTakesEffect`, `StopEnds`, `DeletedActiveEnds`,
  `NoStarvation`, `FetchedEnds`): liveness under fairness is beyond the prover.

All invariants and the refinement that the passing runs check are theorems as well. What a
recursive function computes for every input cannot be had from the library's induction
theorems; the two proofs that need it, powers of two and the codec, go around them as said
above.

## Plan

1. Done: the modules above, their runs, and the theorems listed.
2. MAXLEN trimming of the stream, which removes entries whatever their state; several
   schedulers with cron tasks against the clock.

Not modelled: the handlers of HTTP, gRPC and CLI other than the enqueue calls, which turn a
request into one client call and print its result; configuration, logging, the Redis
connection and generated code; events, which are published and read by nobody in the core;
progress, results and timestamps of the metadata; `GCRALimiter.Check`, inspection and listing,
which only read.
