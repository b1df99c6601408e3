------------------------------ MODULE TaskQueue ------------------------------
(***************************************************************************)
(* One queue of taskmq: the Redis keys of the queue (stream, consumer      *)
(* group with its pending entries list, delayed ZSET, dead letter ZSET,    *)
(* unique locks, cancelled markers), the clients that enqueue into it, the *)
(* executors that run worker.MessageProcessor.Process on its messages, the *)
(* delayed scheduler and the PEL janitor.                                  *)
(*                                                                         *)
(* A Redis command, and a Lua script, is one atomic step; what a Go        *)
(* function does between two of them is part of the next step.  Time is    *)
(* not represented: a delayed member may be due, a pending entry idle and  *)
(* a lock expired at any moment.                                           *)
(***************************************************************************)
EXTENDS Integers, FiniteSets

CONSTANTS
  Tasks,            \* task IDs; a client enqueues each of them at most once
  NoTask,           \* no task: an unset lock, an idle executor
  Executors,        \* goroutines that run Process (consumer or janitor slots)
  Keys,             \* unique keys
  NoKey,            \* Task.UniqueKey = ""
  KeyOf,            \* Task.UniqueKey of each task
  ScopeOf,          \* Task.UniqueScope of each task
  Undecodable,      \* tasks whose payload the worker's codec cannot decode
  MaxRetry,         \* Task.MaxRetry
  HardLimit,        \* lifecycle EnqueueHardLimit, 0 = off
  DelayedMax,       \* lifecycle DelayedMaxCount, 0 = off
  DelayedOverflow,  \* lifecycle DelayedOverflow: "reject" or "drop_farthest"
  DLQMax,           \* lifecycle DLQMaxCount, 0 = off
  Disruptions,      \* the kinds of disruption the environment may inject
  MaxDisruptions,   \* bound: how many disruptions a behaviour has
  MaxMsgs           \* bound: how many messages are ever added to the stream

Scopes == {"UntilSucceeded", "UntilStart", "UntilSuccess"}

(***************************************************************************)
(* crash: a worker process dies, or a settling script fails and the        *)
(*   executor returns with the message still pending;                      *)
(* brokerError: a Redis call fails without effect;                         *)
(* lostReply: DeferRateLimitedTask takes effect but reports an error;      *)
(* overlap: an entry is idle longer than the janitor's min idle time while *)
(*   its executor is still alive;                                          *)
(* miscount: XPENDING fails, or its page misses a claimed entry;           *)
(* rateLimit: GCRA refuses a task;                                         *)
(* lockExpiry: the TTL of a unique lock ends.                              *)
(***************************************************************************)
DisruptionKinds ==
  {"crash", "brokerError", "lostReply", "overlap", "miscount", "rateLimit",
   "lockExpiry"}

ASSUME QueueAssumption ==
  /\ NoTask \notin Tasks
  /\ NoKey \notin Keys
  /\ KeyOf \in [Tasks -> Keys \cup {NoKey}]
  /\ ScopeOf \in [Tasks -> Scopes]
  /\ Undecodable \subseteq Tasks
  /\ IsFiniteSet(Tasks)
  /\ Disruptions \subseteq DisruptionKinds
  /\ DelayedOverflow \in {"reject", "drop_farthest"}

ASSUME BoundsAssumption ==
  /\ MaxRetry \in Nat
  /\ HardLimit \in Nat
  /\ DelayedMax \in Nat
  /\ DLQMax \in Nat
  /\ MaxDisruptions \in Nat
  /\ MaxMsgs \in Nat

VARIABLES
  stream,      \* stream entries: message id -> serialized task, or NoBody
  lastId,      \* last message id the stream generated
  groupStart,  \* the group's first cursor, NoGroup before XGROUP CREATE
  cursor,      \* last id delivered to the group by XREADGROUP ">"
  pel,         \* pending entries list: message id -> delivery count, 0 = none
  delayed,     \* members of the delayed ZSET
  dlq,         \* task IDs in the dead letter ZSET and its index hash
  lock,        \* unique lock: key -> owning task ID
  cancelled,   \* tasks with a cancelled marker
  pc,          \* stage of Process each executor has reached
  msg,         \* message id the executor holds
  job,         \* the executor's in-memory copy of the task
  err,         \* what the middleware chain returned to RetryAndDLQ
  accepted,    \* history: tasks an enqueue call returned success for
  unacked,     \* history: messages dropped although their XACK failed
  ends,        \* history: how tasks left the queue
  disrupted    \* history: disruptions so far

redisVars == <<stream, lastId, groupStart, cursor, pel, delayed, dlq, lock, cancelled>>
execVars  == <<pc, msg, job, err>>
histVars  == <<accepted, unacked, ends, disrupted>>
vars      == <<redisVars, execVars, histVars>>

MsgIds  == 1 .. MaxMsgs
NoGroup == -1
Body    == [task : Tasks, retry : Nat]
NoBody  == [task |-> NoTask, retry |-> 0]
Stages  == {"idle", "gate", "xdel", "start", "limit", "run", "complete",
            "unlock", "settle"}
Errors  == {"none", "retryable", "final", "broker"}
EndKinds == {"completed", "cancelled", "undecodable", "dropped", "evicted"}

TypeOK ==
  /\ stream \in [MsgIds -> Body \cup {NoBody}]
  /\ lastId \in 0 .. MaxMsgs
  /\ groupStart \in NoGroup .. MaxMsgs
  /\ cursor \in 0 .. MaxMsgs
  /\ pel \in [MsgIds -> Nat]
  /\ delayed \subseteq Body
  /\ dlq \subseteq Tasks
  /\ lock \in [Keys -> Tasks \cup {NoTask}]
  /\ cancelled \subseteq Tasks
  /\ pc \in [Executors -> Stages]
  /\ msg \in [Executors -> MsgIds \cup {0}]
  /\ job \in [Executors -> Body \cup {NoBody}]
  /\ err \in [Executors -> Errors]
  /\ accepted \subseteq Tasks
  /\ unacked \subseteq MsgIds
  /\ ends \in [Tasks -> SUBSET EndKinds]
  /\ disrupted \in 0 .. MaxDisruptions

Init ==
  /\ stream = [id \in MsgIds |-> NoBody]
  /\ lastId = 0
  /\ groupStart = NoGroup
  /\ cursor = 0
  /\ pel = [id \in MsgIds |-> 0]
  /\ delayed = {}
  /\ dlq = {}
  /\ lock = [k \in Keys |-> NoTask]
  /\ cancelled = {}
  /\ pc = [e \in Executors |-> "idle"]
  /\ msg = [e \in Executors |-> 0]
  /\ job = [e \in Executors |-> NoBody]
  /\ err = [e \in Executors |-> "none"]
  /\ accepted = {}
  /\ unacked = {}
  /\ ends = [t \in Tasks |-> {}]
  /\ disrupted = 0

-----------------------------------------------------------------------------
(* Redis commands and the parts the Lua scripts share. *)

Disrupt(kind) ==
  /\ kind \in Disruptions
  /\ disrupted < MaxDisruptions
  /\ disrupted' = disrupted + 1

XLen == Cardinality({id \in MsgIds : stream[id] # NoBody})

BelowHardLimit == HardLimit = 0 \/ XLen < HardLimit

XAdd(body) ==
  /\ lastId < MaxMsgs
  /\ lastId' = lastId + 1
  /\ stream' = [stream EXCEPT ![lastId + 1] = body]

\* Mutant: the entry is acknowledged but stays in the stream.
AckOnly(id) == pel' = [pel EXCEPT ![id] = 0] /\ UNCHANGED stream

AckAndDel(id) ==
  /\ pel' = [pel EXCEPT ![id] = 0]
  /\ stream' = [stream EXCEPT ![id] = NoBody]

EndsWith(ts, kind) ==
  [t \in Tasks |-> IF t \in ts THEN ends[t] \cup {kind} ELSE ends[t]]

\* Mutant: makes no room for the member about to be added.
DelayedSurplusOffByOne ==
  LET n == Cardinality(delayed)
  IN  IF DelayedMax > 0 /\ n >= DelayedMax THEN n - DelayedMax ELSE 0

DelayedSurplus ==
  LET n == Cardinality(delayed)
  IN  IF DelayedMax > 0 /\ n >= DelayedMax THEN n - DelayedMax + 1 ELSE 0

\* drop_farthest: any members may have the highest scores.
ZAddDroppingFarthest(body) ==
  \E drop \in SUBSET delayed :
    /\ Cardinality(drop) = DelayedSurplus
    /\ delayed' = (delayed \ drop) \cup {body}
    /\ ends' = EndsWith({m.task : m \in drop}, "dropped")

DLQSurplus(ids) ==
  LET n == Cardinality(ids)
  IN  IF DLQMax > 0 /\ n > DLQMax THEN n - DLQMax ELSE 0

\* The scores are clocks of different workers: any entries may be the oldest.
ZAddDLQ(t) ==
  \E evict \in SUBSET (dlq \cup {t}) :
    /\ Cardinality(evict) = DLQSurplus(dlq \cup {t})
    /\ dlq' = (dlq \cup {t}) \ evict
    /\ ends' = EndsWith(evict, "evicted")

Unlocked(t) ==
  [k \in Keys |-> IF k = KeyOf[t] /\ lock[k] = t THEN NoTask ELSE lock[k]]

-----------------------------------------------------------------------------
(* Clients. *)

LockAvailable(t) == \A k \in Keys : k = KeyOf[t] => lock[k] \in {NoTask, t}

Locked(t) == [k \in Keys |-> IF k = KeyOf[t] THEN t ELSE lock[k]]

NewBody(t) == [task |-> t, retry |-> 0]

\* A rejected call (duplicate, queue full) changes nothing.
Enqueue(t) ==
  /\ t \notin accepted
  /\ LockAvailable(t)
  /\ BelowHardLimit
  /\ lock' = Locked(t)
  /\ XAdd(NewBody(t))
  /\ accepted' = accepted \cup {t}
  /\ UNCHANGED <<groupStart, cursor, pel, delayed, dlq, cancelled, execVars,
                 unacked, ends, disrupted>>

EnqueueAt(t) ==
  /\ t \notin accepted
  /\ LockAvailable(t)
  /\ DelayedOverflow = "drop_farthest" \/ DelayedSurplus = 0
  /\ lock' = Locked(t)
  /\ ZAddDroppingFarthest(NewBody(t))
  /\ accepted' = accepted \cup {t}
  /\ UNCHANGED <<stream, lastId, groupStart, cursor, pel, dlq, cancelled,
                 execVars, unacked, disrupted>>

CancelTask(t) ==
  /\ t \in accepted \ cancelled
  /\ cancelled' = cancelled \cup {t}
  /\ UNCHANGED <<stream, lastId, groupStart, cursor, pel, delayed, dlq, lock,
                 execVars, histVars>>

-----------------------------------------------------------------------------
(* Worker start, the delayed scheduler, and the two ways a message reaches *)
(* an executor.                                                            *)

\* XGROUP CREATE ... "$" MKSTREAM: the group starts after the last entry.
StartGroup ==
  /\ groupStart = NoGroup
  /\ groupStart' = lastId
  /\ cursor' = lastId
  /\ UNCHANGED <<stream, lastId, pel, delayed, dlq, lock, cancelled,
                 execVars, histVars>>

\* Mutant: the script adds the entry and keeps the delayed member.
PromoteWithoutRem(body) ==
  /\ body \in delayed
  /\ BelowHardLimit
  /\ XAdd(body)
  /\ UNCHANGED <<groupStart, cursor, pel, delayed, dlq, lock, cancelled,
                 execVars, histVars>>

\* A batch is one script; promoting its members one by one allows more.
Promote(body) ==
  /\ body \in delayed
  /\ BelowHardLimit
  /\ XAdd(body)
  /\ delayed' = delayed \ {body}
  /\ UNCHANGED <<groupStart, cursor, pel, dlq, lock, cancelled, execVars,
                 histVars>>

Load(e, id, retry) ==
  /\ pc' = [pc EXCEPT ![e] = "gate"]
  /\ msg' = [msg EXCEPT ![e] = id]
  /\ job' = [job EXCEPT ![e] = [task |-> stream[id].task, retry |-> retry]]
  /\ UNCHANGED err

Undelivered == {id \in MsgIds : id > cursor /\ stream[id] # NoBody}

Deliver(e) ==
  /\ groupStart # NoGroup
  /\ pc[e] = "idle"
  /\ \E id \in Undelivered :
       /\ \A other \in Undelivered : id <= other
       /\ cursor' = id
       /\ pel' = [pel EXCEPT ![id] = 1]
       /\ Load(e, id, stream[id].retry)
  /\ UNCHANGED <<stream, lastId, groupStart, delayed, dlq, lock, cancelled,
                 histVars>>

Holds(e, id) == pc[e] # "idle" /\ msg[e] = id

\* XAUTOCLAIM adds one to the delivery count; XPENDING reads it back and
\* applyDeliveryCount sets Retry to the count minus one.
ReclaimAs(e, id, retry) ==
  /\ pc[e] = "idle"
  /\ pel[id] > 0
  /\ stream[id] # NoBody
  /\ pel' = [pel EXCEPT ![id] = @ + 1]
  /\ Load(e, id, retry)
  /\ UNCHANGED <<stream, lastId, groupStart, cursor, delayed, dlq, lock,
                 cancelled, accepted, unacked, ends>>

\* Mutant: only entries that were delivered once are claimed.
ReclaimOnce(e, id) ==
  /\ pel[id] = 1
  /\ \A d \in Executors : ~Holds(d, id)
  /\ ReclaimAs(e, id, pel[id])
  /\ UNCHANGED disrupted

Reclaim(e, id) ==
  /\ \A d \in Executors : ~Holds(d, id)
  /\ ReclaimAs(e, id, pel[id])
  /\ UNCHANGED disrupted

ReclaimLive(e, id) ==
  /\ \E d \in Executors : Holds(d, id)
  /\ ReclaimAs(e, id, pel[id])
  /\ Disrupt("overlap")

\* The delivery count is not known: 1 is assumed.
ReclaimUncounted(e, id) ==
  /\ \A d \in Executors : ~Holds(d, id)
  /\ ReclaimAs(e, id, 0)
  /\ Disrupt("miscount")

\* XAUTOCLAIM hands out no entry that is gone: it takes the id off the PEL.
ReclaimDeleted(id) ==
  /\ pel[id] > 0
  /\ stream[id] = NoBody
  /\ pel' = [pel EXCEPT ![id] = 0]
  /\ UNCHANGED <<stream, lastId, groupStart, cursor, delayed, dlq, lock,
                 cancelled, execVars, histVars>>

-----------------------------------------------------------------------------
(* MessageProcessor.Process: the gates. *)

Goto(e, stage) == pc' = [pc EXCEPT ![e] = stage]

Finish(e) ==
  /\ Goto(e, "idle")
  /\ msg' = [msg EXCEPT ![e] = 0]
  /\ job' = [job EXCEPT ![e] = NoBody]
  /\ err' = [err EXCEPT ![e] = "none"]

Decoded(e) == pc[e] = "gate" /\ job[e].task \notin Undecodable

\* A payload that does not decode is dropped by XACK and then XDEL, whose
\* errors are both ignored.
DiscardAck(e) ==
  /\ pc[e] = "gate"
  /\ job[e].task \in Undecodable
  /\ \/ pel' = [pel EXCEPT ![msg[e]] = 0] /\ UNCHANGED <<unacked, disrupted>>
     \/ /\ Disrupt("brokerError")
        /\ unacked' = unacked \cup {msg[e]}
        /\ UNCHANGED pel
  /\ Goto(e, "xdel")
  /\ UNCHANGED <<stream, lastId, groupStart, cursor, delayed, dlq, lock,
                 cancelled, msg, job, err, accepted, ends>>

DiscardDel(e) ==
  /\ pc[e] = "xdel"
  /\ \/ /\ stream' = [stream EXCEPT ![msg[e]] = NoBody]
        /\ ends' = EndsWith({job[e].task}, "undecodable")
        /\ UNCHANGED disrupted
     \/ Disrupt("brokerError") /\ UNCHANGED <<stream, ends>>
  /\ Finish(e)
  /\ UNCHANGED <<lastId, groupStart, cursor, pel, delayed, dlq, lock,
                 cancelled, accepted, unacked>>

DeadLetter(e) ==
  /\ AckAndDel(msg[e])
  /\ ZAddDLQ(job[e].task)
  /\ lock' = Unlocked(job[e].task)
  /\ Finish(e)
  /\ UNCHANGED <<lastId, groupStart, cursor, delayed, cancelled, accepted, unacked,
                 disrupted>>

Complete(e, kind) ==
  /\ AckAndDel(msg[e])
  /\ lock' = Unlocked(job[e].task)
  /\ ends' = EndsWith({job[e].task}, kind)
  /\ Finish(e)
  /\ UNCHANGED <<lastId, groupStart, cursor, delayed, dlq, cancelled,
                 accepted, unacked, disrupted>>

RouteExceededMaxRetry(e) ==
  /\ Decoded(e)
  /\ job[e].retry > MaxRetry
  /\ DeadLetter(e)

DiscardIfCancelled(e) ==
  /\ Decoded(e)
  /\ job[e].retry <= MaxRetry
  /\ job[e].task \in cancelled
  /\ Complete(e, "cancelled")

HasScope(t, scope) == KeyOf[t] # NoKey /\ ScopeOf[t] = scope

\* Mutant: the MaxRetry gate lets one more delivery through.
ExecuteOneMore(e) ==
  /\ Decoded(e)
  /\ job[e].retry <= MaxRetry + 1
  /\ job[e].task \notin cancelled
  /\ Goto(e, IF HasScope(job[e].task, "UntilStart") THEN "start" ELSE "limit")
  /\ UNCHANGED <<redisVars, msg, job, err, histVars>>

\* A failed EXISTS counts as not cancelled.
Execute(e) ==
  /\ Decoded(e)
  /\ job[e].retry <= MaxRetry
  /\ \/ job[e].task \notin cancelled /\ UNCHANGED disrupted
     \/ job[e].task \in cancelled /\ Disrupt("brokerError")
  /\ Goto(e, IF HasScope(job[e].task, "UntilStart") THEN "start" ELSE "limit")
  /\ UNCHANGED <<redisVars, msg, job, err, accepted, unacked, ends>>

-----------------------------------------------------------------------------
(* The middleware chain: RetryAndDLQ, UniqueLockWatchdog, RateLimit, the   *)
(* handler.                                                                *)

\* A failed release is logged and the chain goes on.
ReleaseAtStart(e) ==
  /\ pc[e] = "start"
  /\ \/ lock' = Unlocked(job[e].task) /\ UNCHANGED disrupted
     \/ Disrupt("brokerError") /\ UNCHANGED lock
  /\ Goto(e, "limit")
  /\ UNCHANGED <<stream, lastId, groupStart, cursor, pel, delayed, dlq,
                 cancelled, msg, job, err, accepted, unacked, ends>>

Admit(e) ==
  /\ pc[e] = "limit"
  /\ Goto(e, "run")
  /\ UNCHANGED <<redisVars, msg, job, err, histVars>>

\* The error travels out through UniqueLockWatchdog to RetryAndDLQ.
Raise(e, error) ==
  /\ err' = [err EXCEPT ![e] = error]
  /\ Goto(e, IF HasScope(job[e].task, "UntilSuccess") THEN "unlock" ELSE "settle")
  /\ UNCHANGED <<msg, job>>

DeferRateLimited(e) ==
  /\ pc[e] = "limit"
  /\ Disrupt("rateLimit")
  /\ AckAndDel(msg[e])
  /\ ZAddDroppingFarthest(job[e])
  /\ Finish(e)
  /\ UNCHANGED <<lastId, groupStart, cursor, dlq, lock, cancelled, accepted, unacked>>

DeferFails(e) ==
  /\ pc[e] = "limit"
  /\ "rateLimit" \in Disruptions
  /\ Disrupt("brokerError")
  /\ Raise(e, "broker")
  /\ UNCHANGED <<redisVars, accepted, unacked, ends>>

DeferReplyLost(e) ==
  /\ pc[e] = "limit"
  /\ "rateLimit" \in Disruptions
  /\ Disrupt("lostReply")
  /\ AckAndDel(msg[e])
  /\ ZAddDroppingFarthest(job[e])
  /\ Raise(e, "broker")
  /\ UNCHANGED <<lastId, groupStart, cursor, dlq, lock, cancelled, accepted, unacked>>

HandlerSucceeds(e) ==
  /\ pc[e] = "run"
  /\ Goto(e, "complete")
  /\ UNCHANGED <<redisVars, msg, job, err, histVars>>

\* An ordinary error or a recovered panic; or ErrNoHandler, SkipRetry.
HandlerFails(e) ==
  /\ pc[e] = "run"
  /\ \E error \in {"retryable", "final"} : Raise(e, error)
  /\ UNCHANGED <<redisVars, histVars>>

ReleaseOnError(e) ==
  /\ pc[e] = "unlock"
  /\ \/ lock' = Unlocked(job[e].task) /\ UNCHANGED disrupted
     \/ Disrupt("brokerError") /\ UNCHANGED lock
  /\ Goto(e, "settle")
  /\ UNCHANGED <<stream, lastId, groupStart, cursor, pel, delayed, dlq,
                 cancelled, msg, job, err, accepted, unacked, ends>>

\* RetryAndDLQ increments Retry before it asks the policy.
ShouldRetry(e) == err[e] # "final" /\ job[e].retry + 1 < MaxRetry

\* Mutant: a full delayed ZSET rejects the retry after the XACK.
ScheduleRetryRejecting(e) ==
  /\ pc[e] = "settle"
  /\ ShouldRetry(e)
  /\ AckAndDel(msg[e])
  /\ IF DelayedSurplus = 0
     THEN ZAddDroppingFarthest([job[e] EXCEPT !.retry = @ + 1])
     ELSE UNCHANGED <<delayed, ends>>
  /\ Finish(e)
  /\ UNCHANGED <<lastId, groupStart, cursor, dlq, lock, cancelled, accepted, unacked,
                 disrupted>>

\* Mutant: the retry path releases the unique lock like the DLQ path.
ScheduleRetryUnlocking(e) ==
  /\ pc[e] = "settle"
  /\ ShouldRetry(e)
  /\ AckAndDel(msg[e])
  /\ ZAddDroppingFarthest([job[e] EXCEPT !.retry = @ + 1])
  /\ lock' = Unlocked(job[e].task)
  /\ Finish(e)
  /\ UNCHANGED <<lastId, groupStart, cursor, dlq, cancelled, accepted, unacked,
                 disrupted>>

ScheduleRetry(e) ==
  /\ pc[e] = "settle"
  /\ ShouldRetry(e)
  /\ AckAndDel(msg[e])
  /\ ZAddDroppingFarthest([job[e] EXCEPT !.retry = @ + 1])
  /\ Finish(e)
  /\ UNCHANGED <<lastId, groupStart, cursor, dlq, lock, cancelled, accepted, unacked,
                 disrupted>>

MoveToDLQ(e) ==
  /\ pc[e] = "settle"
  /\ ~ShouldRetry(e)
  /\ DeadLetter(e)

CompleteTask(e) ==
  /\ pc[e] = "complete"
  /\ Complete(e, "completed")

\* The process dies, or the settling call fails: the message stays pending.
Abandon(e) ==
  /\ pc[e] # "idle"
  /\ Disrupt("crash")
  /\ Finish(e)
  /\ UNCHANGED <<redisVars, accepted, unacked, ends>>

-----------------------------------------------------------------------------
(* UniqueLockWatchdog renews the lock every third of its TTL while the     *)
(* rest of the chain runs: the first renewal may come too late, or fail,   *)
(* so a lock may expire at any moment.                                     *)

LockExpires(k) ==
  /\ lock[k] # NoTask
  /\ Disrupt("lockExpiry")
  /\ lock' = [lock EXCEPT ![k] = NoTask]
  /\ UNCHANGED <<stream, lastId, groupStart, cursor, pel, delayed, dlq,
                 cancelled, execVars, accepted, unacked, ends>>

-----------------------------------------------------------------------------

Client(t) == Enqueue(t) \/ EnqueueAt(t) \/ CancelTask(t)

\* The steps an executor takes by itself once it holds a message.
Process(e) ==
  \/ DiscardAck(e) \/ DiscardDel(e)
  \/ RouteExceededMaxRetry(e) \/ DiscardIfCancelled(e) \/ Execute(e)
  \/ ReleaseAtStart(e) \/ Admit(e) \/ DeferRateLimited(e)
  \/ DeferFails(e) \/ DeferReplyLost(e)
  \/ HandlerSucceeds(e) \/ HandlerFails(e) \/ ReleaseOnError(e)
  \/ ScheduleRetry(e) \/ MoveToDLQ(e) \/ CompleteTask(e)

Janitor(e, id) ==
  Reclaim(e, id) \/ ReclaimLive(e, id) \/ ReclaimUncounted(e, id)

Next ==
  \/ \E t \in Tasks : Client(t)
  \/ StartGroup
  \/ \E body \in delayed : Promote(body)
  \/ \E e \in Executors : Deliver(e) \/ Process(e) \/ Abandon(e)
  \/ \E e \in Executors, id \in MsgIds : Janitor(e, id)
  \/ \E id \in MsgIds : ReclaimDeleted(id)
  \/ \E k \in Keys : LockExpires(k)

Spec == Init /\ [][Next]_vars

(***************************************************************************)
(* The loops of a running worker: a consumer keeps reading, the janitor    *)
(* keeps reclaiming, the scheduler keeps promoting, an executor finishes   *)
(* what it started (a handler returns: its context has a deadline).        *)
(***************************************************************************)
Fairness ==
  /\ WF_vars(StartGroup)
  /\ WF_vars(\E body \in delayed : Promote(body))
  /\ WF_vars(\E e \in Executors : Deliver(e))
  /\ \A id \in MsgIds : WF_vars(\E e \in Executors : Reclaim(e, id))
  /\ \A id \in MsgIds : WF_vars(ReclaimDeleted(id))
  /\ \A e \in Executors : WF_vars(Process(e))

FairSpec == Spec /\ Fairness

-----------------------------------------------------------------------------
(* Where a task is. *)

InStream(t)  == \E id \in MsgIds : stream[id].task = t
InDelayed(t) == \E body \in delayed : body.task = t
Held(t)      == InStream(t) \/ InDelayed(t)

(***************************************************************************)
(* Conservation.  No settling script, promotion, reclaim, overflow policy, *)
(* crash or stale executor loses a task: what a client was told is         *)
(* enqueued is in the stream, in the delayed ZSET or in the DLQ, unless an *)
(* execution ended it or a configured limit evicted it on record.          *)
(***************************************************************************)
Conservation ==
  \A t \in accepted : Held(t) \/ t \in dlq \/ ends[t] # {}

(***************************************************************************)
(* DeliveryCoverage.  A message that is still in the stream is either      *)
(* ahead of the group's cursor or pending, so XREADGROUP or the janitor    *)
(* will hand it to an executor; the exceptions are the entries that were   *)
(* there when the group was created at "$" and undecodable entries whose   *)
(* XACK was not followed by a successful XDEL.  Nothing is pending without *)
(* its stream entry, except an undecodable message whose XACK failed.      *)
(***************************************************************************)
DeliveryCoverage ==
  \A id \in MsgIds :
    /\ stream[id] # NoBody =>
         \/ groupStart = NoGroup
         \/ id <= groupStart
         \/ id > cursor
         \/ pel[id] > 0
         \/ stream[id].task \in Undecodable
    /\ pel[id] > 0 => id <= cursor /\ (stream[id] # NoBody \/ id \in unacked)

(***************************************************************************)
(* CapacityBounds.  Every path that adds to the stream, to the delayed     *)
(* ZSET or to the DLQ (clients, promotion, retry, rate limit deferral,     *)
(* dead lettering by several executors) respects the configured limit.     *)
(***************************************************************************)
CapacityBounds ==
  /\ HardLimit > 0 => XLen <= HardLimit
  /\ DelayedMax > 0 => Cardinality(delayed) <= DelayedMax
  /\ DLQMax > 0 => Cardinality(dlq) <= DLQMax

(***************************************************************************)
(* OnePlace.  When no executor outlives the janitor's min idle time and no *)
(* reply is lost, retries, deferrals, crashes and reclaims never duplicate *)
(* a task: it is in one stream message, or one delayed member, or the DLQ, *)
(* or it has left the queue, and only one of these.                        *)
(***************************************************************************)
Exclusive == {"overlap", "lostReply"} \cap Disruptions = {}

OnePlace ==
  Exclusive => \A t \in Tasks :
    /\ \A i, j \in MsgIds : stream[i].task = t /\ stream[j].task = t => i = j
    /\ \A a, b \in delayed : a.task = t /\ b.task = t => a = b
    /\ InStream(t) => ~InDelayed(t)
    /\ Held(t) => t \notin dlq
    /\ Held(t) \/ t \in dlq => ends[t] = {}

(***************************************************************************)
(* ImplementsContract.  Under the same conditions the queue implements     *)
(* TaskContract: crashes, reclaims, retries and deferrals are invisible in *)
(* a task's status, nothing that ended or died is queued again, and no     *)
(* task vanishes ("lost" is no status of TaskContract).                    *)
(***************************************************************************)
Status(t) ==
  CASE Held(t) -> "queued"
    [] ~Held(t) /\ t \in dlq -> "dead"
    [] ~Held(t) /\ t \notin dlq /\ ends[t] # {} -> "ended"
    [] ~Held(t) /\ t \notin dlq /\ ends[t] = {} /\ t \in accepted -> "lost"
    [] OTHER -> "new"

Contract == INSTANCE TaskContract WITH status <- [t \in Tasks |-> Status(t)]

ImplementsContract == Contract!Spec

(***************************************************************************)
(* UniqueInFlight.  With UniqueUntilSucceeded, two tasks with the same     *)
(* unique key are never in the queue together (stream, pending or delayed  *)
(* for a retry), as long as the lock's TTL does not end early.             *)
(***************************************************************************)
UniqueInFlight ==
  Exclusive /\ "lockExpiry" \notin Disruptions =>
    \A t, u \in Tasks :
      /\ HasScope(t, "UntilSucceeded") /\ HasScope(u, "UntilSucceeded")
      /\ KeyOf[t] = KeyOf[u]
      /\ Held(t) /\ Held(u)
      => t = u

(***************************************************************************)
(* PoisonPillCutOff.  When the delivery count is always read back and no   *)
(* live executor is robbed of its message, a message is never handed to    *)
(* the handler on a delivery beyond the MaxRetry + 1st, however often the  *)
(* workers that run it crash.                                              *)
(***************************************************************************)
PoisonPillCutOff ==
  {"overlap", "miscount"} \cap Disruptions = {} =>
    \A e \in Executors :
      pc[e] \in {"start", "limit", "run"} => pel[msg[e]] <= MaxRetry + 1

(***************************************************************************)
(* Drains.  With finitely many disruptions the queue empties: every task   *)
(* is eventually completed, cancelled, dead lettered or dropped for good,  *)
(* except the ones DeliveryCoverage excepts, and nothing stays pending.    *)
(***************************************************************************)
Unreachable(id) == id <= groupStart \/ stream[id].task \in Undecodable

Drained ==
  /\ delayed = {}
  /\ \A id \in MsgIds : pel[id] = 0 /\ (stream[id] # NoBody => Unreachable(id))

Drains == <>[]Drained

(***************************************************************************)
(* AcceptedTasksSettle.  README: "At-least-once delivery with PEL recovery *)
(* janitor".  Every task a client enqueued successfully is eventually      *)
(* dead lettered or ended.                                                 *)
(***************************************************************************)
AcceptedTasksSettle ==
  \A t \in Tasks : t \in accepted ~> t \in dlq \/ ends[t] # {}

=============================================================================
