---------------------------- MODULE TaskExecution ----------------------------
(***************************************************************************)
(* What surrounds the execution of a message in one worker process: the    *)
(* registry of cancel functions and its pub/sub subscriber, the poll of    *)
(* the cancelled marker, the metadata hash and the metrics that a          *)
(* settlement writes after its script, CancelTask, DeleteActiveTask, the   *)
(* clients' late metadata writes, and the shutdown of the worker.          *)
(*                                                                         *)
(* A Redis command, script or pipeline is one step, and so are the writes  *)
(* of metadata and counters that follow a settlement.  The stream is       *)
(* reduced to which tasks are queued and which are pending; delivery       *)
(* counts, unique locks and rate limits are in TaskQueue.  A handler that  *)
(* is not told to stop may run forever.                                    *)
(***************************************************************************)
EXTENDS Naturals, FiniteSets

CONSTANTS
  Tasks,         \* task IDs
  MaxExecutors,  \* how many goroutines may run Process at once
  NoTask,        \* an idle executor
  Retained,      \* lifecycle CompletedRetention > 0
  CompletedMax,  \* CompletedMaxCount, 0 is off
  MaxRetries,    \* bound: retries of a task
  MaxOverlaps,   \* bound: reclaims of a message that is still executed
  MaxFaults      \* bound: crashes, failed calls and lost messages

ASSUME ExecutionAssumption ==
  /\ NoTask \notin Tasks
  /\ Retained \in BOOLEAN
  /\ IsFiniteSet(Tasks)
  /\ {MaxExecutors, CompletedMax, MaxRetries, MaxOverlaps, MaxFaults} \subseteq Nat

Executors == 1 .. MaxExecutors
NoExec == 0

VARIABLES
  queued,     \* tasks with a stream entry that is not delivered
  pel,        \* tasks with a pending entry
  delayed,    \* tasks in the delayed ZSET
  dlq,        \* tasks in the dead letter ZSET
  retry,      \* Task.Retry
  meta,       \* the state field of each metadata hash, "none" without a hash
  ttl,        \* tasks whose metadata hash expires
  completed,  \* the completed ZSET
  count,      \* the metrics hash
  marker,     \* tasks with a cancelled marker
  registry,   \* Cancelations.cancelFuncs: whose context a task ID cancels
  stopped,    \* executors whose handler context is cancelled
  inbox,      \* task IDs in the cancel subscriber's channel
  worker,     \* the worker process
  pc,         \* where each executor is
  job,        \* its task
  toPut,      \* the state a client has still to write for a task
  toDelete,   \* entries DeleteActiveTask has read, and whether it set the marker
  submitted,  \* history: task IDs that were enqueued
  deleted,    \* history: tasks DeleteActiveTask has marked and removed
  done,       \* history: tasks that were completed, or discarded
  stale,      \* history: tasks whose last metadata write was lost, or late
  overlapped, \* history: tasks that two executions had in hand at once
  overlaps,   \* history: overlapping reclaims
  faults      \* history: faults

queueVars  == <<queued, pel, delayed, dlq, retry>>
metaVars   == <<meta, ttl, completed, count>>
cancelVars == <<marker, registry, stopped, inbox>>
execVars   == <<worker, pc, job>>
clientVars == <<toPut, toDelete>>
histVars   == <<submitted, deleted, done, stale, overlapped, overlaps, faults>>
vars == <<queueVars, metaVars, cancelVars, execVars, clientVars, histVars>>

States == {"none", "pending", "active", "delayed", "retry", "completed", "dlq", "cancelled"}
Fields == {"completed", "dlq"}   \* of the metrics hash, incremented with processed and failed
Stages == {"idle", "gate", "drop", "cancelled", "active", "run", "complete", "retry", "dlq",
           "markDropped", "markCompleted", "markRetry", "markDLQ"}

TypeOK ==
  /\ queued \subseteq Tasks /\ pel \subseteq Tasks /\ delayed \subseteq Tasks /\ dlq \subseteq Tasks
  /\ retry \in [Tasks -> 0 .. MaxRetries]
  /\ meta \in [Tasks -> States]
  /\ ttl \subseteq Tasks /\ completed \subseteq Tasks
  /\ count \in [Fields -> Nat]
  /\ marker \subseteq Tasks /\ inbox \subseteq Tasks
  /\ registry \in [Tasks -> Executors \cup {NoExec}]
  /\ stopped \subseteq Executors
  /\ worker \in {"up", "stopping", "down"}
  /\ pc \in [Executors -> Stages]
  /\ job \in [Executors -> Tasks \cup {NoTask}]
  /\ toPut \in [Tasks -> {"none", "pending", "delayed"}]
  /\ toDelete \subseteq Tasks \X (0 .. MaxRetries) \X BOOLEAN
  /\ submitted \subseteq Tasks /\ deleted \subseteq Tasks
  /\ stale \subseteq Tasks /\ overlapped \subseteq Tasks
  /\ done \subseteq Tasks
  /\ overlaps \in 0 .. MaxOverlaps
  /\ faults \in 0 .. MaxFaults

Init ==
  /\ queued = {} /\ pel = {} /\ delayed = {} /\ dlq = {}
  /\ retry = [t \in Tasks |-> 0]
  /\ meta = [t \in Tasks |-> "none"]
  /\ ttl = {} /\ completed = {}
  /\ count = [f \in Fields |-> 0]
  /\ marker = {} /\ inbox = {} /\ stopped = {}
  /\ registry = [t \in Tasks |-> NoExec]
  /\ worker = "down"
  /\ pc = [e \in Executors |-> "idle"]
  /\ job = [e \in Executors |-> NoTask]
  /\ toPut = [t \in Tasks |-> "none"]
  /\ toDelete = {} /\ submitted = {} /\ deleted = {}
  /\ stale = {} /\ overlapped = {}
  /\ done = {}
  /\ overlaps = 0
  /\ faults = 0

Fault == faults < MaxFaults /\ faults' = faults + 1

Executing(t) == {e \in Executors : job[e] = t}

Somewhere(t) == t \in queued \cup pel \cup delayed \cup dlq \/ Executing(t) # {}

-----------------------------------------------------------------------------
(* meta.Store: HSET creates the hash without a TTL, or keeps the one it has. *)

SetState(t, state) == meta' = [meta EXCEPT ![t] = state] /\ UNCHANGED <<ttl, completed>>

\* Mutant: a hash that is kept for a while never expires.
MarkCompletedWithoutTTL(t) ==
  IF Retained
  THEN /\ meta' = [meta EXCEPT ![t] = "completed"]
       /\ completed' = completed \cup {t}
       /\ UNCHANGED ttl
  ELSE /\ meta' = [meta EXCEPT ![t] = "none"]
       /\ ttl' = ttl \ {t}
       /\ UNCHANGED completed

\* With a cap the index keeps CompletedMax members; their hashes stay.
MarkCompleted(t) ==
  IF Retained
  THEN /\ meta' = [meta EXCEPT ![t] = "completed"]
       /\ ttl' = ttl \cup {t}
       /\ \E S \in SUBSET (completed \cup {t}) :
            /\ CompletedMax = 0 => S = completed \cup {t}
            /\ CompletedMax > 0 => Cardinality(S) <= CompletedMax
            /\ \A T \in SUBSET (completed \cup {t}) :
                 CompletedMax > 0 /\ Cardinality(T) <= CompletedMax => Cardinality(T) <= Cardinality(S)
            /\ completed' = S
  ELSE /\ meta' = [meta EXCEPT ![t] = "none"]
       /\ ttl' = ttl \ {t}
       /\ UNCHANGED completed

\* The retention of a completed task ends: its key expires, or the janitor's
\* PurgeExpiredCompleted deletes it with its index entry.  It is longer than
\* what the task's own executions take.
ExpireCompleted(t) ==
  /\ t \in ttl
  /\ ~Somewhere(t)
  /\ meta' = [meta EXCEPT ![t] = "none"]
  /\ ttl' = ttl \ {t}
  /\ completed' \in {completed, completed \ {t}}
  /\ UNCHANGED <<queueVars, count, cancelVars, execVars, clientVars, histVars>>

-----------------------------------------------------------------------------
(* Clients. *)

\* Enqueue and EnqueueAt: the script, then the metadata.
Enqueue(t) ==
  /\ t \notin submitted
  /\ submitted' = submitted \cup {t}
  /\ \/ queued' = queued \cup {t} /\ UNCHANGED delayed /\ toPut' = [toPut EXCEPT ![t] = "pending"]
     \/ delayed' = delayed \cup {t} /\ UNCHANGED queued /\ toPut' = [toPut EXCEPT ![t] = "delayed"]
  /\ UNCHANGED <<pel, dlq, retry, metaVars, cancelVars, execVars, toDelete, deleted, done, stale,
                 overlapped, overlaps, faults>>

\* The worker may have fetched, retried or completed the task by now.
Put(t) ==
  /\ toPut[t] # "none"
  /\ SetState(t, toPut[t])
  /\ toPut' = [toPut EXCEPT ![t] = "none"]
  /\ stale' = IF t \in (IF toPut[t] = "pending" THEN queued ELSE delayed) /\ retry[t] = 0
                THEN stale ELSE stale \cup {t}
  /\ UNCHANGED <<queueVars, count, cancelVars, execVars, toDelete, submitted, deleted, done, overlapped, overlaps,
                 faults>>

\* The error of the write is ignored.
PutFails(t) ==
  /\ toPut[t] # "none"
  /\ Fault
  /\ toPut' = [toPut EXCEPT ![t] = "none"]
  /\ stale' = stale \cup {t}
  /\ UNCHANGED <<queueVars, metaVars, cancelVars, execVars, toDelete, submitted, deleted, done,
                 overlapped, overlaps>>

\* SET of the marker, and the message, which is lost if PUBLISH fails or the
\* subscriber is not connected.
Mark(t) ==
  /\ marker' = marker \cup {t}
  /\ inbox' \in IF worker = "down" THEN {inbox} ELSE {inbox, inbox \cup {t}}

CancelTask(t) ==
  /\ Somewhere(t)
  /\ t \notin marker
  /\ Mark(t)
  /\ UNCHANGED <<queueVars, metaVars, registry, stopped, execVars, clientVars, histVars>>

\* Mutant: the entry is removed and a running handler is left alone.
DeleteActiveTaskUncancelled(t) ==
  /\ t \in queued \cup pel
  /\ \A d \in toDelete : d[1] # t
  /\ toDelete' = toDelete \cup {<<t, retry[t], TRUE>>}
  /\ UNCHANGED <<queueVars, metaVars, cancelVars, execVars, toPut, histVars>>

\* Every retry is an entry of its own.  That the marker could not be set is
\* ignored.
DeleteActiveTask(t) ==
  /\ t \in queued \cup pel
  /\ \A d \in toDelete : d[1] # t
  /\ \/ /\ Mark(t)
        /\ toDelete' = toDelete \cup {<<t, retry[t], TRUE>>}
        /\ UNCHANGED faults
     \/ /\ Fault
        /\ toDelete' = toDelete \cup {<<t, retry[t], FALSE>>}
        /\ UNCHANGED <<marker, inbox>>
  /\ UNCHANGED <<queueVars, metaVars, registry, stopped, execVars, toPut, submitted, deleted, done,
                 stale, overlapped, overlaps>>

\* XACK in every group and XDEL of the entry that was read, if it is still
\* there.  When XACK fails the janitor's XAUTOCLAIM drops the id.
RemoveActiveTask(d) ==
  /\ d \in toDelete
  /\ toDelete' = toDelete \ {d}
  /\ IF retry[d[1]] = d[2]
     THEN queued' = queued \ {d[1]} /\ pel' = pel \ {d[1]}
     ELSE UNCHANGED <<queued, pel>>
  /\ deleted' = IF d[3] THEN deleted \cup {d[1]} ELSE deleted
  /\ UNCHANGED <<delayed, dlq, retry, metaVars, cancelVars, execVars, toPut, submitted, done, stale,
                 overlapped, overlaps, faults>>

\* XDEL fails, and that is returned: an entry may be acknowledged by then, and
\* is not handed out again.
RemoveFails(d) ==
  /\ d \in toDelete
  /\ Fault
  /\ toDelete' = toDelete \ {d}
  /\ pel' \in IF retry[d[1]] = d[2] THEN {pel, pel \ {d[1]}} ELSE {pel}
  /\ UNCHANGED <<queued, delayed, dlq, retry, metaVars, cancelVars, execVars, toPut, submitted,
                 deleted, done, stale, overlapped, overlaps>>

-----------------------------------------------------------------------------
(* MessageProcessor.Process. *)

Goto(e, stage) == pc' = [pc EXCEPT ![e] = stage] /\ UNCHANGED <<worker, job>>

\* The deferred calls of an execution: Cancelations.Delete by task ID, the poll
\* and the context end.
Leave(e) ==
  /\ registry' = [registry EXCEPT ![job[e]] = NoExec]
  /\ stopped' = stopped \ {e}
  /\ pc' = [pc EXCEPT ![e] = "idle"]
  /\ job' = [job EXCEPT ![e] = NoTask]
  /\ UNCHANGED <<marker, inbox, worker>>

\* Goroutines are alike: the first idle one takes the message.
Take(e, t) ==
  /\ worker = "up"
  /\ pc[e] = "idle" /\ \A d \in 1 .. e - 1 : pc[d] # "idle"
  /\ pc' = [pc EXCEPT ![e] = "gate"]
  /\ job' = [job EXCEPT ![e] = t]
  /\ UNCHANGED worker

\* An execution that has scheduled a retry may still be writing its metadata
\* when the retry is fetched.
Fetch(e, t) ==
  /\ t \in queued
  /\ Take(e, t)
  /\ queued' = queued \ {t}
  /\ pel' = pel \cup {t}
  /\ stale' = IF Executing(t) = {} THEN stale ELSE stale \cup {t}
  /\ UNCHANGED <<delayed, dlq, retry, metaVars, cancelVars, clientVars, submitted, deleted, done, overlapped, overlaps,
                 faults>>

\* The janitor; a message that is still executed is executed twice.
Reclaim(e, t) ==
  /\ t \in pel
  /\ Take(e, t)
  /\ IF Executing(t) = {}
     THEN UNCHANGED <<overlapped, overlaps>>
     ELSE /\ overlaps < MaxOverlaps
          /\ overlaps' = overlaps + 1
          /\ overlapped' = overlapped \cup {t}
  /\ UNCHANGED <<queueVars, metaVars, cancelVars, clientVars, submitted, deleted, done, stale,
                 faults>>

Promote(t) ==
  /\ t \in delayed
  /\ delayed' = delayed \ {t}
  /\ queued' = queued \cup {t}
  /\ UNCHANGED <<pel, dlq, retry, metaVars, cancelVars, execVars, clientVars, histVars>>

\* discardIfCancelled: EXISTS on the marker.  Once the worker stops, its
\* context is cancelled and the command fails: the task goes on.
Gate(e) ==
  /\ pc[e] = "gate"
  /\ Goto(e, IF job[e] \in marker /\ worker = "up" THEN "drop" ELSE "active")
  /\ UNCHANGED <<queueVars, metaVars, cancelVars, clientVars, histVars>>

GateFails(e) ==
  /\ pc[e] = "gate"
  /\ job[e] \in marker
  /\ Fault
  /\ Goto(e, "active")
  /\ UNCHANGED <<queueVars, metaVars, cancelVars, clientVars, submitted, deleted, done, stale, overlapped, overlaps>>

\* The state of a discarded task is written, or not, after the hash was
\* completed: it stays, without a TTL when completed tasks are not retained.
\* The task was not registered.
StateCancelled(e) ==
  /\ pc[e] = "cancelled"
  /\ \/ SetState(job[e], "cancelled") /\ UNCHANGED faults
     \/ Fault /\ UNCHANGED <<meta, ttl, completed>>
  /\ stale' = stale \cup {job[e]}
  /\ stopped' = stopped \ {e}
  /\ pc' = [pc EXCEPT ![e] = "idle"]
  /\ job' = [job EXCEPT ![e] = NoTask]
  /\ UNCHANGED <<queueVars, count, marker, registry, inbox, worker, clientVars,
                 submitted, deleted, done, overlapped, overlaps>>

\* SetState, whose error is ignored, then Cancelations.Add, whoever is
\* registered for the task ID.  The only execution of a task sets its record
\* right.
StateActive(e) ==
  /\ pc[e] = "active"
  /\ \/ /\ SetState(job[e], "active")
        /\ stale' = IF Executing(job[e]) = {e} THEN stale \ {job[e]} ELSE stale
        /\ UNCHANGED faults
     \/ Fault /\ UNCHANGED <<meta, ttl, completed, stale>>
  /\ registry' = [registry EXCEPT ![job[e]] = e]
  /\ Goto(e, "run")
  /\ UNCHANGED <<queueVars, count, marker, stopped, inbox, clientVars, submitted, deleted, done,
                 overlapped, overlaps>>

\* Mutant: no ticker: the poll looks once, when the handler starts.
PollOnce(e) ==
  /\ pc[e] = "active"
  /\ job[e] \in marker
  /\ e \notin stopped
  /\ stopped' = stopped \cup {e}
  /\ UNCHANGED <<queueVars, metaVars, marker, registry, inbox, execVars, clientVars, histVars>>

\* pollCancelledMarker, at once and every 100 ms.
PollCancelledMarker(e) ==
  /\ pc[e] = "run"
  /\ job[e] \in marker
  /\ e \notin stopped
  /\ stopped' = stopped \cup {e}
  /\ UNCHANGED <<queueVars, metaVars, marker, registry, inbox, execVars, clientVars, histVars>>

\* The middleware chain has an outcome; a handler that sees its context
\* cancelled returns.
HandlerReturns(e) ==
  /\ pc[e] = "run"
  /\ \/ Goto(e, "complete")
     \/ Goto(e, "dlq")
     \/ retry[job[e]] < MaxRetries /\ Goto(e, "retry")
  /\ UNCHANGED <<queueVars, metaVars, cancelVars, clientVars, histVars>>

\* The three settlement scripts; a second one finds no entry to remove.
Completes(t) ==
  /\ pel' = pel \ {t}
  /\ done' = done \cup {t}
  /\ UNCHANGED <<queued, delayed, dlq, retry>>

Retries(t) ==
  /\ pel' = pel \ {t}
  /\ delayed' = delayed \cup {t}
  /\ retry' = [retry EXCEPT ![t] = IF @ < MaxRetries THEN @ + 1 ELSE @]
  /\ UNCHANGED <<queued, dlq, done>>

DeadLetters(t) ==
  /\ pel' = pel \ {t}
  /\ dlq' = dlq \cup {t}
  /\ UNCHANGED <<queued, delayed, retry, done>>

Script(e) ==
  \/ pc[e] \in {"complete", "drop"} /\ Completes(job[e])
  \/ pc[e] = "retry" /\ Retries(job[e])
  \/ pc[e] = "dlq" /\ DeadLetters(job[e])

\* What a settlement writes after its script.
MarkAfter(stage) ==
  CASE stage = "complete" -> "markCompleted"
    [] stage = "drop" -> "markDropped"
    [] stage = "retry" -> "markRetry"
    [] stage = "dlq" -> "markDLQ"

Settle(e) ==
  /\ Script(e)
  /\ Goto(e, MarkAfter(pc[e]))
  /\ UNCHANGED <<metaVars, cancelVars, clientVars, submitted, deleted, stale, overlapped, overlaps,
                 faults>>

\* An execution whose settlement failed ends; a discarded task has its last
\* state to write all the same.
GiveUp(e) ==
  IF pc[e] = "drop" THEN Goto(e, "cancelled") /\ UNCHANGED cancelVars ELSE Leave(e)

\* The script fails: the message stays pending.
ScriptFails(e) ==
  /\ pc[e] \in {"complete", "drop", "retry", "dlq"}
  /\ Fault
  /\ GiveUp(e)
  /\ UNCHANGED <<queueVars, metaVars, clientVars, submitted, deleted, done, stale, overlapped,
                 overlaps>>

\* The script runs and its reply is lost: nothing is written after it.
ReplyLost(e) ==
  /\ Script(e)
  /\ Fault
  /\ GiveUp(e)
  /\ stale' = stale \cup {job[e]}
  /\ UNCHANGED <<metaVars, clientVars, submitted, deleted, overlapped, overlaps>>

Inc(fs) == count' = [f \in Fields |-> IF f \in fs THEN count[f] + 1 ELSE count[f]]

Counters(stage) ==
  CASE stage \in {"markCompleted", "markDropped"} -> {"completed"}
    [] stage = "markRetry" -> {}
    [] stage = "markDLQ" -> {"dlq"}

\* A discarded task has a last state to write.
AfterMark(e) ==
  IF pc[e] = "markDropped" THEN Goto(e, "cancelled") /\ UNCHANGED cancelVars ELSE Leave(e)

MarkState(e) ==
  \/ pc[e] \in {"markCompleted", "markDropped"} /\ MarkCompleted(job[e])
  \/ pc[e] = "markRetry" /\ SetState(job[e], "retry")
  \/ pc[e] = "markDLQ" /\ SetState(job[e], "dlq")

\* MarkDLQ's, MarkRetry's and MarkCompleted's write is lost, or MarkCompleted's
\* pipeline stops after the HSET, the PEXPIRE or the ZADD.
MarkLost(e) ==
  /\ pc[e] \in {"markCompleted", "markDropped", "markRetry", "markDLQ"}
  /\ \/ UNCHANGED <<meta, ttl, completed>>
     \/ /\ Retained /\ pc[e] \in {"markCompleted", "markDropped"}
        /\ meta' = [meta EXCEPT ![job[e]] = "completed"]
        /\ \/ UNCHANGED <<ttl, completed>>
           \/ ttl' = ttl \cup {job[e]} /\ completed' \in {completed, completed \cup {job[e]}}

\* What a settlement writes once its script has returned: the metadata, the
\* counters.
MarkSettled(e) ==
  /\ MarkState(e)
  /\ Inc(Counters(pc[e]))
  /\ AfterMark(e)
  /\ UNCHANGED <<queueVars, clientVars, histVars>>

\* All of it is best effort: the metadata or the counter is lost.
MarkFails(e) ==
  /\ \/ MarkLost(e) /\ Inc(Counters(pc[e])) /\ stale' = stale \cup {job[e]}
     \/ MarkState(e) /\ UNCHANGED <<count, stale>>
  /\ Fault
  /\ AfterMark(e)
  /\ UNCHANGED <<queueVars, clientVars, submitted, deleted, done, overlapped, overlaps>>

-----------------------------------------------------------------------------
(* CancelHub and the life of the worker. *)

\* Cancelations.Cancel for a message of the channel.
CancelMessage(t) ==
  /\ t \in inbox
  /\ inbox' = inbox \ {t}
  /\ stopped' = stopped \cup ({registry[t]} \cap Executors)
  /\ UNCHANGED <<queueVars, metaVars, marker, registry, execVars, clientVars, histVars>>

Start ==
  /\ worker = "down"
  /\ worker' = "up"
  /\ UNCHANGED <<queueVars, metaVars, cancelVars, pc, job, clientVars, histVars>>

Busy == {e \in Executors : pc[e] # "idle"}

\* Mutant: the contexts of running handlers are left alone.
StopWaiting ==
  /\ worker = "up"
  /\ Fault
  /\ worker' = "stopping"
  /\ UNCHANGED <<queueVars, metaVars, cancelVars, pc, job, clientVars, submitted, deleted, done, stale,
                 overlapped, overlaps>>

\* Both contexts are cancelled before Stop waits: the handlers are told at once.
Stop ==
  /\ worker = "up"
  /\ Fault
  /\ worker' = "stopping"
  /\ stopped' = stopped \cup Busy
  /\ UNCHANGED <<queueVars, metaVars, marker, registry, inbox, pc, job, clientVars,
                 submitted, deleted, done, stale, overlapped, overlaps>>

ProcessEnds(hurt) ==
  /\ worker' = "down"
  /\ pc' = [e \in Executors |-> "idle"]
  /\ job' = [e \in Executors |-> NoTask]
  /\ registry' = [t \in Tasks |-> NoExec]
  /\ stopped' = {} /\ inbox' = {}
  /\ stale' = stale \cup hurt
  /\ UNCHANGED <<queueVars, metaVars, marker, clientVars, submitted, deleted, done, overlapped, overlaps>>

\* Stop returns once every executor has left.
Stopped ==
  /\ worker = "stopping"
  /\ Busy = {}
  /\ ProcessEnds({})
  /\ UNCHANGED faults

\* The process dies, or the shutdown timeout passes before its executors end.
Crash ==
  /\ worker # "down"
  /\ Fault
  /\ ProcessEnds({job[e] : e \in Busy})

-----------------------------------------------------------------------------

\* What an executor does next whatever its handler does.
Step(e) ==
  \/ Gate(e) \/ StateCancelled(e) \/ StateActive(e) \/ PollCancelledMarker(e)
  \/ Settle(e) \/ MarkSettled(e)

Next ==
  \/ \E t \in Tasks :
       \/ Enqueue(t) \/ Put(t) \/ PutFails(t) \/ CancelTask(t) \/ DeleteActiveTask(t)
       \/ Promote(t) \/ CancelMessage(t) \/ ExpireCompleted(t)
       \/ \E e \in Executors : Fetch(e, t) \/ Reclaim(e, t)
  \/ \E e \in Executors :
       \/ Step(e) \/ GateFails(e) \/ HandlerReturns(e)
       \/ ScriptFails(e) \/ ReplyLost(e) \/ MarkFails(e)
  \/ \E d \in toDelete : RemoveActiveTask(d) \/ RemoveFails(d)
  \/ Start \/ Stop \/ Stopped \/ Crash

Spec == Init /\ [][Next]_vars

\* Goroutines are scheduled, a worker that is down is started again, the
\* scheduler and the janitor run; a handler returns if its context is
\* cancelled, and otherwise need not.
Fairness ==
  /\ \A e \in Executors :
       /\ WF_vars(Step(e))
       /\ WF_vars(e \in stopped /\ HandlerReturns(e))
  /\ \A t \in Tasks :
       /\ WF_vars(Promote(t))
       /\ WF_vars(\E e \in Executors : Fetch(e, t))
       /\ WF_vars(\E e \in Executors : Executing(t) = {} /\ Reclaim(e, t))
  /\ WF_vars(Start \/ Stopped)

FairSpec == Spec /\ Fairness

-----------------------------------------------------------------------------
(* Properties. *)

\* A moment comes when no handler of a cancelled task runs, even if the message
\* is lost or finds another execution of the task in the registry, or none.
CancelTakesEffect ==
  \A t \in Tasks :
    (t \in marker /\ \E e \in Executing(t) : pc[e] = "run") ~> ~(\E e \in Executing(t) : pc[e] = "run")

\* A stopping worker becomes idle: no handler is left that was not told.
StopEnds == (worker = "stopping") ~> (worker = "down")

\* A task that DeleteActiveTask has removed from the stream is gone for good in
\* the end, or dead lettered: its own execution may schedule it again, or have
\* done so before the entry was removed, but then the marker stops it at the
\* gate.  A call that could not set the marker is excepted.
DeletedActiveEnds ==
  \A t \in Tasks : t \in deleted ~> ~(t \in queued \cup pel \cup delayed \/ Executing(t) # {})

\* The registry holds no context of an execution that has ended, whatever
\* executions of a task overlap in it.
RegistryLive ==
  \A t \in Tasks : registry[t] \in Executors => job[registry[t]] = t

MetaAgrees ==
  \A t \in Tasks \ (stale \cup overlapped) :
    Executing(t) = {} /\ toPut[t] = "none" =>
      /\ t \in dlq => meta[t] = "dlq"
      /\ t \in delayed => meta[t] \in {"delayed", "retry"}
      /\ t \in done => meta[t] = "none" \/ (meta[t] = "completed" /\ t \in ttl)

CountedOnce ==
  overlapped = {} => count["completed"] + count["dlq"] <= Cardinality(Tasks)

\* What the metadata says of a task agrees with where the task is, once nobody
\* works on it: a task in the DLQ has state dlq, a delayed one delayed or retry,
\* and of a completed one nothing is left that does not expire.  After a crash,
\* a lost or a late write the record is wrong only until the next execution of
\* the task that has it alone sets it right.  Unless executions overlap, a task
\* is counted once at most, as completed or as failed, whatever crashes, retries
\* and deletions it goes through.
RecordsAgree == MetaAgrees /\ CountedOnce

=============================================================================
