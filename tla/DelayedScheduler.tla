--------------------------- MODULE DelayedScheduler ---------------------------
(***************************************************************************)
(* The delayed schedulers of one queue against the clock: the adaptive     *)
(* sleep, the wakeup messages that preempt it, the promotion in batches    *)
(* under the stream's hard limit, and the calls on scheduled tasks that    *)
(* race with it (ListScheduledTasks, RunScheduledTask,                     *)
(* DeleteScheduledTask).  Several nodes run a scheduler for one queue.     *)
(*                                                                         *)
(* A Redis command or script is one step and takes no time on this clock,  *)
(* so the clock waits for whatever is ready to run; only sleeping and the  *)
(* jitter take time.  Instants are relative to the clock: 0 is now or      *)
(* past, and a tick brings every later one closer.  Workers are reduced to *)
(* what they do to a task and its lock (TaskQueue has them in full), cron  *)
(* members are in CronJobs.                                                *)
(***************************************************************************)
EXTENDS Naturals, FiniteSets

CONSTANTS
  Tasks,         \* task IDs
  UniqueTasks,   \* those enqueued with the one UniqueKey
  Scope,         \* their UniqueScope
  NoTask,        \* the lock is free
  Schedulers,    \* nodes that run delayedScheduler.Run
  Admins,        \* callers of the scheduled task API
  Delays,        \* bound: how far ahead a task may be scheduled
  MaxSleep,      \* maxSleep, 10 s
  MinSleep,      \* minSleep, 1 ms
  MaxJitter,     \* the largest jitter, 50 ms
  PollInterval,  \* the sleep after a failed peek
  BatchSize,     \* batchSize, 100
  HardLimit,     \* EnqueueHardLimit, 0 is off
  MaxRetries,    \* bound: failed executions of a task
  MaxFaults      \* bound: crashes, disconnections and failed calls

Scopes == {"UntilSucceeded", "UntilStart", "UntilSuccess"}

ASSUME SchedulerAssumption ==
  /\ NoTask \notin Tasks
  /\ UniqueTasks \subseteq Tasks
  /\ Scope \in Scopes
  /\ IsFiniteSet(Tasks)
  /\ Delays \subseteq Nat
  /\ {MaxSleep, MinSleep, PollInterval, BatchSize} \subseteq Nat \ {0}
  /\ {MaxJitter, HardLimit, MaxRetries, MaxFaults} \subseteq Nat
  /\ MinSleep <= MaxSleep

VARIABLES
  delayed,  \* tasks in the delayed ZSET
  score,    \* the run time of each of them
  retry,    \* Task.Retry: part of a member's bytes
  stream,   \* how many entries of each task the stream has
  running,  \* tasks a worker executes
  lock,     \* the unique lock
  toNotify, \* run times added and not published yet
  spc,      \* where each scheduler is
  timer,    \* when its sleep or its jitter ends
  inbox,    \* run times in its wakeup channel
  sub,      \* its subscription: none yet, up, or cut off
  apc,      \* where each admin call is
  target,   \* the member the call has found
  accepted, \* history: tasks that were enqueued
  deleted,  \* history: tasks whose deletion was reported as done
  aware,    \* history: tasks each scheduler has seen or been told of in time
  late,     \* history: how long each due task has waited
  faults    \* history: faults so far

taskVars  == <<delayed, score, retry, stream, running, lock, toNotify>>
schedVars == <<spc, timer, inbox, sub>>
adminVars == <<apc, target>>
histVars  == <<accepted, deleted, aware, late, faults>>
vars == <<taskVars, schedVars, adminVars, histVars>>

Max2(a, b) == IF a >= b THEN a ELSE b
Min2(a, b) == IF a <= b THEN a ELSE b

TypeOK ==
  /\ delayed \subseteq Tasks /\ running \subseteq Tasks
  /\ toNotify \subseteq Nat
  /\ score \in [Tasks -> Nat]
  /\ retry \in [Tasks -> 0 .. MaxRetries]
  /\ stream \in [Tasks -> Nat]
  /\ lock \in UniqueTasks \cup {NoTask}
  /\ spc \in [Schedulers -> {"down", "promote", "peek", "sleep", "jitter"}]
  /\ timer \in [Schedulers -> Nat]
  /\ inbox \in [Schedulers -> SUBSET Nat]
  /\ sub \in [Schedulers -> {"none", "up", "cut"}]
  /\ apc \in [Admins -> {"idle", "run", "delete", "unlock"}]
  /\ target \in [Admins -> [task : Tasks \cup {NoTask}, retry : 0 .. MaxRetries]]
  /\ accepted \subseteq Tasks /\ deleted \subseteq accepted
  /\ aware \in [Schedulers -> SUBSET Tasks]
  /\ late \in [Tasks -> Nat]
  /\ faults \in 0 .. MaxFaults

NoTarget == [task |-> NoTask, retry |-> 0]

Init ==
  /\ delayed = {} /\ running = {} /\ toNotify = {}
  /\ score = [t \in Tasks |-> 0]
  /\ retry = [t \in Tasks |-> 0]
  /\ stream = [t \in Tasks |-> 0]
  /\ lock = NoTask
  /\ spc = [s \in Schedulers |-> "down"]
  /\ timer = [s \in Schedulers |-> 0]
  /\ inbox = [s \in Schedulers |-> {}]
  /\ sub = [s \in Schedulers |-> "none"]
  /\ apc = [a \in Admins |-> "idle"]
  /\ target = [a \in Admins |-> NoTarget]
  /\ accepted = {} /\ deleted = {}
  /\ aware = [s \in Schedulers |-> {}]
  /\ late = [t \in Tasks |-> 0]
  /\ faults = 0

Fault == faults < MaxFaults /\ faults' = faults + 1

Unfinished == delayed \cup running \cup {t \in Tasks : stream[t] > 0}

-----------------------------------------------------------------------------
(* Clients and workers. *)

\* The entries, as pairs, for their number; those being executed stay in the
\* stream until they are settled.
XLen ==
  Cardinality({e \in Tasks \X (1 .. 2) : e[2] <= stream[e[1]]}) + Cardinality(running)

Full == HardLimit > 0 /\ XLen >= HardLimit

\* A new task and its lock.
Accept(t) ==
  /\ t \notin accepted
  /\ accepted' = accepted \cup {t}
  /\ t \in UniqueTasks => lock \in {NoTask, t}
  /\ lock' = IF t \in UniqueTasks THEN t ELSE lock

Release(t) == lock' = IF lock = t THEN NoTask ELSE lock

\* A ZADD of the task; its wakeup is published by the step that follows.
AddDelayed(t, at) ==
  /\ delayed' = delayed \cup {t}
  /\ score' = [score EXCEPT ![t] = at]
  /\ toNotify' = toNotify \cup {at}
  /\ UNCHANGED <<aware, late>>

\* A ZREM of tasks, and the history of their waiting forgotten.
RemDelayed(S) ==
  /\ delayed' = delayed \ S
  /\ score' = [t \in Tasks |-> IF t \in S THEN 0 ELSE score[t]]
  /\ aware' = [s \in Schedulers |-> aware[s] \ S]

NotLate(S) == late' = [t \in Tasks |-> IF t \in S THEN 0 ELSE late[t]]

EnqueueAt(t, d) ==
  /\ Accept(t)
  /\ AddDelayed(t, d)
  /\ UNCHANGED <<retry, stream, running, schedVars, adminVars, deleted, faults>>

Enqueue(t) ==
  /\ ~Full
  /\ Accept(t)
  /\ stream' = [stream EXCEPT ![t] = @ + 1]
  /\ UNCHANGED <<delayed, score, retry, running, toNotify, schedVars, adminVars,
                 deleted, aware, late, faults>>

Publish(at) ==
  /\ toNotify' = toNotify \ {at}
  /\ inbox' = [s \in Schedulers |-> IF sub[s] = "up" THEN inbox[s] \cup {at} ELSE inbox[s]]
  /\ aware' = [s \in Schedulers |->
                 IF spc[s] # "down" /\ sub[s] # "cut"
                 THEN aware[s] \cup {t \in delayed : score[t] = at /\ late[t] = 0}
                 ELSE aware[s]]
  /\ UNCHANGED <<delayed, score, retry, stream, running, lock, spc, timer, sub,
                 adminVars, accepted, deleted, late, faults>>

\* The process dies after the script, or PUBLISH fails and is ignored.
LosePublish(at) ==
  /\ Fault
  /\ toNotify' = toNotify \ {at}
  /\ UNCHANGED <<delayed, score, retry, stream, running, lock, schedVars,
                 adminVars, accepted, deleted, aware, late>>

Start(t) ==
  /\ stream[t] > 0
  /\ t \notin running
  /\ stream' = [stream EXCEPT ![t] = @ - 1]
  /\ running' = running \cup {t}
  /\ IF Scope = "UntilStart" THEN Release(t) ELSE UNCHANGED lock
  /\ UNCHANGED <<delayed, score, retry, toNotify, schedVars, adminVars, histVars>>

\* CompleteTask, or MoveToDLQ.
Settle(t) ==
  /\ t \in running
  /\ running' = running \ {t}
  /\ Release(t)
  /\ UNCHANGED <<delayed, score, retry, stream, toNotify, schedVars, adminVars, histVars>>

Fail(t, d) ==
  /\ t \in running
  /\ retry[t] < MaxRetries
  /\ running' = running \ {t}
  /\ retry' = [retry EXCEPT ![t] = @ + 1]
  /\ IF Scope = "UntilSuccess" THEN Release(t) ELSE UNCHANGED lock
  /\ AddDelayed(t, d)
  /\ UNCHANGED <<stream, schedVars, adminVars, accepted, deleted, faults>>

-----------------------------------------------------------------------------
(* delayedScheduler.Run. *)

\* Mutant: the subscription is made after the first promotion.
SubscribeLate(s) ==
  /\ spc[s] = "down"
  /\ spc' = [spc EXCEPT ![s] = "promote"]
  /\ inbox' = [inbox EXCEPT ![s] = {}]
  /\ UNCHANGED <<taskVars, timer, sub, adminVars, histVars>>

\* Subscribe, then the first promotion.
Subscribe(s) ==
  /\ spc[s] = "down"
  /\ spc' = [spc EXCEPT ![s] = "promote"]
  /\ sub' = [sub EXCEPT ![s] = "up"]
  /\ inbox' = [inbox EXCEPT ![s] = {}]
  /\ UNCHANGED <<taskVars, timer, adminVars, histVars>>

Room(n) == IF HardLimit = 0 THEN n ELSE IF Full THEN 0 ELSE Min2(n, HardLimit - XLen)

\* What ZRANGEBYSCORE 0 now LIMIT 0 n returns; ties in any order.
FirstDue(S) ==
  LET due == {t \in delayed : score[t] = 0}
  IN  /\ S \subseteq due
      /\ Cardinality(S) = Room(Min2(BatchSize, Cardinality(due)))
      /\ \A t \in S, u \in due \ S : score[t] <= score[u]

\* One script; a full batch is followed by another, and what a full stream
\* leaves behind starts to wait anew.
PromoteReadyTasks(s) ==
  /\ spc[s] = "promote"
  /\ \E S \in SUBSET delayed :
       /\ FirstDue(S)
       /\ RemDelayed(S)
       /\ stream' = [t \in Tasks |-> IF t \in S THEN stream[t] + 1 ELSE stream[t]]
       /\ spc' = [spc EXCEPT ![s] = IF Cardinality(S) < BatchSize THEN "peek" ELSE "promote"]
       /\ NotLate(IF Cardinality(S) < BatchSize THEN Tasks ELSE S)
  /\ UNCHANGED <<retry, running, lock, toNotify, timer, inbox, sub, adminVars,
                 accepted, deleted, faults>>

PromoteFails(s) ==
  /\ spc[s] = "promote"
  /\ Fault
  /\ spc' = [spc EXCEPT ![s] = "peek"]
  /\ NotLate(Tasks)
  /\ UNCHANGED <<taskVars, timer, inbox, sub, adminVars, accepted, deleted, aware>>

CalculateSleep ==
  IF delayed = {} THEN MaxSleep
  ELSE LET earliest == CHOOSE x \in {score[t] : t \in delayed} : \A t \in delayed : x <= score[t]
       IN  IF earliest = 0 THEN MinSleep ELSE Min2(earliest, MaxSleep)

Sleep(s, d) ==
  /\ spc' = [spc EXCEPT ![s] = "sleep"]
  /\ timer' = [timer EXCEPT ![s] = d]

\* timer and nextWakeupMs are the same instant.
Peek(s) ==
  /\ spc[s] = "peek"
  /\ Sleep(s, CalculateSleep)
  /\ aware' = [aware EXCEPT ![s] = @ \cup delayed]
  /\ UNCHANGED <<taskVars, inbox, sub, adminVars, accepted, deleted, late, faults>>

PeekFails(s) ==
  /\ spc[s] = "peek"
  /\ Fault
  /\ Sleep(s, PollInterval)
  /\ aware' = [aware EXCEPT ![s] = {}]
  /\ UNCHANGED <<taskVars, inbox, sub, adminVars, accepted, deleted, late>>

TimerFires(s) ==
  /\ spc[s] \in {"sleep", "jitter"}
  /\ timer[s] = 0
  /\ spc' = [spc EXCEPT ![s] = "promote"]
  /\ UNCHANGED <<taskVars, timer, inbox, sub, adminVars, histVars>>

\* A time after the next wakeup is ignored.
Receive(s) ==
  /\ spc[s] = "sleep"
  /\ \E at \in inbox[s] :
       /\ inbox' = [inbox EXCEPT ![s] = @ \ {at}]
       /\ IF at >= timer[s]
          THEN UNCHANGED <<spc, timer>>
          ELSE \E j \in 0 .. MaxJitter :
                 /\ spc' = [spc EXCEPT ![s] = "jitter"]
                 /\ timer' = [timer EXCEPT ![s] = j]
  /\ UNCHANGED <<taskVars, sub, adminVars, histVars>>

\* The connection is lost: what is published meanwhile does not arrive.
Disconnect(s) ==
  /\ sub[s] = "up"
  /\ Fault
  /\ sub' = [sub EXCEPT ![s] = "cut"]
  /\ UNCHANGED <<taskVars, spc, timer, inbox, adminVars, accepted, deleted, aware, late>>

\* The channel is closed and empty: subscribe again and keep the timer.
Resubscribe(s) ==
  /\ spc[s] = "sleep"
  /\ sub[s] # "up"
  /\ inbox[s] = {}
  /\ sub' = [sub EXCEPT ![s] = "up"]
  /\ UNCHANGED <<taskVars, spc, timer, inbox, adminVars, histVars>>

Crash(s) ==
  /\ spc[s] # "down"
  /\ Fault
  /\ spc' = [spc EXCEPT ![s] = "down"]
  /\ sub' = [sub EXCEPT ![s] = "none"]
  /\ inbox' = [inbox EXCEPT ![s] = {}]
  /\ timer' = [timer EXCEPT ![s] = 0]
  /\ aware' = [aware EXCEPT ![s] = {}]
  /\ UNCHANGED <<taskVars, adminVars, accepted, deleted, late>>

-----------------------------------------------------------------------------
(* The scheduled task API: a scan of the ZSET, then a script or a ZREM. *)

\* ListScheduledTasks: the first limit members by score.
ListScheduledTasks(limit, L) ==
  /\ L \subseteq delayed
  /\ Cardinality(L) = Min2(limit, Cardinality(delayed))
  /\ \A t \in L, u \in delayed \ L : score[t] <= score[u]

\* The scan looks at every member, as a list without a limit does.
Find(a, t, op) ==
  /\ apc[a] = "idle"
  /\ \E L \in SUBSET delayed : ListScheduledTasks(Cardinality(Tasks), L) /\ t \in L
  /\ apc' = [apc EXCEPT ![a] = op]
  /\ target' = [target EXCEPT ![a] = [task |-> t, retry |-> retry[t]]]
  /\ UNCHANGED <<taskVars, schedVars, histVars>>

\* The member's bytes hold its retry count.
Present(m) == m.task \in delayed /\ retry[m.task] = m.retry

Return(a) ==
  /\ apc' = [apc EXCEPT ![a] = "idle"]
  /\ target' = [target EXCEPT ![a] = NoTarget]

\* Mutant: the entry is added without looking at what ZREM returned.
ForcePromoteUnchecked(a) ==
  /\ apc[a] = "run"
  /\ ~Full
  /\ LET m == target[a]
     IN  /\ RemDelayed({m.task} \cap delayed)
         /\ NotLate({m.task})
         /\ stream' = [stream EXCEPT ![m.task] = @ + 1]
  /\ Return(a)
  /\ UNCHANGED <<retry, running, lock, toNotify, schedVars, accepted, deleted, faults>>

\* force_promote_member.lua: 1 moved.
ForcePromoteMember(a) ==
  /\ apc[a] = "run"
  /\ ~Full
  /\ Present(target[a])
  /\ RemDelayed({target[a].task})
  /\ NotLate({target[a].task})
  /\ stream' = [stream EXCEPT ![target[a].task] = @ + 1]
  /\ Return(a)
  /\ UNCHANGED <<retry, running, lock, toNotify, schedVars, accepted, deleted, faults>>

\* -2 the stream is full, 0 the member is gone.
ForcePromoteRefused(a) ==
  /\ apc[a] = "run"
  /\ Full \/ ~Present(target[a])
  /\ Return(a)
  /\ UNCHANGED <<taskVars, schedVars, histVars>>

\* Mutant: the deletion is reported whatever ZREM returned.
DeleteUnchecked(a) ==
  /\ apc[a] = "delete"
  /\ LET t == target[a].task
     IN  /\ IF Present(target[a]) THEN RemDelayed({t}) /\ NotLate({t})
            ELSE UNCHANGED <<delayed, score, aware, late>>
         /\ deleted' = deleted \cup {t}
         /\ IF t \in UniqueTasks
            THEN apc' = [apc EXCEPT ![a] = "unlock"] /\ UNCHANGED target
            ELSE Return(a)
  /\ UNCHANGED <<retry, stream, running, lock, toNotify, schedVars, accepted, faults>>

\* ZREM removed the member.
DeleteMember(a) ==
  /\ apc[a] = "delete"
  /\ Present(target[a])
  /\ LET t == target[a].task
     IN  /\ RemDelayed({t})
         /\ NotLate({t})
         /\ deleted' = deleted \cup {t}
         /\ IF t \in UniqueTasks
            THEN apc' = [apc EXCEPT ![a] = "unlock"] /\ UNCHANGED target
            ELSE Return(a)
  /\ UNCHANGED <<retry, stream, running, lock, toNotify, schedVars, accepted, faults>>

\* ZREM returned 0.
DeleteGone(a) ==
  /\ apc[a] = "delete"
  /\ ~Present(target[a])
  /\ Return(a)
  /\ UNCHANGED <<taskVars, schedVars, histVars>>

\* DEL of the lock key, whoever owns it.
DeleteLock(a) ==
  /\ apc[a] = "unlock"
  /\ lock' = NoTask
  /\ Return(a)
  /\ UNCHANGED <<delayed, score, retry, stream, running, toNotify, schedVars, histVars>>

-----------------------------------------------------------------------------

Up(s) == spc[s] # "down"

\* A scheduler that is up has nothing left to do at this instant.
Waits(s) ==
  /\ spc[s] \in {"sleep", "jitter"}
  /\ timer[s] > 0
  /\ spc[s] = "sleep" => inbox[s] = {}

Closer(x) == IF x = 0 THEN 0 ELSE x - 1

Tick ==
  /\ \A s \in Schedulers : Up(s) => Waits(s)
  /\ toNotify = {}
  /\ score' = [t \in Tasks |-> Closer(score[t])]
  /\ timer' = [s \in Schedulers |-> Closer(timer[s])]
  /\ inbox' = [s \in Schedulers |-> {Closer(at) : at \in inbox[s]}]
  /\ late' = [t \in Tasks |->
                IF t \in delayed /\ score[t] = 0 /\ ~Full /\ \E s \in Schedulers : Up(s)
                THEN late[t] + 1 ELSE late[t]]
  /\ UNCHANGED <<delayed, retry, stream, running, lock, toNotify, spc, sub, adminVars,
                 accepted, deleted, aware, faults>>

Next ==
  \/ Tick
  \/ \E t \in Tasks :
       \/ Enqueue(t) \/ Start(t) \/ Settle(t)
       \/ \E d \in Delays : EnqueueAt(t, d) \/ Fail(t, d)
  \/ \E at \in toNotify : Publish(at) \/ LosePublish(at)
  \/ \E s \in Schedulers :
       \/ Subscribe(s) \/ PromoteReadyTasks(s) \/ PromoteFails(s) \/ Peek(s) \/ PeekFails(s)
       \/ TimerFires(s) \/ Receive(s) \/ Disconnect(s) \/ Resubscribe(s) \/ Crash(s)
  \/ \E a \in Admins :
       \/ \E t \in Tasks, op \in {"run", "delete"} : Find(a, t, op)
       \/ ForcePromoteMember(a) \/ ForcePromoteRefused(a)
       \/ DeleteMember(a) \/ DeleteGone(a) \/ DeleteLock(a)

Spec == Init /\ [][Next]_vars

-----------------------------------------------------------------------------
(* Properties. *)

\* How long a task may have to wait for a timer that was set to d: up to one
\* tick before it fires a wakeup may replace it by the jitter.
Overrun(d) == d - 1 + Max2(1, MaxJitter)

\* A due task that a running scheduler has seen, or has been told of by the
\* wakeup message, waits no longer than the shortest sleep and the jitter: no
\* order of adding, publishing, promoting and peeking loses a wakeup.  Whatever
\* wakeups are lost on the way, it waits no longer than the longest sleep and
\* the jitter: calculateSleep caps the timer.  The wait starts anew when a
\* promotion fails or meets a full stream.
LatenessBounded ==
  \A t \in delayed :
    late[t] <= IF \E s \in Schedulers : Up(s) /\ t \in aware[s]
               THEN Overrun(MinSleep)
               ELSE Overrun(Max2(MaxSleep, PollInterval))

\* A scheduler, a forced promotion and a deletion that race for one member never
\* give a task two stream entries, and a task whose deletion
\* DeleteScheduledTask has reported is nowhere and never runs.
OneEntry ==
  /\ \A t \in deleted : t \notin Unfinished
  /\ \A t \in Tasks : stream[t] <= 1
  /\ \A t \in delayed : t \notin running /\ stream[t] = 0
  /\ \A t \in running : stream[t] = 0

\* Of the tasks of a unique key one at most is unfinished while locks do not
\* expire (scope UntilSucceeded), deletions included.
UniqueUnfinished ==
  Scope = "UntilSucceeded" => Cardinality(Unfinished \cap UniqueTasks) <= 1

=============================================================================
