------------------------- MODULE TaskExecutionProofs -------------------------
(***************************************************************************)
(* For any tasks, executors, retries, overlaps and faults: the registry of *)
(* cancel functions never holds the context of an execution that has ended *)
(* or has gone on to another task, so a cancel message never stops the     *)
(* handler of a task it does not name; and the metadata and the counters   *)
(* agree with where the tasks are.                                         *)
(***************************************************************************)
EXTENDS TaskExecution, FiniteSetTheorems, TLAPS

\* The part of TypeOK the proofs need.
Shape ==
  /\ registry \in [Tasks -> Executors \cup {NoExec}]
  /\ pc \in [Executors -> Stages]
  /\ job \in [Executors -> Tasks \cup {NoTask}]

\* The stages between Cancelations.Add and the deferred Delete.
Registered == {"run", "complete", "retry", "dlq", "markCompleted", "markRetry", "markDLQ"}

\* Who is registered is still between the two.
HolderRegistered == \A t \in Tasks : registry[t] \in Executors => pc[registry[t]] \in Registered

\* Who is busy has a task.
BusyHasTask == \A e \in Executors : pc[e] # "idle" => job[e] \in Tasks

RInv == Shape /\ BusyHasTask /\ HolderRegistered /\ RegistryLive

\* Executors are numbered from 1, so none of them is NoExec.
LEMMA NoExecIsNone == NoExec \notin Executors
BY ExecutionAssumption DEF NoExec, Executors

\* The registry is empty at first.
LEMMA Initially == Init => RInv
BY NoExecIsNone DEF Init, RInv, Shape, BusyHasTask, HolderRegistered, RegistryLive, Stages

\* Steps of clients, of the scheduler, of the subscriber: no execution moves.
LEMMA Aside ==
  ASSUME RInv, UNCHANGED <<registry, pc, job>>
  PROVE  RInv'
BY DEF RInv, Shape, BusyHasTask, HolderRegistered, RegistryLive

\* A stage follows another one within an execution.
LEMMA GotoStep ==
  ASSUME RInv, NEW e \in Executors, NEW stage \in Stages \ {"idle"}, Goto(e, stage),
         registry' = registry, pc[e] # "idle",
         pc[e] \in Registered => stage \in Registered
  PROVE  RInv'
BY DEF RInv, Shape, BusyHasTask, HolderRegistered, RegistryLive, Goto

\* An execution that was not registered begins or ends.
LEMMA JobStep ==
  ASSUME RInv, NEW e \in Executors, NEW stage \in Stages, NEW j \in Tasks \cup {NoTask},
         stage # "idle" => j \in Tasks,
         pc' = [pc EXCEPT ![e] = stage], job' = [job EXCEPT ![e] = j],
         registry' = registry, pc[e] \notin Registered
  PROVE  RInv'
BY DEF RInv, Shape, BusyHasTask, HolderRegistered, RegistryLive

\* The deferred Delete clears the entry of the task, whoever it names: no other
\* task's entry names this executor.
LEMMA LeaveStep ==
  ASSUME RInv, NEW e \in Executors, pc[e] # "idle", Leave(e)
  PROVE  RInv'
BY NoExecIsNone DEF RInv, Shape, BusyHasTask, HolderRegistered, RegistryLive, Leave, Stages

\* The process ends and its registry with it.
LEMMA EndStep ==
  ASSUME NEW hurt, ProcessEnds(hurt)
  PROVE  RInv'
BY NoExecIsNone DEF ProcessEnds, RInv, Shape, BusyHasTask, HolderRegistered, RegistryLive, Stages

\* Every step an executor takes with a message in hand.
LEMMA ExecutorStep ==
  ASSUME RInv, NEW e \in Executors,
         \/ Step(e) \/ GateFails(e) \/ HandlerReturns(e)
         \/ ScriptFails(e) \/ ReplyLost(e) \/ MarkFails(e)
  PROVE  RInv'
<1> USE DEF Stages, Registered
<1>1. CASE Gate(e) \/ GateFails(e) \/ HandlerReturns(e) \/ Settle(e)
  <2>1. PICK stage \in Stages \ {"idle"} :
          Goto(e, stage) /\ (pc[e] \in Registered => stage \in Registered)
    BY <1>1 DEF Gate, GateFails, HandlerReturns, Settle, Script, MarkAfter
  <2>2. registry' = registry /\ pc[e] # "idle"
    BY <1>1 DEF Gate, GateFails, HandlerReturns, Settle, Script, cancelVars
  <2> QED
    BY <2>1, <2>2, GotoStep
<1>2. CASE StateCancelled(e)
  <2>1. /\ pc[e] \notin Registered /\ registry' = registry
        /\ pc' = [pc EXCEPT ![e] = "idle"] /\ job' = [job EXCEPT ![e] = NoTask]
    BY <1>2 DEF StateCancelled
  <2> QED
    BY <2>1, JobStep
<1>3. CASE StateActive(e)
  BY <1>3 DEF StateActive, Goto, RInv, Shape, BusyHasTask, HolderRegistered, RegistryLive
<1>4. CASE PollCancelledMarker(e)
  BY <1>4, Aside DEF PollCancelledMarker, execVars
<1>5. CASE MarkSettled(e) \/ MarkFails(e)
  <2>1. pc[e] # "idle" /\ (Leave(e) \/ (pc[e] = "markDropped" /\ Goto(e, "cancelled") /\ registry' = registry))
    BY <1>5 DEF MarkSettled, MarkFails, MarkState, MarkLost, AfterMark, cancelVars
  <2> QED
    BY <2>1, LeaveStep, GotoStep
<1>6. CASE ScriptFails(e) \/ ReplyLost(e)
  <2>1. pc[e] # "idle" /\ (Leave(e) \/ (pc[e] = "drop" /\ Goto(e, "cancelled") /\ registry' = registry))
    BY <1>6 DEF ScriptFails, ReplyLost, Script, GiveUp, cancelVars
  <2> QED
    BY <2>1, LeaveStep, GotoStep
<1> QED
  BY <1>1, <1>2, <1>3, <1>4, <1>5, <1>6 DEF Step

\* The invariant is inductive.
LEMMA Inductive == RInv /\ [Next]_vars => RInv'
<1> SUFFICES ASSUME RInv, [Next]_vars PROVE RInv'
  OBVIOUS
<1>1. CASE UNCHANGED vars
  BY <1>1, Aside DEF vars, cancelVars, execVars
<1>2. ASSUME NEW t \in Tasks,
             \/ Enqueue(t) \/ Put(t) \/ PutFails(t) \/ CancelTask(t) \/ DeleteActiveTask(t)
             \/ Promote(t) \/ CancelMessage(t) \/ ExpireCompleted(t)
      PROVE  RInv'
  <2>1. UNCHANGED <<registry, pc, job>>
    BY <1>2 DEF Enqueue, Put, PutFails, CancelTask, DeleteActiveTask, Promote, CancelMessage,
                ExpireCompleted, cancelVars, execVars
  <2> QED
    BY <2>1, Aside
<1>3. ASSUME NEW t \in Tasks, NEW e \in Executors, Fetch(e, t) \/ Reclaim(e, t)
      PROVE  RInv'
  <2>1. /\ pc[e] \notin Registered /\ registry' = registry
        /\ pc' = [pc EXCEPT ![e] = "gate"] /\ job' = [job EXCEPT ![e] = t]
    BY <1>3 DEF Fetch, Reclaim, Take, Registered, cancelVars
  <2>2. "gate" \in Stages
    BY DEF Stages
  <2> QED
    BY <2>1, <2>2, JobStep
<1>4. ASSUME NEW e \in Executors,
             \/ Step(e) \/ GateFails(e) \/ HandlerReturns(e)
             \/ ScriptFails(e) \/ ReplyLost(e) \/ MarkFails(e)
      PROVE  RInv'
  BY <1>4, ExecutorStep
<1>7. ASSUME NEW d \in toDelete, RemoveActiveTask(d) \/ RemoveFails(d)
      PROVE  RInv'
  BY <1>7, Aside DEF RemoveActiveTask, RemoveFails, cancelVars, execVars
<1>5. CASE Start \/ Stop
  BY <1>5, Aside DEF Start, Stop, cancelVars
<1>6. CASE Stopped \/ Crash
  BY <1>6, EndStep DEF Stopped, Crash
<1> QED
  BY <1>1, <1>2, <1>3, <1>4, <1>5, <1>6, <1>7 DEF Next

\* The entry of a task in Cancelations is empty or the cancel function of an
\* execution of that task which has not ended, although two executions of a
\* task overwrite and delete each other's entry.
THEOREM RegistryHoldsTheLiving == Spec => []RegistryLive
<1>1. RInv => RegistryLive
  BY DEF RInv
<1> QED
  BY <1>1, Initially, Inductive, PTL DEF Spec

\* What the subscriber does with a cancel message stops executions of the task
\* it names and no other.
THEOREM CancelHitsItsTask ==
  Spec => [][\A t \in Tasks : CancelMessage(t) => stopped' \ stopped \subseteq Executing(t)]_vars
<1>1. RInv => \A t \in Tasks : CancelMessage(t) => stopped' \ stopped \subseteq Executing(t)
  BY DEF RInv, RegistryLive, CancelMessage, Executing
<1>2. RInv /\ [Next]_vars
      => [\A t \in Tasks : CancelMessage(t) => stopped' \ stopped \subseteq Executing(t)]_vars
  BY <1>1
<1> QED
  BY <1>2, Initially, Inductive, PTL DEF Spec

-----------------------------------------------------------------------------
(* What the metadata and the counters say of a task. *)

\* The rest of TypeOK that the proofs need; an executor without a task is idle,
\* and a task that is anywhere was submitted.
Recorded ==
  /\ queued \subseteq Tasks /\ pel \subseteq Tasks /\ delayed \subseteq Tasks /\ dlq \subseteq Tasks
  /\ done \subseteq Tasks
  /\ meta \in [Tasks -> States]
  /\ count \in [Fields -> Nat]
  /\ toPut \in [Tasks -> {"none", "pending", "delayed"}]
  /\ queued \cup pel \cup delayed \cup dlq \cup done \subseteq submitted
  /\ \A e \in Executors : job[e] \in submitted \cup {NoTask}
  /\ \A e \in Executors : pc[e] = "idle" => job[e] = NoTask

\* The stages before a settlement script.
InHand == {"gate", "drop", "active", "run", "complete", "retry", "dlq"}

Holds(e, t) == job[e] = t /\ pc[e] \in InHand

\* A task is in one place, and in the hands of one executor.
OnlyHere(t) ==
  /\ \A e, d \in Executors : Holds(e, t) /\ Holds(d, t) => e = d
  /\ (t \in pel \/ \E e \in Executors : Holds(e, t)) => t \notin queued \cup delayed \cup done \cup dlq
  /\ t \in queued => t \notin delayed \cup done \cup dlq
  /\ t \in delayed => t \notin done \cup dlq
  /\ t \in done => t \notin dlq

\* So is every task, unless an overlapping reclaim gave it to two executors.
OneHome == \A t \in Tasks \ overlapped : OnlyHere(t)

\* A task whose record is not stale has one execution, which is about to write
\* where the task is.
InOrder(t) ==
  /\ \A e, d \in Executors : job[e] = t /\ job[d] = t => e = d
  /\ \A e \in Executors : job[e] = t =>
       /\ pc[e] \in {"markCompleted", "markDropped"} => t \in done
       /\ pc[e] = "markRetry" => t \notin done \cup dlq
       /\ pc[e] = "markDLQ" => t \in dlq

Orderly == \A t \in Tasks \ (stale \cup overlapped) : InOrder(t)

\* What was counted, and what is about to be.
Completing == {e \in Executors : pc[e] \in {"markCompleted", "markDropped"}}
Failing    == {e \in Executors : pc[e] = "markDLQ"}
Counted ==
  overlapped = {} =>
    /\ count["completed"] + Cardinality(Completing) <= Cardinality(done)
    /\ count["dlq"] + Cardinality(Failing) <= Cardinality(dlq)

RecordInv == Recorded /\ OneHome /\ Orderly /\ MetaAgrees /\ Counted

\* Nothing is recorded at first.
LEMMA RecordInitially == Init => RecordInv
<1> SUFFICES ASSUME Init PROVE RecordInv
  OBVIOUS
<1>0. NoTask \notin Tasks
  BY ExecutionAssumption
<1>1. Recorded
  BY DEF Init, Recorded, States, Fields
<1>2. OneHome /\ Orderly /\ MetaAgrees
  BY <1>0 DEF Init, OneHome, OnlyHere, Holds, InHand, Orderly, InOrder, MetaAgrees
<1>3. Completing = {} /\ Failing = {} /\ done = {} /\ dlq = {} /\ count["completed"] = 0 /\ count["dlq"] = 0
  BY DEF Init, Completing, Failing, Fields
<1>4. Counted
  BY <1>3, FS_EmptySet DEF Counted
<1> QED
  BY <1>1, <1>2, <1>4 DEF RecordInv

\* Tasks and executors are finitely many.
LEMMA AllFinite ==
  ASSUME Recorded
  PROVE  /\ IsFiniteSet(Completing) /\ IsFiniteSet(Failing) /\ IsFiniteSet(done) /\ IsFiniteSet(dlq)
         /\ Cardinality(Completing) \in Nat /\ Cardinality(Failing) \in Nat
         /\ Cardinality(done) \in Nat /\ Cardinality(dlq) \in Nat
<1>1. MaxExecutors \in Nat /\ IsFiniteSet(Tasks)
  BY ExecutionAssumption
<1>2. IsFiniteSet(Executors)
  BY <1>1, FS_Interval DEF Executors
<1>3. Completing \subseteq Executors /\ Failing \subseteq Executors /\ done \subseteq Tasks /\ dlq \subseteq Tasks
  BY DEF Completing, Failing, Recorded
<1>4. IsFiniteSet(Completing) /\ IsFiniteSet(Failing) /\ IsFiniteSet(done) /\ IsFiniteSet(dlq)
  BY <1>1, <1>2, <1>3, FS_Subset
<1> QED
  BY <1>4, FS_CardinalityType

LEMMA FiniteAfter ==
  ASSUME Recorded'
  PROVE  /\ IsFiniteSet(done') /\ IsFiniteSet(dlq')
         /\ Cardinality(done') \in Nat /\ Cardinality(dlq') \in Nat
<1>1. IsFiniteSet(Tasks) /\ done' \subseteq Tasks /\ dlq' \subseteq Tasks
  BY ExecutionAssumption DEF Recorded
<1>2. IsFiniteSet(done') /\ IsFiniteSet(dlq')
  BY <1>1, FS_Subset
<1> QED
  BY <1>2, FS_CardinalityType

\* The counters stay right when nothing is counted and no script has run.
LEMMA CountsStay ==
  ASSUME RecordInv, count' = count, done' = done, dlq' = dlq, overlapped \subseteq overlapped',
         Completing' = Completing, Failing' = Failing
  PROVE  Counted'
BY DEF RecordInv, Recorded, Counted

\* A crash forgets what was about to be counted.
LEMMA CountsForget ==
  ASSUME RecordInv, count' = count, done' = done, dlq' = dlq, overlapped' = overlapped,
         Completing' = {}, Failing' = {}
  PROVE  Counted'
<1>1. Cardinality(Completing') = 0 /\ Cardinality(Failing') = 0
  BY FS_EmptySet
<1>2. Recorded
  BY DEF RecordInv
<1>3. count["completed"] \in Nat /\ count["dlq"] \in Nat
  BY <1>2 DEF Recorded, Fields
<1> QED
  BY <1>1, <1>2, <1>3, AllFinite DEF RecordInv, Counted

\* Steps that leave the executors, the queue and the records alone.
LEMMA RecordAside ==
  ASSUME RecordInv, 
         UNCHANGED <<queued, pel, delayed, dlq, meta, ttl, count, pc, job, toPut, submitted, done, stale,
                     overlapped>>
  PROVE  RecordInv'
BY DEF RecordInv, Recorded, OneHome, OnlyHere, Holds, Orderly, InOrder, MetaAgrees, Executing, Counted,
       Completing, Failing

\* A new task is nowhere else, and its metadata is still to be written.
LEMMA EnqueueRecords ==
  ASSUME RInv, RecordInv, NEW t \in Tasks, Enqueue(t)
  PROVE  RecordInv'
<1> USE DEF Enqueue, metaVars, execVars, histVars
<1>0. /\ UNCHANGED <<pel, dlq, meta, ttl, count, pc, job, done, stale, overlapped>>
      /\ submitted' = submitted \cup {t}
      /\ t \notin queued \cup pel \cup delayed \cup dlq \cup done /\ Executing(t) = {}
      /\ queued' \subseteq queued \cup {t} /\ delayed' \subseteq delayed \cup {t}
      /\ ~(t \in queued' /\ t \in delayed')
      /\ queued \subseteq queued' /\ delayed \subseteq delayed'
  BY ExecutionAssumption DEF Executing, RecordInv, Recorded
<1>00. toPut' \in [Tasks -> {"none", "pending", "delayed"}] /\ toPut'[t] # "none"
      /\ \A u \in Tasks \ {t} : toPut'[u] = toPut[u]
  BY DEF RecordInv, Recorded
<1> USE <1>0, <1>00
<1>1. Recorded'
  BY DEF RecordInv, Recorded
<1>2. OneHome'
  BY DEF RecordInv, OneHome, OnlyHere, Holds, Executing
<1>3. Orderly'
  BY DEF RecordInv, Orderly, InOrder
<1>4. MetaAgrees'
  BY DEF RecordInv, MetaAgrees, Executing
<1>5. Counted'
  BY CountsStay DEF RecordInv, Recorded, Completing, Failing
<1> QED
  BY <1>1, <1>2, <1>3, <1>4, <1>5 DEF RecordInv

\* A client's late write is out of order unless the task is where it says; one
\* that is lost leaves a stale record.
LEMMA PutRecords ==
  ASSUME RInv, RecordInv, NEW t \in Tasks, Put(t) \/ PutFails(t)
  PROVE  RecordInv'
<1>0. /\ UNCHANGED <<queued, pel, delayed, dlq, ttl, count, pc, job, submitted, done, overlapped>>
      /\ toPut[t] \in {"pending", "delayed"}
      /\ meta' = [meta EXCEPT ![t] = toPut[t]] \/ (meta' = meta /\ t \in stale')
      /\ toPut' = [toPut EXCEPT ![t] = "none"]
      /\ stale \subseteq stale' /\ stale' \subseteq stale \cup {t}
      /\ t \notin stale' => t \in (IF toPut[t] = "pending" THEN queued ELSE delayed)
  <2>1. CASE Put(t)
    BY <2>1 DEF Put, SetState, RecordInv, Recorded, queueVars, execVars
  <2>2. CASE PutFails(t)
    BY <2>2 DEF PutFails, RecordInv, Recorded, queueVars, metaVars, execVars
  <2> QED
    BY <2>1, <2>2
<1>1. Recorded'
  BY <1>0 DEF RecordInv, Recorded, States
<1>2. OneHome'
  BY <1>0 DEF RecordInv, OneHome, OnlyHere, Holds
<1>3. Orderly'
  BY <1>0 DEF RecordInv, Orderly, InOrder
<1>4. MetaAgrees'
  BY <1>0 DEF RecordInv, Recorded, MetaAgrees, Executing, OneHome, OnlyHere
<1>5. Counted'
  BY <1>0, CountsStay DEF RecordInv, Recorded, Completing, Failing
<1> QED
  BY <1>1, <1>2, <1>3, <1>4, <1>5 DEF RecordInv

\* The retention of a completed task ends: its hash goes, nothing else.
LEMMA ExpireRecords ==
  ASSUME RInv, RecordInv, NEW t \in Tasks, ExpireCompleted(t)
  PROVE  RecordInv'
<1>0. /\ UNCHANGED <<queued, pel, delayed, dlq, count, pc, job, toPut, submitted, done, stale,
                     overlapped>>
      /\ t \notin delayed \cup dlq
      /\ meta' = [meta EXCEPT ![t] = "none"]
      /\ ttl' = ttl \ {t}
  BY DEF ExpireCompleted, Somewhere, queueVars, execVars, clientVars, histVars
<1>1. Recorded'
  BY <1>0 DEF RecordInv, Recorded, States
<1>2. OneHome'
  BY <1>0 DEF RecordInv, OneHome, OnlyHere, Holds
<1>3. Orderly'
  BY <1>0 DEF RecordInv, Orderly, InOrder
<1>4. MetaAgrees'
  BY <1>0 DEF RecordInv, Recorded, MetaAgrees, Executing
<1>5. Counted'
  BY <1>0, CountsStay DEF RecordInv, Recorded, Completing, Failing
<1> QED
  BY <1>1, <1>2, <1>3, <1>4, <1>5 DEF RecordInv

\* A task leaves the stream, or the delayed set for the stream.
LEMMA MoveRecords ==
  ASSUME RInv, RecordInv,
         UNCHANGED <<dlq, meta, ttl, count, pc, job, toPut, submitted, done, stale, overlapped>>,
         pel' \subseteq pel, delayed' \subseteq delayed, queued' \subseteq queued \cup (delayed \ delayed')
  PROVE  RecordInv'
<1>1. Recorded'
  BY DEF RecordInv, Recorded
<1>2. OneHome'
  BY DEF RecordInv, OneHome, OnlyHere, Holds
<1>3. Orderly'
  BY DEF RecordInv, Orderly, InOrder
<1>4. MetaAgrees'
  BY DEF RecordInv, MetaAgrees, Executing
<1>5. Counted'
  BY CountsStay DEF RecordInv, Recorded, Completing, Failing
<1> QED
  BY <1>1, <1>2, <1>3, <1>4, <1>5 DEF RecordInv

\* An execution begins: of a queued task that nobody has in hand, or of a
\* pending one, which an overlapping reclaim gives to a second executor.
LEMMA TakeRecords ==
  ASSUME RInv, RecordInv, NEW t \in Tasks, NEW e \in Executors, Fetch(e, t) \/ Reclaim(e, t)
  PROVE  RecordInv'
<1>0. /\ UNCHANGED <<delayed, dlq, meta, ttl, count, toPut, done>>
      /\ pc[e] = "idle" /\ job[e] = NoTask
      /\ pc' = [pc EXCEPT ![e] = "gate"] /\ job' = [job EXCEPT ![e] = t]
      /\ stale \subseteq stale' /\ stale' \subseteq stale \cup {t}
      /\ overlapped \subseteq overlapped' /\ overlapped' \subseteq overlapped \cup {t}
      /\ Executing(t) # {} => t \in stale' \cup overlapped'
      /\ pel' = pel \cup {t} /\ queued' \subseteq queued /\ (t \in queued' => t \in pel)
      /\ t \in queued \/ (t \in pel /\ (Executing(t) # {} => t \in overlapped'))
      /\ submitted' = submitted
      /\ pc[e] \in Stages /\ pc \in [Executors -> Stages] /\ job \in [Executors -> Tasks \cup {NoTask}]
  <2>1. CASE Fetch(e, t)
    BY <2>1 DEF Fetch, Take, RInv, Shape, RecordInv, Recorded, metaVars, clientVars
  <2>2. CASE Reclaim(e, t)
    BY <2>2 DEF Reclaim, Take, RInv, Shape, RecordInv, Recorded, queueVars, metaVars, clientVars
  <2> QED
    BY <2>1, <2>2
<1>1. Recorded'
  BY <1>0 DEF RecordInv, Recorded
<1>2. OneHome'
  <2> SUFFICES ASSUME NEW u \in Tasks \ overlapped' PROVE OnlyHere(u)'
    BY DEF OneHome
  <2>1. OnlyHere(u)
    BY <1>0 DEF RecordInv, Recorded, OneHome
  <2>2. CASE u # t
    <3>1. \A d \in Executors : Holds(d, u)' <=> Holds(d, u)
      BY <1>0, <2>2, ExecutionAssumption DEF Holds
    <3> QED
      BY <1>0, <2>1, <2>2, <3>1 DEF OnlyHere
  <2>3. CASE u = t
    <3>1. \A d \in Executors : ~Holds(d, t)
      BY <1>0, <2>1, <2>3 DEF OnlyHere, Holds, Executing
    <3>2. \A d \in Executors : Holds(d, t)' => d = e
      BY <1>0, <3>1 DEF Holds
    <3>3. t \notin queued' \cup delayed \cup done \cup dlq
      BY <1>0, <2>1, <2>3 DEF OnlyHere
    <3> QED
      BY <1>0, <2>3, <3>2, <3>3 DEF OnlyHere
  <2> QED
    BY <2>2, <2>3
<1>3. Orderly'
  BY <1>0 DEF RecordInv, Orderly, InOrder, Executing
<1>4. MetaAgrees'
  <2>1. e \in Executing(t)' /\ \A u \in Tasks \ {t} : Executing(u)' = Executing(u)
    BY <1>0, ExecutionAssumption DEF Executing
  <2> QED
    BY <1>0, <2>1 DEF RecordInv, MetaAgrees
<1>5. Counted'
  <2>1. Completing' = Completing /\ Failing' = Failing
    BY <1>0 DEF Completing, Failing
  <2> QED
    BY <1>0, <2>1, CountsStay DEF RecordInv
<1> QED
  BY <1>1, <1>2, <1>3, <1>4, <1>5 DEF RecordInv

\* An execution goes on with its message in hand; it may write the metadata of
\* its own task, which is not stale then if it has the task alone.
LEMMA HandRecords ==
  ASSUME RInv, RecordInv, NEW e \in Executors, NEW stage \in InHand, pc[e] \in InHand, Goto(e, stage),
         UNCHANGED <<queued, pel, delayed, dlq, ttl, count, toPut, submitted, done, overlapped>>,
         meta' \in [Tasks -> States], \A u \in Tasks : u # job[e] => meta'[u] = meta[u],
         stale' = stale \/ (stale' = stale \ {job[e]} /\ Executing(job[e]) = {e})
  PROVE  RecordInv'
<1>0. pc \in [Executors -> Stages] /\ pc' = [pc EXCEPT ![e] = stage] /\ job' = job
  BY DEF Goto, RInv, Shape
<1>1. Recorded'
  BY <1>0 DEF RecordInv, Recorded, InHand
<1>2. OneHome'
  <2>1. \A d \in Executors, u \in Tasks : Holds(d, u)' <=> Holds(d, u)
    BY <1>0 DEF Holds
  <2> QED
    BY <2>1 DEF RecordInv, OneHome, OnlyHere
<1>3. Orderly'
  <2> SUFFICES ASSUME NEW u \in Tasks \ (stale' \cup overlapped) PROVE InOrder(u)'
    BY DEF Orderly
  <2>1. CASE u \notin stale
    BY <1>0, <2>1 DEF RecordInv, Orderly, InOrder, InHand
  <2>2. CASE u \in stale
    <3>1. u = job[e] /\ \A d \in Executors : job[d] = u => d = e
      BY <2>2 DEF Executing
    <3> QED
      BY <1>0, <3>1 DEF InOrder, InHand
  <2> QED
    BY <2>1, <2>2
<1>4. MetaAgrees'
  BY <1>0 DEF RecordInv, MetaAgrees, Executing
<1>5. Counted'
  <2>1. Completing' = Completing /\ Failing' = Failing
    BY <1>0 DEF Completing, Failing, InHand
  <2> QED
    BY <2>1, CountsStay DEF RecordInv, Recorded
<1> QED
  BY <1>1, <1>2, <1>3, <1>4, <1>5 DEF RecordInv

\* A settlement script moves its task to one place, from where no other
\* execution has it in hand.
Moves(t) ==
  /\ pel' = pel \ {t} /\ queued' = queued
  /\ \/ done' = done \cup {t} /\ UNCHANGED <<delayed, dlq>>
     \/ delayed' = delayed \cup {t} /\ UNCHANGED <<done, dlq>>
     \/ dlq' = dlq \cup {t} /\ UNCHANGED <<done, delayed>>

LEMMA ScriptMoves ==
  ASSUME RInv, RecordInv, NEW e \in Executors, Script(e)
  PROVE  job[e] \in Tasks /\ Holds(e, job[e]) /\ Moves(job[e])
BY DEF Script, Completes, Retries, DeadLetters, Moves, Holds, InHand, RInv, BusyHasTask

\* A task that did not overlap is in the hands of the execution alone.
LEMMA Alone ==
  ASSUME RecordInv, NEW e \in Executors, NEW t \in Tasks \ overlapped, Holds(e, t)
  PROVE  /\ t \notin queued \cup delayed \cup done \cup dlq
         /\ \A d \in Executors : Holds(d, t) => d = e
<1>1. OnlyHere(t)
  BY DEF RecordInv, OneHome
<1> QED
  BY <1>1 DEF OnlyHere

LEMMA MovedHome ==
  ASSUME RecordInv, NEW e \in Executors, NEW t \in Tasks, Holds(e, t), Moves(t),
         overlapped' = overlapped,
         \A d \in Executors, u \in Tasks : Holds(d, u)' => Holds(d, u) /\ d # e
  PROVE  OneHome'
<1> SUFFICES ASSUME NEW u \in Tasks \ overlapped PROVE OnlyHere(u)'
  BY DEF OneHome
<1>1. OnlyHere(u)
  BY DEF RecordInv, OneHome
<1>2. CASE u # t
  BY <1>1, <1>2 DEF OnlyHere, Moves
<1>3. CASE u = t
  <2>1. /\ t \notin queued \cup delayed \cup done \cup dlq
        /\ \A d \in Executors : ~Holds(d, t)'
    BY <1>3, Alone
  <2> QED
    BY <1>3, <2>1 DEF OnlyHere, Moves
<1> QED
  BY <1>2, <1>3

\* A settlement script runs: its task moves to where the script puts it, and the
\* execution has that to record.
LEMMA ScriptRecords ==
  ASSUME RInv, RecordInv, NEW e \in Executors, Settle(e)
  PROVE  RecordInv'
<1>a. job[e] \in Tasks /\ Holds(e, job[e]) /\ Moves(job[e])
  BY ScriptMoves DEF Settle
<1>b. PICK t \in Tasks : t = job[e] /\ Holds(e, t) /\ Moves(t)
  BY <1>a
<1>0. /\ t \in Tasks /\ pc[e] \in InHand /\ e \in Executing(t)
      /\ pc \in [Executors -> Stages] /\ job' = job
      /\ UNCHANGED <<queued, meta, ttl, count, toPut, submitted, stale, overlapped>>
      /\ pel' = pel \ {t}
  BY <1>b DEF Settle, Goto, metaVars, clientVars, RInv, Shape, Holds, Moves, Executing
<1>1. \/ /\ pc' = [pc EXCEPT ![e] = "markCompleted"] \/ pc' = [pc EXCEPT ![e] = "markDropped"]
         /\ done' = done \cup {t} /\ UNCHANGED <<delayed, dlq>>
      \/ /\ pc' = [pc EXCEPT ![e] = "markRetry"]
         /\ delayed' = delayed \cup {t} /\ UNCHANGED <<done, dlq>>
      \/ /\ pc' = [pc EXCEPT ![e] = "markDLQ"]
         /\ dlq' = dlq \cup {t} /\ UNCHANGED <<done, delayed>>
  BY <1>b DEF Settle, Script, Completes, Retries, DeadLetters, MarkAfter, Goto
<1>2. Recorded'
  BY ExecutionAssumption, <1>0, <1>1, <1>b DEF RecordInv, Recorded, InHand
<1>3. ASSUME t \notin overlapped
      PROVE  /\ t \notin queued \cup delayed \cup done \cup dlq
             /\ \A d \in Executors : Holds(d, t) => d = e
  BY <1>3, <1>b, Alone
<1>4. OneHome'
  <2>1. \A d \in Executors, u \in Tasks : Holds(d, u)' => Holds(d, u) /\ d # e
    BY <1>0, <1>1 DEF Holds, InHand
  <2> QED
    BY <1>0, <1>b, <2>1, MovedHome
<1>5. Orderly'
  <2> SUFFICES ASSUME NEW u \in Tasks \ (stale \cup overlapped) PROVE InOrder(u)'
    BY <1>0 DEF Orderly
  <2>1. InOrder(u)
    BY DEF RecordInv, Orderly
  <2>2. CASE u # t
    BY <1>0, <1>1, <2>1, <2>2 DEF InOrder, Executing
  <2>3. CASE u = t
    <3>1. \A d \in Executors : job[d] = t => d = e
      BY <1>0, <2>1, <2>3 DEF InOrder, Executing
    <3> QED
      BY <1>0, <1>1, <1>3, <2>3, <3>1 DEF InOrder
  <2> QED
    BY <2>2, <2>3
<1>6. MetaAgrees'
  BY <1>0, <1>1 DEF RecordInv, MetaAgrees, Executing
<1>7. Counted'
  <2> SUFFICES ASSUME overlapped = {} PROVE Counted'
    BY <1>0 DEF Counted
  <2>0. /\ t \notin done /\ t \notin dlq /\ e \notin Completing /\ e \notin Failing /\ Recorded
        /\ count["completed"] \in Nat /\ count["dlq"] \in Nat
    BY <1>0, <1>3 DEF Completing, Failing, InHand, RecordInv, Recorded, Fields
  <2>1. \/ Completing' = Completing \cup {e} /\ Failing' = Failing /\ done' = done \cup {t} /\ dlq' = dlq
        \/ Completing' = Completing /\ Failing' = Failing /\ done' = done /\ dlq' = dlq
        \/ Completing' = Completing /\ Failing' = Failing \cup {e} /\ done' = done /\ dlq' = dlq \cup {t}
    BY <1>0, <1>1 DEF Completing, Failing, InHand
  <2>2. /\ Cardinality(Completing \cup {e}) = Cardinality(Completing) + 1
        /\ Cardinality(Failing \cup {e}) = Cardinality(Failing) + 1
        /\ Cardinality(done \cup {t}) = Cardinality(done) + 1
        /\ Cardinality(dlq \cup {t}) = Cardinality(dlq) + 1
    BY <2>0, AllFinite, FS_AddElement
  <2>3. /\ count["completed"] + Cardinality(Completing) <= Cardinality(done)
        /\ count["dlq"] + Cardinality(Failing) <= Cardinality(dlq)
    BY DEF RecordInv, Counted
  <2>4. /\ Cardinality(Completing) \in Nat /\ Cardinality(Failing) \in Nat
        /\ Cardinality(done) \in Nat /\ Cardinality(dlq) \in Nat
    BY <2>0, AllFinite
  <2>5. /\ count["completed"] + Cardinality(Completing') <= Cardinality(done')
        /\ count["dlq"] + Cardinality(Failing') <= Cardinality(dlq')
    <3>1. CASE Completing' = Completing \cup {e} /\ Failing' = Failing /\ done' = done \cup {t} /\ dlq' = dlq
      BY <2>0, <2>2, <2>3, <2>4, <3>1
    <3>2. CASE Completing' = Completing /\ Failing' = Failing /\ done' = done /\ dlq' = dlq
      BY <2>3, <3>2
    <3>3. CASE Completing' = Completing /\ Failing' = Failing \cup {e} /\ done' = done /\ dlq' = dlq \cup {t}
      BY <2>0, <2>2, <2>3, <2>4, <3>3
    <3> QED
      BY <2>1, <3>1, <3>2, <3>3
  <2> QED
    BY <1>0, <2>5 DEF Counted
<1> QED
  BY <1>2, <1>4, <1>5, <1>6, <1>7 DEF RecordInv

\* The process ends: a task is nobody's, and of one that was someone's
\* the record is stale.
LEMMA EndRecords ==
  ASSUME RInv, RecordInv, ProcessEnds({job[e] : e \in Busy})
  PROVE  RecordInv'
<1>0. /\ UNCHANGED <<queued, pel, delayed, dlq, meta, ttl, count, toPut, submitted, done, overlapped>>
      /\ pc' = [e \in Executors |-> "idle"] /\ job' = [e \in Executors |-> NoTask]
      /\ stale' = stale \cup {job[e] : e \in Busy} /\ NoTask \notin Tasks
  BY ExecutionAssumption DEF ProcessEnds, queueVars, metaVars, clientVars
<1>1. Recorded'
  BY <1>0 DEF RecordInv, Recorded
<1>2. OneHome'
  <2>1. \A d \in Executors, u \in Tasks : ~Holds(d, u)'
    BY <1>0 DEF Holds
  <2> QED
    BY <1>0, <2>1 DEF RecordInv, OneHome, OnlyHere
<1>3. Orderly'
  BY <1>0 DEF RecordInv, Orderly, InOrder
<1>4. MetaAgrees'
  <2>1. \A u \in Tasks \ stale' : Executing(u) = {}
    BY <1>0 DEF Executing, Busy, RecordInv, Recorded
  <2> QED
    BY <1>0, <2>1 DEF RecordInv, MetaAgrees
<1>5. Counted'
  <2>1. Completing' = {} /\ Failing' = {}
    BY <1>0 DEF Completing, Failing
  <2> QED
    BY <1>0, <2>1, CountsForget
<1> QED
  BY <1>1, <1>2, <1>3, <1>4, <1>5 DEF RecordInv

\* An execution gives up with its message still pending, or has written, or
\* failed to write, the state of a discarded task, whose record is stale.
LEMMA AbandonRecords ==
  ASSUME RInv, RecordInv, NEW e \in Executors, ScriptFails(e) \/ StateCancelled(e)
  PROVE  RecordInv'
<1>a. job[e] \in Tasks
  BY DEF ScriptFails, StateCancelled, RInv, BusyHasTask
<1>b. PICK t \in Tasks : t = job[e]
  BY <1>a
<1>0. /\ UNCHANGED <<queued, pel, delayed, dlq, ttl, count, toPut, submitted, done, overlapped>>
      /\ pc \in [Executors -> Stages] /\ job \in [Executors -> Tasks \cup {NoTask}] /\ NoTask \notin Tasks
      /\ \/ pc' = [pc EXCEPT ![e] = "idle"] /\ job' = [job EXCEPT ![e] = NoTask]
         \/ pc' = [pc EXCEPT ![e] = "cancelled"] /\ job' = job
      /\ pc[e] \notin {"markCompleted", "markDropped", "markDLQ"}
      /\ \/ meta' = meta /\ stale' = stale /\ pc[e] \in InHand
         \/ meta' \in {meta, [meta EXCEPT ![t] = "cancelled"]} /\ stale' = stale \cup {t}
  <2>1. CASE ScriptFails(e)
    BY <1>b, <2>1, ExecutionAssumption DEF ScriptFails, GiveUp, Goto, Leave, queueVars, metaVars,
       clientVars, RInv, Shape, InHand
  <2>2. CASE StateCancelled(e)
    BY <1>b, <2>2, ExecutionAssumption DEF StateCancelled, SetState, queueVars, metaVars, clientVars,
       RInv, Shape, InHand
  <2> QED
    BY <2>1, <2>2
<1>1. Recorded'
  BY <1>0 DEF RecordInv, Recorded, States
<1>2. OneHome'
  <2>1. \A d \in Executors, u \in Tasks : Holds(d, u)' => Holds(d, u)
    BY <1>0 DEF Holds, InHand
  <2> QED
    BY <1>0, <2>1 DEF RecordInv, OneHome, OnlyHere
<1>3. Orderly'
  BY <1>0 DEF RecordInv, Orderly, InOrder
<1>4. MetaAgrees'
  <2>1. \A u \in Tasks \ {t} : Executing(u)' = Executing(u)
    BY <1>0, <1>b DEF Executing
  <2>2. t \in stale' \cup overlapped' \/ t \notin delayed \cup done \cup dlq
    BY <1>0, <1>b DEF RecordInv, OneHome, OnlyHere, Holds
  <2> QED
    BY <1>0, <2>1, <2>2 DEF RecordInv, Recorded, MetaAgrees
<1>5. Counted'
  <2>1. Completing' = Completing /\ Failing' = Failing
    BY <1>0 DEF Completing, Failing
  <2> QED
    BY <1>0, <2>1, CountsStay DEF RecordInv, Recorded
<1> QED
  BY <1>1, <1>2, <1>3, <1>4, <1>5 DEF RecordInv

\* The script has run and the execution does not know: its task is where the
\* script puts it, with a stale record, and is not counted.
LEMMA LostRecords ==
  ASSUME RInv, RecordInv, NEW e \in Executors, ReplyLost(e)
  PROVE  RecordInv'
<1>a. job[e] \in Tasks /\ Holds(e, job[e]) /\ Moves(job[e])
  BY ScriptMoves DEF ReplyLost
<1>b. PICK t \in Tasks : t = job[e] /\ Holds(e, t) /\ Moves(t)
  BY <1>a
<1>0. /\ UNCHANGED <<meta, ttl, count, toPut, submitted, overlapped>>
      /\ pc \in [Executors -> Stages] /\ job \in [Executors -> Tasks \cup {NoTask}] /\ NoTask \notin Tasks
      /\ pc[e] \in InHand
      /\ \/ pc' = [pc EXCEPT ![e] = "idle"] /\ job' = [job EXCEPT ![e] = NoTask]
         \/ pc' = [pc EXCEPT ![e] = "cancelled"] /\ job' = job
      /\ stale' = stale \cup {t}
  BY <1>b, ExecutionAssumption DEF ReplyLost, GiveUp, Goto, Leave, metaVars, clientVars, RInv, Shape, Holds
<1>1. Recorded'
  BY <1>0, <1>b DEF RecordInv, Recorded, Moves
<1>2. OneHome'
  <2>1. \A d \in Executors, u \in Tasks : Holds(d, u)' => Holds(d, u) /\ d # e
    BY <1>0 DEF Holds, InHand
  <2> QED
    BY <1>0, <1>b, <2>1, MovedHome
<1>3. Orderly'
  BY <1>0, <1>b DEF RecordInv, Orderly, InOrder, Moves
<1>4. MetaAgrees'
  <2>1. \A u \in Tasks \ {t} : Executing(u)' = Executing(u)
    BY <1>0, <1>b DEF Executing
  <2> QED
    BY <1>0, <1>b, <2>1 DEF RecordInv, MetaAgrees, Moves
<1>5. Counted'
  <2> SUFFICES ASSUME overlapped = {} PROVE Counted'
    BY <1>0 DEF Counted
  <2>1. Completing' = Completing /\ Failing' = Failing
    BY <1>0 DEF Completing, Failing, InHand
  <2>2. Recorded /\ Recorded' /\ done \subseteq done' /\ dlq \subseteq dlq'
    BY <1>1, <1>b DEF RecordInv, Moves
  <2>3. Cardinality(done) <= Cardinality(done') /\ Cardinality(dlq) <= Cardinality(dlq')
    BY <2>2, AllFinite, FiniteAfter, FS_Subset
  <2>4. /\ Cardinality(done) \in Nat /\ Cardinality(done') \in Nat
        /\ Cardinality(dlq) \in Nat /\ Cardinality(dlq') \in Nat
        /\ Cardinality(Completing) \in Nat /\ Cardinality(Failing) \in Nat
    BY <2>2, AllFinite, FiniteAfter
  <2>5. count["completed"] \in Nat /\ count["dlq"] \in Nat
    BY <2>2 DEF Recorded, Fields
  <2> QED
    BY <1>0, <2>1, <2>3, <2>4, <2>5 DEF RecordInv, Counted
<1> QED
  BY <1>1, <1>2, <1>3, <1>4, <1>5 DEF RecordInv

\* What was about to be counted is counted, and the metadata of the task says
\* where the task is, or is stale.
LEMMA SettledRecords ==
  ASSUME RInv, RecordInv, NEW e \in Executors, MarkSettled(e) \/ MarkFails(e)
  PROVE  RecordInv'
<1>a. job[e] \in Tasks
  BY DEF MarkSettled, MarkFails, MarkState, MarkLost, RInv, BusyHasTask
<1>b. PICK t \in Tasks : t = job[e]
  BY <1>a
<1>0. /\ UNCHANGED <<queued, pel, delayed, dlq, toPut, submitted, done, overlapped>>
      /\ pc \in [Executors -> Stages] /\ job \in [Executors -> Tasks \cup {NoTask}] /\ NoTask \notin Tasks
      /\ Recorded
      /\ stale' \in {stale, stale \cup {t}}
      /\ pc[e] \in {"markCompleted", "markDropped", "markRetry", "markDLQ"}
  BY <1>b, ExecutionAssumption
     DEF MarkSettled, MarkFails, MarkState, MarkLost, queueVars, clientVars, histVars, RInv, Shape, RecordInv
<1>1. \/ pc' = [pc EXCEPT ![e] = "idle"] /\ job' = [job EXCEPT ![e] = NoTask]
      \/ pc[e] = "markDropped" /\ pc' = [pc EXCEPT ![e] = "cancelled"] /\ job' = job
  BY DEF MarkSettled, MarkFails, AfterMark, Leave, Goto
<1>2. \/ /\ pc[e] \in {"markCompleted", "markDropped"}
         /\ \/ meta' = [meta EXCEPT ![t] = "completed"] /\ ttl' = ttl \cup {t}
            \/ meta' = [meta EXCEPT ![t] = "none"] /\ ttl' = ttl \ {t}
      \/ pc[e] = "markRetry" /\ meta' = [meta EXCEPT ![t] = "retry"] /\ ttl' = ttl
      \/ pc[e] = "markDLQ" /\ meta' = [meta EXCEPT ![t] = "dlq"] /\ ttl' = ttl
      \/ /\ t \in stale' /\ meta' \in {meta, [meta EXCEPT ![t] = "completed"]}
         /\ ttl' \in {ttl, ttl \cup {t}}
  <2>1. CASE MarkState(e)
    BY <1>b, <2>1 DEF MarkState, MarkCompleted, SetState
  <2>2. CASE MarkLost(e) /\ stale' = stale \cup {job[e]}
    BY <1>b, <2>2 DEF MarkLost
  <2> QED
    BY <2>1, <2>2 DEF MarkSettled, MarkFails
<1>c. count' = count \/ Inc(Counters(pc[e]))
  BY DEF MarkSettled, MarkFails
<1>3. Recorded'
  <2>1. count' \in [Fields -> Nat]
    BY <1>0, <1>c DEF Recorded, Inc
  <2>2. meta' \in [Tasks -> States]
    BY <1>0, <1>2 DEF Recorded, States
  <2>3. \A d \in Executors : (pc'[d] = "idle" => job'[d] = NoTask) /\ job'[d] \in submitted \cup {NoTask}
    BY <1>0, <1>1 DEF Recorded
  <2> QED
    BY <1>0, <2>1, <2>2, <2>3 DEF Recorded
<1>4. OneHome'
  <2>1. \A d \in Executors, u \in Tasks : Holds(d, u)' => Holds(d, u)
    BY <1>0, <1>1 DEF Holds, InHand
  <2> QED
    BY <1>0, <2>1 DEF RecordInv, OneHome, OnlyHere
<1>5. Orderly'
  <2>1. CASE pc' = [pc EXCEPT ![e] = "idle"] /\ job' = [job EXCEPT ![e] = NoTask]
    BY <1>0, <2>1 DEF RecordInv, Orderly, InOrder
  <2>2. CASE pc[e] = "markDropped" /\ pc' = [pc EXCEPT ![e] = "cancelled"] /\ job' = job
    BY <1>0, <2>2 DEF RecordInv, Orderly, InOrder
  <2> QED
    BY <1>1, <2>1, <2>2
<1>6. MetaAgrees'
  <2> SUFFICES ASSUME NEW u \in Tasks \ (stale' \cup overlapped), Executing(u)' = {}, toPut[u] = "none"
               PROVE  /\ u \in dlq => meta'[u] = "dlq"
                      /\ u \in delayed => meta'[u] \in {"delayed", "retry"}
                      /\ u \in done => meta'[u] = "none" \/ (meta'[u] = "completed" /\ u \in ttl')
    BY <1>0 DEF MetaAgrees
  <2>1. CASE u # t
    <3>1. Executing(u)' = Executing(u)
      BY <1>0, <1>1, <1>b, <2>1 DEF Executing
    <3>2. meta'[u] = meta[u] /\ (u \in ttl' <=> u \in ttl)
      BY <1>0, <1>2, <2>1 DEF Recorded
    <3> QED
      BY <1>0, <3>1, <3>2 DEF RecordInv, MetaAgrees
  <2>2. CASE u = t
    <3>1. OnlyHere(t) /\ InOrder(t)
      BY <1>0, <2>2 DEF RecordInv, OneHome, Orderly
    <3>2. /\ pc[e] \in {"markCompleted", "markDropped"} => t \in done
          /\ pc[e] = "markRetry" => t \notin done \cup dlq
          /\ pc[e] = "markDLQ" => t \in dlq
      BY <1>b, <3>1 DEF InOrder
    <3>3. /\ pc[e] \in {"markCompleted", "markDropped"} => t \notin dlq \cup delayed
          /\ pc[e] = "markDLQ" => t \notin delayed \cup done
      BY <3>1, <3>2 DEF OnlyHere
    <3> QED
      BY <1>0, <1>2, <2>2, <3>2, <3>3 DEF Recorded
  <2> QED
    BY <2>1, <2>2
<1>7. Counted'
  <2> SUFFICES ASSUME overlapped = {} PROVE Counted'
    BY <1>0 DEF Counted
  <2>1. /\ count["completed"] + Cardinality(Completing) <= Cardinality(done)
        /\ count["dlq"] + Cardinality(Failing) <= Cardinality(dlq)
    BY DEF RecordInv, Counted
  <2>2. /\ Cardinality(Completing) \in Nat /\ Cardinality(Failing) \in Nat
        /\ Cardinality(done) \in Nat /\ Cardinality(dlq) \in Nat
        /\ count["completed"] \in Nat /\ count["dlq"] \in Nat
    BY <1>0, AllFinite DEF Recorded, Fields
  <2>3. /\ e \in Completing => Cardinality(Completing \ {e}) = Cardinality(Completing) - 1
        /\ e \in Failing => Cardinality(Failing \ {e}) = Cardinality(Failing) - 1
    BY <1>0, AllFinite, FS_RemoveElement
  <2>4. /\ count'["completed"] \in {count["completed"], IF e \in Completing THEN count["completed"] + 1
                                                      ELSE count["completed"]}
        /\ count'["dlq"] \in {count["dlq"], IF e \in Failing THEN count["dlq"] + 1 ELSE count["dlq"]}
    BY <1>0, <1>c DEF Inc, Counters, Fields, Completing, Failing, Recorded
  <2>5. Completing' = Completing \ {e} /\ Failing' = Failing \ {e}
    BY <1>0, <1>1 DEF Completing, Failing
  <2>6. /\ e \notin Completing => Completing \ {e} = Completing
        /\ e \notin Failing => Failing \ {e} = Failing
    OBVIOUS
  <2>7. count'["completed"] + Cardinality(Completing \ {e}) <= Cardinality(done)
    BY <2>1, <2>2, <2>3, <2>4, <2>6
  <2>8. count'["dlq"] + Cardinality(Failing \ {e}) <= Cardinality(dlq)
    BY <2>1, <2>2, <2>3, <2>4, <2>6
  <2> QED
    BY <1>0, <2>5, <2>7, <2>8 DEF Counted
<1> QED
  BY <1>3, <1>4, <1>5, <1>6, <1>7 DEF RecordInv

\* Every step an executor takes.
LEMMA ExecutorRecords ==
  ASSUME RInv, RecordInv, NEW e \in Executors,
         \/ Step(e) \/ GateFails(e) \/ HandlerReturns(e)
         \/ ScriptFails(e) \/ ReplyLost(e) \/ MarkFails(e)
  PROVE  RecordInv'
<1>0. meta \in [Tasks -> States]
  BY DEF RecordInv, Recorded
<1>1. CASE Gate(e) \/ GateFails(e) \/ HandlerReturns(e)
  <2>1. PICK stage \in InHand : Goto(e, stage)
    BY <1>1 DEF Gate, GateFails, HandlerReturns, InHand
  <2>2. /\ pc[e] \in InHand
        /\ UNCHANGED <<queued, pel, delayed, dlq, ttl, count, toPut, submitted, done, stale, overlapped, meta>>
    BY <1>1 DEF Gate, GateFails, HandlerReturns, InHand, queueVars, metaVars, clientVars, histVars
  <2> QED
    BY <1>0, <2>1, <2>2, HandRecords
<1>2. CASE StateActive(e)
  <2>1. /\ Goto(e, "run") /\ "run" \in InHand /\ pc[e] \in InHand
        /\ UNCHANGED <<queued, pel, delayed, dlq, ttl, count, toPut, submitted, done, overlapped>>
        /\ meta' \in {meta, [meta EXCEPT ![job[e]] = "active"]}
        /\ stale' = stale \/ (stale' = stale \ {job[e]} /\ Executing(job[e]) = {e})
    BY <1>2 DEF StateActive, SetState, InHand, queueVars, clientVars
  <2>2. meta' \in [Tasks -> States] /\ \A u \in Tasks : u # job[e] => meta'[u] = meta[u]
    BY <1>0, <2>1 DEF States
  <2> QED
    BY <2>1, <2>2, HandRecords
<1>3. CASE PollCancelledMarker(e)
  BY <1>3, RecordAside DEF PollCancelledMarker, queueVars, metaVars, execVars, clientVars, histVars
<1>4. CASE Settle(e)
  BY <1>4, ScriptRecords
<1>5. CASE StateCancelled(e) \/ ScriptFails(e)
  BY <1>5, AbandonRecords
<1>6. CASE MarkSettled(e) \/ MarkFails(e)
  BY <1>6, SettledRecords
<1>7. CASE ReplyLost(e)
  BY <1>7, LostRecords
<1> QED
  BY <1>1, <1>2, <1>3, <1>4, <1>5, <1>6, <1>7 DEF Step

\* The invariant is inductive.
LEMMA RecordInductive == RInv /\ RecordInv /\ [Next]_vars => RecordInv'
<1> SUFFICES ASSUME RInv, RecordInv, [Next]_vars PROVE RecordInv'
  OBVIOUS
<1>1. CASE UNCHANGED vars
  BY <1>1, RecordAside DEF vars, queueVars, metaVars, execVars, clientVars, histVars
<1>2. ASSUME NEW t \in Tasks, CancelTask(t) \/ DeleteActiveTask(t) \/ CancelMessage(t)
      PROVE  RecordInv'
  BY <1>2, RecordAside
  DEF CancelTask, DeleteActiveTask, CancelMessage, queueVars, metaVars, execVars, clientVars, histVars
<1>3. ASSUME NEW t \in Tasks, Enqueue(t) \/ Put(t) \/ PutFails(t) \/ ExpireCompleted(t)
      PROVE  RecordInv'
  BY <1>3, EnqueueRecords, PutRecords, ExpireRecords
<1>4. ASSUME NEW t \in Tasks, NEW e \in Executors, Fetch(e, t) \/ Reclaim(e, t)
      PROVE  RecordInv'
  BY <1>4, TakeRecords
<1>5. ASSUME NEW e \in Executors,
             \/ Step(e) \/ GateFails(e) \/ HandlerReturns(e)
             \/ ScriptFails(e) \/ ReplyLost(e) \/ MarkFails(e)
      PROVE  RecordInv'
  BY <1>5, ExecutorRecords
<1>6. CASE Start \/ Stop
  BY <1>6, RecordAside DEF Start, Stop, queueVars, metaVars, clientVars, histVars
<1>7. CASE Stopped \/ Crash
  <2>1. CASE Stopped
    <3>1. {job[e] : e \in Busy} = {}
      BY <2>1 DEF Stopped
    <3> QED
      BY <2>1, <3>1, EndRecords DEF Stopped
  <2>2. CASE Crash
    BY <2>2, EndRecords DEF Crash
  <2> QED
    BY <1>7, <2>1, <2>2
<1>8. ASSUME NEW t \in Tasks, Promote(t) PROVE RecordInv'
  BY <1>8, MoveRecords DEF Promote, metaVars, execVars, clientVars, histVars
<1>9. ASSUME NEW d \in toDelete, RemoveActiveTask(d) \/ RemoveFails(d) PROVE RecordInv'
  <2>1. /\ UNCHANGED <<dlq, meta, ttl, count, pc, job, toPut, submitted, done, stale, overlapped, delayed>>
        /\ pel' \subseteq pel /\ queued' \subseteq queued
    BY <1>9 DEF RemoveActiveTask, RemoveFails, metaVars, execVars
  <2> QED
    BY <2>1, MoveRecords
<1> QED
  BY <1>1, <1>2, <1>3, <1>4, <1>5, <1>6, <1>7, <1>8, <1>9 DEF Next

\* A task that is counted is in the history of the completed or in the DLQ, and
\* never in both.
LEMMA CountedTasksDiffer == RecordInv => CountedOnce
<1> SUFFICES ASSUME RecordInv, overlapped = {}
             PROVE  count["completed"] + count["dlq"] <= Cardinality(Tasks)
  BY DEF CountedOnce
<1>1. Recorded /\ IsFiniteSet(Tasks) /\ done \subseteq Tasks /\ dlq \subseteq Tasks
  BY ExecutionAssumption DEF RecordInv, Recorded
<1>2. /\ Cardinality(Completing) \in Nat /\ Cardinality(Failing) \in Nat
      /\ Cardinality(done) \in Nat /\ Cardinality(dlq) \in Nat
      /\ count["completed"] \in Nat /\ count["dlq"] \in Nat
      /\ IsFiniteSet(done) /\ IsFiniteSet(dlq)
  BY <1>1, AllFinite DEF Recorded, Fields
<1>3. done \cap dlq = {} /\ done \cup dlq \subseteq Tasks
  BY <1>1 DEF RecordInv, OneHome, OnlyHere
<1>4. Cardinality(done \cup dlq) = Cardinality(done) + Cardinality(dlq) - Cardinality({})
  BY <1>2, <1>3, FS_Union
<1>5. Cardinality({}) = 0
  BY FS_EmptySet
<1>6. Cardinality(done \cup dlq) <= Cardinality(Tasks) /\ Cardinality(Tasks) \in Nat
  BY <1>1, <1>3, FS_Subset, FS_CardinalityType
<1>7. /\ count["completed"] + Cardinality(Completing) <= Cardinality(done)
      /\ count["dlq"] + Cardinality(Failing) <= Cardinality(dlq)
  BY DEF RecordInv, Counted
<1> QED
  BY <1>2, <1>4, <1>5, <1>6, <1>7

\* The metadata of a task that nobody works on agrees with where the task is,
\* unless its record is stale, and a task is counted once, as completed
\* or as failed, unless executions overlap: whatever crashes, failed scripts,
\* retries, cancellations and deletions it goes through.
THEOREM RecordsStayTrue == Spec => []RecordsAgree
<1>1. RecordInv => RecordsAgree
  BY CountedTasksDiffer DEF RecordInv, RecordsAgree
<1> QED
  BY <1>1, Initially, Inductive, RecordInitially, RecordInductive, PTL DEF Spec

=============================================================================
