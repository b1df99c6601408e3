---------------------------- MODULE DLQAdminProofs ----------------------------
(***************************************************************************)
(* Proofs about the administration of a dead letter queue, for any number  *)
(* of tasks, administrators, failures and abandoned calls.                 *)
(***************************************************************************)
EXTENDS DLQAdmin, TLAPS

\* The task does not depend on its dead letter.
Safe(t) == queued[t] > 0 \/ t \in gone

\* What a call has enqueued is queued or done.
Requeued ==
  \A a \in Admins :
    /\ pc[a] = "added" => item[a] \in Tasks
    /\ item[a] \in Tasks \ raced => Safe(item[a])

\* A task without a body when the page was read has none now, or is queued or
\* done.
BodiesRead ==
  \A a \in Admins : pc[a] \in {"items", "added"} =>
    \A t \in ids[a] \ (bodies[a] \cup raced) : t \in index => Safe(t)

\* What the janitor has removed from the ZSET does not come back.
PurgeHalfDone == half \in zset => half \in raced

IInv ==
  /\ TypeOK
  /\ Requeued
  /\ BodiesRead
  /\ PurgeHalfDone
  /\ NoOrphans
  /\ RetryLosesNothing

-----------------------------------------------------------------------------

\* At first every task is a whole dead letter and no call is under way.
LEMMA InitIInv == Init => IInv
  BY AdminAssumption DEF Init, IInv, TypeOK, Requeued, BodiesRead, PurgeHalfDone, NoOrphans,
     RetryLosesNothing, Accounted, Safe

\* Executors: a task that fails again while its ID is doomed ends the premise of
\* both properties; any other is a whole dead letter.
LEMMA ExecutorStep ==
  ASSUME IInv, NEW t \in Tasks, Complete(t) \/ MoveToDLQ(t)
  PROVE  IInv'
<1>1. CASE Complete(t)
  BY <1>1, AdminAssumption
     DEF Complete, IInv, TypeOK, Requeued, BodiesRead, PurgeHalfDone, NoOrphans, RetryLosesNothing,
         Accounted, Safe, dlqVars, adminVars, agedVars
<1>2. CASE MoveToDLQ(t)
  BY <1>2, AdminAssumption
     DEF MoveToDLQ, Doomed, IInv, TypeOK, Requeued, BodiesRead, PurgeHalfDone, NoOrphans, RetryLosesNothing,
         Accounted, Safe, adminVars, agedVars
<1> QED BY <1>1, <1>2

\* Steps that only move a call along.
LEMMA CallStep ==
  ASSUME IInv, NEW a \in Admins,
         \/ RetryAllDeadLetters(a) \/ ReadPage(a) \/ ReadBodies(a) \/ EndOfPage(a)
         \/ RequeueRejected(a) \/ Abandon(a) \/ CountDeadLetters(a)
         \/ \E t \in Tasks : RetryDeadLetter(a, t) \/ DropMissingFails(a, t)
  PROVE  IInv'
<1>1. UNCHANGED <<zset, index, queued, aged, half, gone, failures, raced>>
  BY DEF RetryAllDeadLetters, ReadPage, ReadBodies, EndOfPage, RequeueRejected, Abandon,
         Return, CountDeadLetters, RetryDeadLetter, DropMissingFails,
         dlqVars, agedVars, histVars
<1>2. TypeOK'
  <2>1. CASE RetryAllDeadLetters(a) \/ ReadPage(a) \/ ReadBodies(a) \/ EndOfPage(a)
    BY <1>1, <2>1 DEF RetryAllDeadLetters, ReadPage, ReadBodies, EndOfPage, histVars, IInv, TypeOK
  <2>2. CASE RequeueRejected(a) \/ Abandon(a)
    <3>1. Return(a) BY <2>2 DEF RequeueRejected, Abandon
    <3>2. /\ pc' \in [Admins -> {"idle", "range", "fetch", "items", "added", "purge"}]
          /\ ids' \in [Admins -> SUBSET Tasks]
          /\ bodies' \in [Admins -> SUBSET Tasks]
          /\ item' \in [Admins -> Tasks \cup {NoTask}]
          /\ bulk' \in [Admins -> BOOLEAN]
      BY <3>1 DEF Return, IInv, TypeOK
    <3>3. abandons' \in 0 .. MaxAbandons
      BY <2>2, AdminAssumption DEF RequeueRejected, Abandon, IInv, TypeOK
    <3> QED BY <1>1, <3>2, <3>3 DEF IInv, TypeOK
  <2>3. CASE CountDeadLetters(a)
    BY <1>1, <2>3 DEF CountDeadLetters, histVars, IInv, TypeOK
  <2>4. ASSUME NEW t \in Tasks, RetryDeadLetter(a, t) \/ DropMissingFails(a, t)
        PROVE  TypeOK'
    <3>1. CASE RetryDeadLetter(a, t)
      BY <1>1, <3>1 DEF RetryDeadLetter, histVars, IInv, TypeOK
    <3>2. CASE DropMissingFails(a, t)
      BY <1>1, <3>2, AdminAssumption DEF DropMissingFails, IInv, TypeOK
    <3> QED BY <2>4, <3>1, <3>2
  <2> QED BY <2>1, <2>2, <2>3, <2>4
<1>3. Requeued'
  <2>1. \A b \in Admins : item'[b] = item[b] \/ item'[b] = NoTask
    BY DEF RetryAllDeadLetters, ReadPage, ReadBodies, EndOfPage, RequeueRejected, Abandon,
           Return, CountDeadLetters, RetryDeadLetter, DropMissingFails, IInv, TypeOK
  <2>2. \A b \in Admins : pc'[b] = "added" => pc[b] = "added" /\ item'[b] = item[b]
    BY DEF RetryAllDeadLetters, ReadPage, ReadBodies, EndOfPage, RequeueRejected, Abandon,
           Return, CountDeadLetters, RetryDeadLetter, DropMissingFails, IInv, TypeOK
  <2> QED BY <1>1, <2>1, <2>2, AdminAssumption DEF IInv, Requeued, Safe
<1>4. BodiesRead'
  <2>1. ASSUME NEW b \in Admins, pc'[b] \in {"items", "added"}
        PROVE  \/ ids'[b] \subseteq ids[b] /\ bodies'[b] = bodies[b] /\ pc[b] \in {"items", "added"}
               \/ \A u \in ids'[b] \ bodies'[b] : u \notin index
    <3>1. CASE RetryAllDeadLetters(a) \/ ReadPage(a) \/ ReadBodies(a) \/ EndOfPage(a)
      BY <2>1, <3>1 DEF RetryAllDeadLetters, ReadPage, ReadBodies, EndOfPage, IInv, TypeOK
    <3>2. CASE RequeueRejected(a) \/ Abandon(a) \/ CountDeadLetters(a)
      BY <2>1, <3>2 DEF RequeueRejected, Abandon, Return, CountDeadLetters, IInv, TypeOK
    <3>3. ASSUME NEW t \in Tasks, RetryDeadLetter(a, t) \/ DropMissingFails(a, t)
          PROVE  \/ ids'[b] \subseteq ids[b] /\ bodies'[b] = bodies[b] /\ pc[b] \in {"items", "added"}
                 \/ \A u \in ids'[b] \ bodies'[b] : u \notin index
      BY <2>1, <3>3 DEF RetryDeadLetter, DropMissingFails, IInv, TypeOK
    <3> QED BY <3>1, <3>2, <3>3
  <2> QED BY <1>1, <2>1 DEF IInv, BodiesRead, Safe
<1> QED BY <1>1, <1>2, <1>3, <1>4 DEF IInv, PurgeHalfDone, NoOrphans, RetryLosesNothing, Accounted, Safe

\* Steps of a call that change the DLQ or the stream.
LEMMA AdminStep ==
  ASSUME IInv, NEW a \in Admins,
         \/ DeleteRequeued(a) \/ PurgeAllDeadLetters(a)
         \/ \E t \in Tasks : DropMissing(a, t) \/ Requeue(a, t)
  PROVE  IInv'
<1>1. CASE DeleteRequeued(a)
  <2>1. item[a] \in Tasks BY <1>1 DEF DeleteRequeued, IInv, Requeued
  <2>2. TypeOK'
    BY <1>1, AdminAssumption DEF DeleteRequeued, DeleteDeadLetter, IInv, TypeOK, agedVars, histVars
  <2>3. Requeued'
    BY <1>1, AdminAssumption DEF DeleteRequeued, IInv, TypeOK, Requeued, Safe, histVars
  <2>4. item[a] \notin raced => Safe(item[a])
    BY <2>1, AdminAssumption DEF IInv, Requeued
  <2>5. RetryLosesNothing'
    BY <1>1, <2>4 DEF DeleteRequeued, DeleteDeadLetter, IInv, RetryLosesNothing, Accounted, Safe, histVars
  <2>6. BodiesRead' /\ PurgeHalfDone' /\ NoOrphans'
    BY <1>1 DEF DeleteRequeued, DeleteDeadLetter, IInv, TypeOK, BodiesRead, PurgeHalfDone,
                NoOrphans, Safe, agedVars, histVars
  <2> QED BY <2>2, <2>3, <2>5, <2>6 DEF IInv
<1>2. CASE PurgeAllDeadLetters(a)
  BY <1>2, AdminAssumption
     DEF PurgeAllDeadLetters, IInv, TypeOK, Requeued, BodiesRead, PurgeHalfDone, NoOrphans,
         RetryLosesNothing, Accounted, Safe, agedVars
<1>3. ASSUME NEW t \in Tasks, DropMissing(a, t) PROVE IInv'
  <2>1. CASE t \notin index
    BY <1>3, <2>1
       DEF DropMissing, DeleteDeadLetter, IInv, TypeOK, Requeued, BodiesRead, PurgeHalfDone, NoOrphans,
           RetryLosesNothing, Accounted, Safe, agedVars, histVars
  <2>2. CASE t \in index
    BY <1>3, <2>2
       DEF DropMissing, DeleteDeadLetter, IInv, TypeOK, Requeued, BodiesRead, PurgeHalfDone, NoOrphans,
           RetryLosesNothing, Accounted, Safe, agedVars, histVars
  <2> QED BY <2>1, <2>2
<1>4. ASSUME NEW t \in Tasks, Requeue(a, t) PROVE IInv'
  <2>1. TypeOK'
    BY <1>4, AdminAssumption DEF Requeue, IInv, TypeOK, dlqVars, agedVars, histVars
  <2>2. queued'[t] > 0 /\ \A u \in Tasks : queued[u] > 0 => queued'[u] > 0
    BY <1>4 DEF Requeue, IInv, TypeOK
  <2>3. Requeued'
    BY <1>4, <2>2, AdminAssumption DEF Requeue, IInv, TypeOK, Requeued, Safe, histVars
  <2> QED
    BY <1>4, <2>1, <2>2, <2>3
       DEF Requeue, IInv, TypeOK, BodiesRead, PurgeHalfDone, NoOrphans, RetryLosesNothing, Accounted, Safe,
           dlqVars, agedVars, histVars
<1> QED BY <1>1, <1>2, <1>3, <1>4

\* The age purge: first the ZSET, then the index.
LEMMA PurgeStep ==
  ASSUME IInv, ReadAged \/ PurgeHDel \/ \E t \in Tasks : PurgeZRem(t)
  PROVE  IInv'
<1>1. CASE ReadAged
  BY <1>1, AdminAssumption
     DEF ReadAged, IInv, TypeOK, Requeued, BodiesRead, PurgeHalfDone, NoOrphans, RetryLosesNothing,
         Accounted, Safe, dlqVars, adminVars, histVars
<1>2. CASE PurgeHDel
  BY <1>2, AdminAssumption
     DEF PurgeHDel, IInv, TypeOK, Requeued, BodiesRead, PurgeHalfDone, NoOrphans, RetryLosesNothing,
         Accounted, Safe, adminVars
<1>3. ASSUME NEW t \in Tasks, PurgeZRem(t) PROVE IInv'
  BY <1>3, AdminAssumption
     DEF PurgeZRem, IInv, TypeOK, Requeued, BodiesRead, PurgeHalfDone, NoOrphans, RetryLosesNothing,
         Accounted, Safe, adminVars, histVars
<1> QED BY <1>1, <1>2, <1>3

\* Every step of a caller, of the age purge and of the executors.
LEMMA NextIInv == IInv /\ [Next]_vars => IInv'
<1> SUFFICES ASSUME IInv, [Next]_vars PROVE IInv' OBVIOUS
<1>1. CASE UNCHANGED vars
  BY <1>1 DEF vars, dlqVars, adminVars, agedVars, histVars, IInv, TypeOK, Requeued,
              BodiesRead, PurgeHalfDone, NoOrphans, RetryLosesNothing, Accounted, Safe
<1>2. ASSUME NEW t \in Tasks, Delete(t) PROVE IInv'
  BY <1>2, AdminAssumption
     DEF Delete, DeleteDeadLetter, IInv, TypeOK, Requeued, BodiesRead, PurgeHalfDone, NoOrphans,
         RetryLosesNothing, Accounted, Safe, adminVars, agedVars
<1>3. CASE Next
  <2>1. ASSUME NEW a \in Admins, Proceed(a) PROVE IInv'
    BY <2>1, CallStep, AdminStep DEF Proceed
  <2> QED BY <1>2, <1>3, <2>1, ExecutorStep, PurgeStep, CallStep DEF Next
<1> QED BY <1>1, <1>3

(***************************************************************************)
(* DeadLettersStayWhole.  An ID in the DLQ ZSET has its task in the index, *)
(* whatever calls overlap, unless the task was dead lettered again while   *)
(* its ID was being removed.                                               *)
(***************************************************************************)
THEOREM DeadLettersStayWhole == Spec => []NoOrphans
<1>1. IInv => NoOrphans BY DEF IInv
<1> QED BY <1>1, InitIInv, NextIInv, PTL DEF Spec

(***************************************************************************)
(* RetriesLoseNothing.  RetryDeadLetter and RetryAllDeadLetters enqueue    *)
(* before they delete, so that no overlap, failure or death of their       *)
(* callers loses a dead letter, unless the task was dead lettered again    *)
(* while its ID was being removed.                                         *)
(***************************************************************************)
THEOREM RetriesLoseNothing == Spec => []RetryLosesNothing
<1>1. IInv => RetryLosesNothing BY DEF IInv
<1> QED BY <1>1, InitIInv, NextIInv, PTL DEF Spec

=============================================================================
