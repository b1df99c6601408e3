------------------------ MODULE DelayedSchedulerProofs ------------------------
(***************************************************************************)
(* For any tasks, schedulers, administrators, delays, limits and faults:   *)
(* the callers that race for one member of the delayed set exclude each    *)
(* other, a unique key has one unfinished task at most, and how late a     *)
(* task can be is bounded.                                                 *)
(***************************************************************************)
EXTENDS DelayedScheduler, FiniteSetTheorems, WellFoundedInduction, TLAPS

\* The part of TypeOK the proofs need.
Placed ==
  /\ delayed \subseteq Tasks /\ running \subseteq Tasks
  /\ stream \in [Tasks -> Nat]
  /\ lock \in UniqueTasks \cup {NoTask}
  /\ apc \in [Admins -> {"idle", "run", "delete", "unlock"}]
  /\ target \in [Admins -> [task : Tasks \cup {NoTask}, retry : Nat]]

\* Every task that is somewhere, or holds the lock, was enqueued, once.
Known ==
  /\ Unfinished \subseteq accepted
  /\ deleted \subseteq accepted
  /\ lock # NoTask => lock \in accepted

\* The lock covers what is unfinished.  Between a deletion's ZREM and its DEL
\* nothing of the key is, and the lock is still held.
Covered ==
  Scope = "UntilSucceeded" =>
    /\ Unfinished \cap UniqueTasks \subseteq {lock}
    /\ \A a \in Admins : apc[a] = "unlock" =>
         /\ Unfinished \cap UniqueTasks = {}
         /\ lock # NoTask
         /\ \A b \in Admins : apc[b] = "unlock" => b = a

IInv == Placed /\ Known /\ OneEntry /\ Covered

\* What the invariant is about.
core == <<delayed, running, stream, lock, accepted, deleted, apc>>

\* The retry counts in a member's bytes are numbers.
LEMMA Initially == Init => IInv /\ retry \in [Tasks -> Nat]
<1> USE SchedulerAssumption DEF Init, NoTarget, Unfinished
<1> SUFFICES ASSUME Init PROVE IInv /\ retry \in [Tasks -> Nat]
  OBVIOUS
<1>1. Placed
  BY DEF Placed
<1>2. Unfinished = {}
  OBVIOUS
<1>3. Known /\ OneEntry /\ Covered
  BY <1>2 DEF Known, OneEntry, Covered
<1> QED
  BY <1>1, <1>3 DEF IInv

\* Steps that leave the places of the tasks and the calls alone.
LEMMA Aside ==
  ASSUME IInv, UNCHANGED core, target' \in [Admins -> [task : Tasks \cup {NoTask}, retry : Nat]]
  PROVE  IInv'
BY DEF IInv, Placed, Known, OneEntry, Covered, Unfinished, core

\* Clients.
LEMMA ClientStep ==
  ASSUME IInv, NEW t \in Tasks, Enqueue(t) \/ \E d \in Delays : EnqueueAt(t, d)
  PROVE  IInv'
<1> USE SchedulerAssumption DEF Unfinished
<1>1. /\ t \notin accepted /\ accepted' = accepted \cup {t}
      /\ t \notin Unfinished /\ t \notin deleted
      /\ t \in UniqueTasks => lock = NoTask
      /\ lock' = IF t \in UniqueTasks THEN t ELSE lock
      /\ UNCHANGED <<running, apc, target, deleted>>
  BY DEF IInv, Known, Placed, Enqueue, EnqueueAt, Accept, adminVars
<1>2. \/ delayed' = delayed /\ stream' = [stream EXCEPT ![t] = @ + 1]
      \/ delayed' = delayed \cup {t} /\ stream' = stream
  BY DEF Enqueue, EnqueueAt, AddDelayed
<1>3. Unfinished' = Unfinished \cup {t}
  BY <1>1, <1>2 DEF IInv, Placed
<1>4. Placed'
  BY <1>1, <1>2 DEF IInv, Placed
<1>5. Known'
  BY <1>1, <1>3 DEF IInv, Known
<1>6. OneEntry'
  BY <1>1, <1>2, <1>3 DEF IInv, Placed, OneEntry
<1>7. Covered'
  BY <1>1, <1>3 DEF IInv, Placed, Covered
<1> QED
  BY <1>4, <1>5, <1>6, <1>7 DEF IInv

\* A worker takes an entry, settles it or puts it back among the delayed ones.
LEMMA WorkerStep ==
  ASSUME IInv, NEW t \in Tasks, Start(t) \/ Settle(t) \/ \E d \in Delays : Fail(t, d)
  PROVE  IInv'
<1> USE SchedulerAssumption DEF Unfinished
<1>1. UNCHANGED <<apc, target, accepted, deleted>>
  BY DEF Start, Settle, Fail, adminVars, histVars
<1>2. CASE Start(t)
  <2>a. /\ stream[t] > 0 /\ delayed' = delayed /\ running' = running \cup {t}
        /\ stream' = [stream EXCEPT ![t] = stream[t] - 1]
    BY <1>2 DEF Start
  <2>b. lock' = lock \/ (lock' = NoTask /\ Scope = "UntilStart")
    BY <1>2 DEF Start, Release
  <2>c. stream[t] \in Nat /\ stream[t] <= 1
    BY DEF IInv, Placed, OneEntry
  <2>d. stream[t] = 1 /\ stream[t] - 1 = 0
    BY <2>a, <2>c
  <2>1. /\ stream[t] = 1 /\ delayed' = delayed /\ running' = running \cup {t}
        /\ stream' = [stream EXCEPT ![t] = 0]
        /\ lock' = lock \/ (lock' = NoTask /\ Scope = "UntilStart")
    BY <2>a, <2>b, <2>d
  <2>2. Unfinished' = Unfinished
    BY <2>1 DEF IInv, Placed
  <2>3. Placed' /\ Known' /\ Covered'
    BY <1>1, <2>1, <2>2 DEF IInv, Placed, Known, Covered
  <2>4. OneEntry'
    BY <1>1, <2>1, <2>2 DEF IInv, Placed, OneEntry
  <2> QED
    BY <2>3, <2>4 DEF IInv
<1>3. CASE Settle(t)
  <2>1. /\ t \in running /\ UNCHANGED <<delayed, stream>> /\ running' = running \ {t}
        /\ lock' = IF lock = t THEN NoTask ELSE lock
    BY <1>3 DEF Settle, Release
  <2>2. Unfinished' = Unfinished \ {t}
    BY <2>1 DEF IInv, Placed, OneEntry
  <2>3. Placed' /\ Known' /\ Covered'
    BY <1>1, <2>1, <2>2 DEF IInv, Placed, Known, Covered
  <2>4. OneEntry'
    BY <1>1, <2>1, <2>2 DEF IInv, Placed, OneEntry
  <2> QED
    BY <2>3, <2>4 DEF IInv
<1>4. CASE \E d \in Delays : Fail(t, d)
  <2>1. /\ t \in running /\ stream' = stream /\ running' = running \ {t} /\ delayed' = delayed \cup {t}
        /\ lock' = lock \/ (lock' = NoTask /\ Scope = "UntilSuccess")
    BY <1>4 DEF Fail, Release, AddDelayed
  <2>2. Unfinished' = Unfinished
    BY <2>1 DEF IInv, Placed
  <2>3. Placed' /\ Known' /\ Covered'
    BY <1>1, <2>1, <2>2 DEF IInv, Placed, Known, Covered
  <2>4. OneEntry'
    BY <1>1, <2>1, <2>2 DEF IInv, Placed, OneEntry
  <2> QED
    BY <2>3, <2>4 DEF IInv
<1> QED
  BY <1>2, <1>3, <1>4

\* A promotion moves members of the delayed set to the stream.
LEMMA MoveStep ==
  ASSUME IInv, NEW S \in SUBSET delayed,
         delayed' = delayed \ S,
         stream' = [t \in Tasks |-> IF t \in S THEN stream[t] + 1 ELSE stream[t]],
         UNCHANGED <<running, lock, accepted, deleted>>,
         apc' \in [Admins -> {"idle", "run", "delete", "unlock"}],
         \A a \in Admins : apc'[a] = "unlock" => apc[a] = "unlock",
         target' \in [Admins -> [task : Tasks \cup {NoTask}, retry : Nat]]
  PROVE  IInv'
<1> USE DEF Unfinished
<1>1. Unfinished' = Unfinished
  BY DEF IInv, Placed
<1>2. Placed'
  BY DEF IInv, Placed
<1>3. Known' /\ Covered'
  BY <1>1 DEF IInv, Known, Covered
<1>4. OneEntry'
  BY <1>1 DEF IInv, Placed, OneEntry
<1> QED
  BY <1>2, <1>3, <1>4 DEF IInv

\* A call of an administrator: the reads and refusals leave the places alone, a
\* forced promotion is a move, a deletion removes the member and then the lock.
LEMMA AdminStep ==
  ASSUME IInv, retry \in [Tasks -> Nat], NEW a \in Admins,
         \/ \E t \in Tasks, op \in {"run", "delete"} : Find(a, t, op)
         \/ ForcePromoteMember(a) \/ ForcePromoteRefused(a)
         \/ DeleteMember(a) \/ DeleteGone(a) \/ DeleteLock(a)
  PROVE  IInv'
<1> DEFINE T == target[a].task
<1> USE SchedulerAssumption
<1>1. target' \in [Admins -> [task : Tasks \cup {NoTask}, retry : Nat]]
  BY DEF IInv, Placed, Find, ForcePromoteMember, ForcePromoteRefused, DeleteMember, DeleteGone,
         DeleteLock, Return, NoTarget
<1>2. CASE \/ \E t \in Tasks, op \in {"run", "delete"} : Find(a, t, op)
           \/ ForcePromoteRefused(a) \/ DeleteGone(a)
  <2>1. /\ UNCHANGED <<delayed, running, stream, lock, accepted, deleted>>
        /\ apc' \in [Admins -> {"idle", "run", "delete", "unlock"}]
        /\ \A b \in Admins : apc'[b] = "unlock" => apc[b] = "unlock"
    BY <1>2 DEF IInv, Placed, Find, ForcePromoteRefused, DeleteGone, Return, taskVars, histVars
  <2> QED
    BY <1>1, <2>1 DEF IInv, Placed, Known, OneEntry, Covered, Unfinished
<1>3. CASE ForcePromoteMember(a)
  <2>1. T \in delayed /\ delayed' = delayed \ {T} /\ stream' = [stream EXCEPT ![T] = @ + 1]
        /\ UNCHANGED <<running, lock, accepted, deleted>>
    BY <1>3 DEF ForcePromoteMember, Present, RemDelayed
  <2>2. stream' = [t \in Tasks |-> IF t \in {T} THEN stream[t] + 1 ELSE stream[t]]
    BY <2>1 DEF IInv, Placed
  <2>3. /\ apc' \in [Admins -> {"idle", "run", "delete", "unlock"}]
        /\ \A b \in Admins : apc'[b] = "unlock" => apc[b] = "unlock"
    BY <1>3 DEF IInv, Placed, ForcePromoteMember, Return
  <2>4. {T} \in SUBSET delayed
    BY <2>1
  <2> HIDE DEF T
  <2> QED
    BY <1>1, <2>1, <2>2, <2>3, <2>4, MoveStep
<1>4. CASE DeleteMember(a)
  <2>1. /\ T \in delayed /\ delayed' = delayed \ {T} /\ deleted' = deleted \cup {T}
        /\ UNCHANGED <<running, stream, lock, accepted>>
    BY <1>4 DEF DeleteMember, Present, RemDelayed
  <2>2. /\ apc' \in [Admins -> {"idle", "run", "delete", "unlock"}]
        /\ \A b \in Admins : apc'[b] = "unlock" => apc[b] = "unlock" \/ (b = a /\ T \in UniqueTasks)
    BY <1>4 DEF IInv, Placed, DeleteMember, Return
  <2>3. Unfinished' = Unfinished \ {T} /\ T \in Unfinished
    BY <2>1 DEF IInv, Placed, OneEntry, Unfinished
  <2>4. Placed' /\ Known'
    BY <1>1, <2>1, <2>2, <2>3 DEF IInv, Placed, Known
  <2>5. OneEntry'
    BY <2>1, <2>3 DEF IInv, Placed, OneEntry
  <2>6. Covered'
    <3> SUFFICES ASSUME Scope = "UntilSucceeded" PROVE Covered'
      BY DEF Covered
    <3>1. Unfinished' \cap UniqueTasks \subseteq {lock'}
      BY <2>1, <2>3 DEF IInv, Covered
    <3>2. T \in UniqueTasks => lock = T /\ \A b \in Admins : apc[b] # "unlock"
      BY <2>3 DEF IInv, Covered
    <3>3. ASSUME NEW b \in Admins, apc'[b] = "unlock"
          PROVE  /\ Unfinished' \cap UniqueTasks = {} /\ lock' # NoTask
                 /\ \A c \in Admins : apc'[c] = "unlock" => c = b
      <4>1. CASE apc[b] = "unlock"
        BY <2>1, <2>2, <2>3, <3>2, <3>3, <4>1 DEF IInv, Covered
      <4>2. CASE b = a /\ T \in UniqueTasks
        BY <2>1, <2>2, <2>3, <3>1, <3>2, <4>2
      <4> QED
        BY <2>2, <3>3, <4>1, <4>2
    <3> QED
      BY <3>1, <3>3 DEF Covered
  <2> QED
    BY <2>4, <2>5, <2>6 DEF IInv
<1>5. CASE DeleteLock(a)
  <2>1. /\ apc[a] = "unlock" /\ lock' = NoTask /\ UNCHANGED <<delayed, running, stream, accepted, deleted>>
        /\ apc' = [apc EXCEPT ![a] = "idle"]
    BY <1>5 DEF DeleteLock, Return, histVars
  <2> QED
    BY <1>1, <2>1 DEF IInv, Placed, Known, OneEntry, Covered, Unfinished
<1> QED
  BY <1>2, <1>3, <1>4, <1>5

\* The invariant is inductive.
LEMMA Inductive == IInv /\ retry \in [Tasks -> Nat] /\ [Next]_vars => (IInv /\ retry \in [Tasks -> Nat])'
<1> SUFFICES ASSUME IInv, retry \in [Tasks -> Nat], [Next]_vars PROVE (IInv /\ retry \in [Tasks -> Nat])'
  OBVIOUS
<1>0. UNCHANGED vars \/ Next
  OBVIOUS
<1>1. retry' \in [Tasks -> Nat]
  <2>1. retry' = retry \/ \E t \in Tasks : retry' = [retry EXCEPT ![t] = @ + 1]
    BY <1>0 DEF Next, vars, taskVars, Tick, Enqueue, Start, Settle, EnqueueAt, Fail, Publish,
      LosePublish, Subscribe, PromoteReadyTasks, PromoteFails, Peek, PeekFails, TimerFires, Receive,
      Disconnect, Resubscribe, Crash, Find, ForcePromoteMember, ForcePromoteRefused, DeleteMember,
      DeleteGone, DeleteLock
  <2> QED
    BY <2>1
<1>2. target \in [Admins -> [task : Tasks \cup {NoTask}, retry : Nat]]
  BY DEF IInv, Placed
<1>3. CASE UNCHANGED vars
  BY <1>2, <1>3, Aside DEF vars, taskVars, adminVars, histVars, core
<1>4. CASE \/ Tick
           \/ \E at \in toNotify : Publish(at) \/ LosePublish(at)
           \/ \E s \in Schedulers :
                \/ Subscribe(s) \/ PromoteFails(s) \/ Peek(s) \/ PeekFails(s) \/ TimerFires(s)
                \/ Receive(s) \/ Disconnect(s) \/ Resubscribe(s) \/ Crash(s)
  <2>1. UNCHANGED core /\ target' = target
    BY <1>4 DEF core, Tick, Publish, LosePublish, Subscribe, PromoteFails, Peek, PeekFails, TimerFires,
      Receive, Disconnect, Resubscribe, Crash, taskVars, adminVars, histVars
  <2>2. target' \in [Admins -> [task : Tasks \cup {NoTask}, retry : Nat]]
    BY <1>2, <2>1
  <2> QED
    BY <1>1, <2>1, <2>2, Aside
<1>5. ASSUME NEW s \in Schedulers, PromoteReadyTasks(s) PROVE IInv'
  <2>1. PICK S \in SUBSET delayed :
          delayed' = delayed \ S /\ stream' = [t \in Tasks |-> IF t \in S THEN stream[t] + 1 ELSE stream[t]]
    BY <1>5 DEF PromoteReadyTasks, RemDelayed
  <2>2. UNCHANGED <<running, lock, accepted, deleted, apc, target>>
    BY <1>5 DEF PromoteReadyTasks, adminVars
  <2>3. apc' \in [Admins -> {"idle", "run", "delete", "unlock"}]
    BY <2>2 DEF IInv, Placed
  <2> QED
    BY <1>2, <2>1, <2>2, <2>3, MoveStep
<1>6. ASSUME NEW t \in Tasks, Enqueue(t) \/ \E d \in Delays : EnqueueAt(t, d) PROVE IInv'
  BY <1>6, ClientStep
<1>7. ASSUME NEW t \in Tasks, Start(t) \/ Settle(t) \/ \E d \in Delays : Fail(t, d) PROVE IInv'
  BY <1>7, WorkerStep
<1>8. ASSUME NEW a \in Admins,
             \/ \E t \in Tasks, op \in {"run", "delete"} : Find(a, t, op)
             \/ ForcePromoteMember(a) \/ ForcePromoteRefused(a)
             \/ DeleteMember(a) \/ DeleteGone(a) \/ DeleteLock(a)
      PROVE  IInv'
  BY <1>8, AdminStep
<1>9. IInv'
  BY <1>0, <1>3, <1>4, <1>5, <1>6, <1>7, <1>8 DEF Next
<1> QED
  BY <1>1, <1>9

\* A scheduler's promotion, a forced one and a deletion that race for one member
\* of the delayed set never give a task two stream entries, and a task whose
\* deletion was reported never runs.
THEOREM RacesExclude == Spec => []OneEntry
<1>1. IInv => OneEntry
  BY DEF IInv
<1> QED
  BY <1>1, Initially, Inductive, PTL DEF Spec

\* With scope UntilSucceeded, of the tasks of a unique key one at most is
\* unfinished, whatever is deleted, retried or promoted by force.
THEOREM UniqueKeyOnce == Spec => []UniqueUnfinished
<1>1. IInv => UniqueUnfinished
  <2> SUFFICES ASSUME IInv, Scope = "UntilSucceeded" PROVE Cardinality(Unfinished \cap UniqueTasks) <= 1
    BY DEF UniqueUnfinished
  <2>1. Unfinished \cap UniqueTasks \subseteq {lock}
    BY DEF IInv, Covered
  <2>2. IsFiniteSet({lock}) /\ Cardinality({lock}) = 1
    BY FS_Singleton
  <2>3. Cardinality(Unfinished \cap UniqueTasks) <= Cardinality({lock})
    BY <2>1, <2>2, FS_Subset
  <2> QED
    BY <2>2, <2>3
<1> QED
  BY <1>1, Initially, Inductive, PTL DEF Spec

-----------------------------------------------------------------------------
(* How late a task may be. *)

Longest == Max2(MaxSleep, PollInterval)

\* The part of TypeOK the proofs about time need.
Clocked ==
  /\ score \in [Tasks -> Nat] /\ late \in [Tasks -> Nat]
  /\ spc \in [Schedulers -> {"down", "promote", "peek", "sleep", "jitter"}]
  /\ timer \in [Schedulers -> Nat]
  /\ inbox \in [Schedulers -> SUBSET Nat]
  /\ aware \in [Schedulers -> SUBSET Tasks]
  /\ sub \in [Schedulers -> {"none", "up", "cut"}]

\* Only a delayed task that is due has waited.
DueWaits == \A t \in Tasks : t \notin delayed \/ score[t] > 0 => late[t] = 0

\* A scheduler knows of delayed tasks only, and of none while it is down.
Knows(s) ==
  /\ aware[s] \subseteq delayed
  /\ spc[s] = "down" => aware[s] = {}
  /\ spc[s] # "down" => sub[s] # "none"

\* A task that has waited so long meets the end of any scheduler's sleep in
\* time, whatever the scheduler knows of it.
Rests(s, t) ==
  /\ spc[s] = "sleep" => late[t] + timer[s] <= Longest
  /\ spc[s] = "jitter" => timer[s] <= MaxJitter /\ late[t] + timer[s] <= Overrun(Longest)
  /\ spc[s] = "peek" => late[t] = 0

\* A scheduler that sleeps and knows of the task wakes up for it, or has the
\* wakeup in its channel.
Wakes(s, t) ==
  /\ late[t] <= Overrun(MinSleep)
  /\ spc[s] = "sleep" => \/ late[t] + timer[s] <= MinSleep + score[t]
                         \/ late[t] = 0 /\ \E at \in inbox[s] : at <= score[t]
  /\ spc[s] = "jitter" => late[t] + timer[s] <= Overrun(MinSleep)

Paced(s) == Knows(s) /\ (\A t \in Tasks : Rests(s, t)) /\ (\A t \in aware[s] : Wakes(s, t))

TimeInv ==
  /\ Clocked
  /\ DueWaits
  /\ \A t \in Tasks : late[t] <= Overrun(Longest)
  /\ \A s \in Schedulers : Paced(s)

\* Every non-empty set of instants has an earliest one.
LEMMA Earliest ==
  ASSUME NEW S \in SUBSET Nat, S # {}
  PROVE  \E x \in S : \A y \in S : x <= y
<1>1. IsWellFoundedOn(OpToRel(<, Nat), Nat)
  BY NatLessThanWellFounded
<1>2. PICK x \in S : \A y \in S : ~ (<<y, x>> \in OpToRel(<, Nat))
  BY <1>1, WFMin
<1>3. ASSUME NEW y \in S PROVE x <= y
  <2>1. x \in Nat /\ y \in Nat
    OBVIOUS
  <2>2. ~(<<y, x>> \in {ss \in Nat \X Nat : ss[1] < ss[2]})
    BY <1>2 DEF OpToRel
  <2>3. <<y, x>> \in Nat \X Nat /\ <<y, x>>[1] = y /\ <<y, x>>[2] = x
    BY <2>1
  <2> QED BY <2>1, <2>2, <2>3
<1> QED BY <1>3

\* The bounds, in the order of their size.
LEMMA Spans ==
  /\ MinSleep \in Nat /\ MaxSleep \in Nat /\ MaxJitter \in Nat /\ PollInterval \in Nat
  /\ Longest \in Nat /\ Overrun(MinSleep) \in Nat /\ Overrun(Longest) \in Nat
  /\ 1 <= MinSleep /\ MinSleep <= MaxSleep /\ MaxSleep <= Longest /\ PollInterval <= Longest
  /\ MinSleep <= Overrun(MinSleep) /\ MinSleep + MaxJitter <= Overrun(MinSleep) + 1
  /\ Longest <= Overrun(Longest) /\ Longest + MaxJitter <= Overrun(Longest) + 1
BY SchedulerAssumption DEF Longest, Overrun, Max2

\* A sleep lasts no longer than the longest, and than any delayed task takes to
\* be due, or the shortest if one is due now.
LEMMA SleepFits ==
  ASSUME Clocked, delayed \subseteq Tasks
  PROVE  /\ CalculateSleep \in Nat /\ CalculateSleep <= Longest
         /\ \A t \in delayed : CalculateSleep <= MinSleep + score[t]
<1>1. CASE delayed = {}
  BY <1>1, Spans DEF CalculateSleep
<1>2. CASE delayed # {}
  <2> DEFINE S == {score[t] : t \in delayed}
             E == CHOOSE x \in S : \A t \in delayed : x <= score[t]
  <2>1. S \in SUBSET Nat /\ S # {}
    BY <1>2 DEF Clocked
  <2>2. \E x \in S : \A t \in delayed : x <= score[t]
    <3>1. \A t \in delayed : score[t] \in S
      OBVIOUS
    <3> HIDE DEF S
    <3>2. PICK x \in S : \A y \in S : x <= y
      BY <2>1, Earliest
    <3> QED BY <3>1, <3>2
  <2>3. E \in S /\ \A t \in delayed : E <= score[t]
    BY <2>2
  <2>4. CalculateSleep = IF E = 0 THEN MinSleep ELSE Min2(E, MaxSleep)
    BY <1>2 DEF CalculateSleep
  <2> HIDE DEF E
  <2>5. E \in Nat
    BY <2>1, <2>3
  <2>6. \A t \in delayed : score[t] \in Nat
    BY DEF Clocked
  <2> QED BY <2>3, <2>4, <2>5, <2>6, Spans DEF Min2
<1> QED BY <1>1, <1>2

\* A step of one scheduler that moves no task: the others keep their pace, even
\* if the waiting starts anew.
LEMMA OneMoves ==
  ASSUME TimeInv, NEW s \in Schedulers, Clocked', UNCHANGED <<delayed, score>>,
         late' = late \/ late' = [t \in Tasks |-> 0],
         \A r \in Schedulers \ {s} : UNCHANGED <<spc[r], timer[r], inbox[r], aware[r], sub[r]>>,
         Paced(s)'
  PROVE  TimeInv'
<1>1. \A t \in Tasks : late'[t] \in Nat /\ late[t] \in Nat /\ late'[t] <= late[t] /\ score[t] \in Nat
  BY DEF TimeInv, Clocked
<1>2. ASSUME NEW r \in Schedulers, r # s PROVE Paced(r)'
  <2>1. UNCHANGED <<spc[r], timer[r], inbox[r], aware[r], sub[r]>> /\ Paced(r) /\ timer[r] \in Nat
    BY <1>2 DEF TimeInv, Clocked
  <2>2. aware[r] \subseteq Tasks
    BY DEF TimeInv, Clocked
  <2>3. Knows(r)'
    BY <2>1 DEF Paced, Knows
  <2>4. ASSUME NEW t \in Tasks PROVE Rests(r, t)'
    BY <1>1, <2>1, <2>4, Spans DEF Paced, Rests
  <2>5. ASSUME NEW t \in aware[r] PROVE Wakes(r, t)'
    <3>1. Wakes(r, t) /\ t \in Tasks
      BY <2>1, <2>2 DEF Paced
    <3> QED BY <1>1, <2>1, <3>1, Spans DEF Wakes
  <2> QED BY <2>1, <2>3, <2>4, <2>5 DEF Paced
<1>3. DueWaits'
  BY <1>1 DEF TimeInv, DueWaits
<1>4. \A t \in Tasks : late'[t] <= Overrun(Longest)
  BY <1>1, Spans DEF TimeInv
<1> QED BY <1>2, <1>3, <1>4 DEF TimeInv

\* Nothing that time depends on changes.
LEMMA TimeAside ==
  ASSUME TimeInv, UNCHANGED <<delayed, score, late, aware, schedVars>>
  PROVE  TimeInv'
BY DEF TimeInv, Clocked, DueWaits, Paced, Knows, Rests, Wakes, schedVars

\* Tasks leave the delayed set: what is left has waited as long, or begins anew.
LEMMA RemStep ==
  ASSUME TimeInv, delayed \subseteq Tasks, NEW S, RemDelayed(S),
         late' \in [Tasks -> Nat], \A t \in Tasks : late'[t] \in {0, late[t]},
         \A t \in S \cap Tasks : late'[t] = 0,
         UNCHANGED <<timer, inbox, sub>>,
         spc' \in [Schedulers -> {"down", "promote", "peek", "sleep", "jitter"}],
         \A s \in Schedulers : \/ spc'[s] = spc[s]
                               \/ spc[s] = "promote" /\ spc'[s] = "peek" /\ \A t \in Tasks : late'[t] = 0
  PROVE  TimeInv'
<1> USE DEF RemDelayed
<1>1. \A t \in Tasks : late'[t] \in Nat /\ late[t] \in Nat /\ late'[t] <= late[t] /\ score[t] \in Nat
  BY DEF TimeInv, Clocked
<1>2. Clocked'
  BY DEF TimeInv, Clocked
<1>3. DueWaits'
  BY <1>1 DEF TimeInv, DueWaits, Clocked
<1>4. \A t \in Tasks : late'[t] <= Overrun(Longest)
  BY <1>1, Spans DEF TimeInv
<1>5. ASSUME NEW s \in Schedulers PROVE Paced(s)'
  <2>1. /\ aware'[s] = aware[s] \ S /\ aware[s] \subseteq delayed /\ aware[s] \subseteq Tasks
        /\ UNCHANGED <<timer[s], inbox[s], sub[s]>> /\ timer[s] \in Nat /\ Paced(s)
    BY DEF TimeInv, Clocked, Paced, Knows
  <2>2. \/ spc'[s] = spc[s]
        \/ spc[s] = "promote" /\ spc'[s] = "peek" /\ \A t \in Tasks : late'[t] = 0
    OBVIOUS
  <2>3. Knows(s)'
    BY <2>1, <2>2 DEF Paced, Knows
  <2>4. ASSUME NEW t \in Tasks PROVE Rests(s, t)'
    BY <1>1, <2>1, <2>2, Spans DEF Paced, Rests
  <2>5. ASSUME NEW t \in aware'[s] PROVE Wakes(s, t)'
    <3>1. t \in Tasks /\ t \notin S /\ Wakes(s, t)
      BY <2>1 DEF Paced
    <3>2. score'[t] = score[t]
      BY <3>1
    <3> QED BY <1>1, <2>1, <2>2, <3>1, <3>2, Spans DEF Wakes
  <2> QED BY <2>3, <2>4, <2>5 DEF Paced
<1> QED BY <1>2, <1>3, <1>4, <1>5 DEF TimeInv

\* A task joins the delayed set: it has not waited, and nobody knows of it.
LEMMA AddStep ==
  ASSUME TimeInv, NEW t \in Tasks \ delayed, NEW d \in Nat, AddDelayed(t, d), UNCHANGED schedVars
  PROVE  TimeInv'
<1> USE DEF AddDelayed, schedVars
<1>1. Clocked' /\ UNCHANGED <<late, aware, spc, timer, inbox, sub>>
  BY DEF TimeInv, Clocked
<1>2. late[t] = 0
  BY DEF TimeInv, DueWaits
<1>3. DueWaits' /\ \A u \in Tasks : late'[u] <= Overrun(Longest)
  BY <1>1, <1>2 DEF TimeInv, DueWaits, Clocked
<1>4. ASSUME NEW s \in Schedulers PROVE Paced(s)'
  <2>1. Paced(s) /\ aware[s] \subseteq delayed /\ aware[s] \subseteq Tasks
    BY DEF TimeInv, Clocked, Paced, Knows
  <2>2. Knows(s)' /\ \A u \in Tasks : Rests(s, u)'
    BY <1>1, <2>1 DEF Paced, Knows, Rests
  <2>3. ASSUME NEW u \in aware[s] PROVE Wakes(s, u)'
    <3>1. score'[u] = score[u] /\ Wakes(s, u)
      BY <2>1 DEF Paced, TimeInv, Clocked
    <3> QED BY <1>1, <3>1 DEF Wakes
  <2> QED BY <1>1, <2>2, <2>3 DEF Paced
<1> QED BY <1>1, <1>3, <1>4 DEF TimeInv

\* A wakeup is published: who is subscribed has it in the channel.
LEMMA PublishStep ==
  ASSUME TimeInv, delayed \subseteq Tasks, NEW at \in Nat, Publish(at)
  PROVE  TimeInv'
<1> USE DEF Publish
<1>1. Clocked' /\ UNCHANGED <<delayed, score, late, spc, timer, sub>>
  <2>1. inbox' \in [Schedulers -> SUBSET Nat] /\ aware' \in [Schedulers -> SUBSET Tasks]
    BY DEF TimeInv, Clocked
  <2> QED BY <2>1 DEF TimeInv, Clocked
<1>2. DueWaits' /\ \A t \in Tasks : late'[t] <= Overrun(Longest)
  BY <1>1 DEF TimeInv, DueWaits
<1>3. ASSUME NEW s \in Schedulers PROVE Paced(s)'
  <2>1. Paced(s) /\ timer[s] \in Nat
    BY DEF TimeInv, Clocked
  <2>2. /\ inbox[s] \subseteq inbox'[s] /\ (sub[s] = "up" => at \in inbox'[s])
        /\ aware[s] \subseteq aware'[s] /\ aware'[s] \subseteq delayed
        /\ \A t \in aware'[s] \ aware[s] : /\ spc[s] # "down" /\ sub[s] # "cut"
                                           /\ score[t] = at /\ late[t] = 0
    BY <2>1 DEF Paced, Knows
  <2>3. Knows(s)' /\ \A t \in Tasks : Rests(s, t)'
    BY <1>1, <2>1, <2>2 DEF Paced, Knows, Rests
  <2>4. ASSUME NEW t \in aware'[s] PROVE Wakes(s, t)'
    <3>1. CASE t \in aware[s]
      BY <1>1, <2>1, <2>2, <3>1 DEF Paced, Wakes
    <3>2. CASE t \notin aware[s]
      <4>1. score[t] = at /\ late[t] = 0 /\ sub[s] # "none" /\ sub[s] # "cut" /\ t \in Tasks
        BY <2>1, <2>2, <2>4, <3>2 DEF Paced, Knows
      <4>2. sub[s] = "up" /\ at \in inbox'[s]
        BY <2>2, <4>1 DEF TimeInv, Clocked
      <4>3. spc[s] = "jitter" => timer[s] <= MaxJitter
        BY <2>1, <4>1 DEF Paced, Rests
      <4> QED BY <1>1, <2>1, <4>1, <4>2, <4>3, Spans DEF Wakes
    <3> QED BY <3>1, <3>2
  <2> QED BY <2>3, <2>4 DEF Paced
<1> QED BY <1>1, <1>2, <1>3 DEF TimeInv

\* Time passes only while every scheduler that is up waits with an empty
\* channel, or for its jitter to end.
LEMMA TickStep ==
  ASSUME TimeInv, delayed \subseteq Tasks, Tick
  PROVE  TimeInv'
<1> USE DEF Tick
<1>1. /\ UNCHANGED <<delayed, spc, sub, aware>>
      /\ \A t \in Tasks : score[t] \in Nat /\ late[t] \in Nat
      /\ \A s \in Schedulers : timer[s] \in Nat
  BY DEF TimeInv, Clocked
<1>2. \A t \in Tasks : /\ score'[t] = IF score[t] = 0 THEN 0 ELSE score[t] - 1
                       /\ score'[t] \in Nat
  BY <1>1 DEF Closer
<1>3. \A t \in Tasks : /\ late'[t] \in Nat
                       /\ late'[t] = late[t] \/ (late'[t] = late[t] + 1 /\ t \in delayed /\ score[t] = 0
                                                 /\ \E s \in Schedulers : Up(s))
  BY <1>1
<1>4. \A s \in Schedulers : /\ timer'[s] = IF timer[s] = 0 THEN 0 ELSE timer[s] - 1
                            /\ timer'[s] \in Nat
  BY <1>1 DEF Closer
<1>5. Clocked'
  <2>1. score' \in [Tasks -> Nat] /\ late' \in [Tasks -> Nat] /\ timer' \in [Schedulers -> Nat]
    BY <1>1, <1>2, <1>3, <1>4
  <2>2. \A s \in Schedulers : inbox'[s] \in SUBSET Nat
    BY DEF TimeInv, Clocked, Closer
  <2>3. inbox' \in [Schedulers -> SUBSET Nat]
    BY <2>2
  <2> QED BY <1>1, <2>1, <2>3 DEF TimeInv, Clocked
<1>6. DueWaits'
  BY <1>1, <1>2, <1>3 DEF TimeInv, DueWaits
<1>7. ASSUME NEW s \in Schedulers, Up(s)
      PROVE  /\ spc[s] = "jitter" \/ (spc[s] = "sleep" /\ inbox[s] = {})
             /\ timer[s] > 0 /\ timer'[s] = timer[s] - 1
  BY <1>1, <1>4, <1>7 DEF Waits
<1>8. ASSUME NEW s \in Schedulers PROVE Paced(s)'
  <2>1. Paced(s)
    BY DEF TimeInv
  <2>2. Knows(s)'
    BY <1>1, <2>1 DEF Paced, Knows
  <2>3. ASSUME NEW t \in Tasks PROVE Rests(s, t)'
    <3>1. Rests(s, t)
      BY <2>1 DEF Paced
    <3> QED BY <1>1, <1>3, <1>4, <1>7, <3>1, Spans DEF Rests, Up
  <2>4. ASSUME NEW t \in aware[s] PROVE Wakes(s, t)'
    <3>1. Wakes(s, t) /\ t \in Tasks /\ spc[s] # "down"
      BY <2>1 DEF Paced, Knows
    <3>2. /\ timer[s] > 0 /\ timer'[s] = timer[s] - 1
          /\ spc[s] = "jitter" \/ (spc[s] = "sleep" /\ inbox[s] = {})
      BY <1>7, <3>1 DEF Up
    <3>3. CASE spc[s] = "jitter"
      BY <1>1, <1>3, <3>1, <3>2, <3>3, Spans DEF Wakes
    <3>4. CASE spc[s] = "sleep"
      <4>1. late[t] + timer[s] <= MinSleep + score[t] /\ late[t] <= Overrun(MinSleep)
        BY <3>1, <3>2, <3>4 DEF Wakes
      <4>2. late'[t] + timer'[s] <= MinSleep + score'[t]
        BY <1>1, <1>2, <1>3, <3>1, <3>2, <4>1, Spans
      <4>3. late'[t] <= Overrun(MinSleep)
        BY <1>1, <1>3, <3>1, <3>2, <4>1, Spans
      <4> QED BY <1>1, <3>4, <4>2, <4>3 DEF Wakes
    <3> QED BY <3>2, <3>3, <3>4
  <2> QED BY <1>1, <2>2, <2>3, <2>4 DEF Paced
<1>9. ASSUME NEW t \in Tasks PROVE late'[t] <= Overrun(Longest)
  <2>1. CASE late'[t] = late[t]
    BY <2>1 DEF TimeInv
  <2>2. CASE late'[t] # late[t]
    <3>1. PICK s \in Schedulers : Up(s)
      BY <1>3, <2>2
    <3>2. Rests(s, t)'
      BY <1>8 DEF Paced
    <3>3. spc'[s] \in {"sleep", "jitter"} /\ timer'[s] \in Nat /\ late'[t] \in Nat
      BY <1>1, <1>3, <1>4, <1>7, <3>1
    <3> QED BY <3>2, <3>3, Spans DEF Rests
  <2> QED BY <2>1, <2>2
<1> QED BY <1>5, <1>6, <1>8, <1>9 DEF TimeInv

\* A scheduler's own steps.
LEMMA SchedulerStep ==
  ASSUME TimeInv, delayed \subseteq Tasks, NEW s \in Schedulers,
         \/ Subscribe(s) \/ PromoteReadyTasks(s) \/ PromoteFails(s) \/ Peek(s) \/ PeekFails(s)
         \/ TimerFires(s) \/ Receive(s) \/ Disconnect(s) \/ Resubscribe(s) \/ Crash(s)
  PROVE  TimeInv'
<1>1. /\ Clocked /\ Paced(s) /\ Knows(s) /\ timer[s] \in Nat /\ aware[s] \subseteq Tasks
      /\ \A t \in Tasks : late[t] \in Nat /\ score[t] \in Nat /\ Rests(s, t) /\ late[t] <= Overrun(Longest)
      /\ \A t \in aware[s] : Wakes(s, t)
  BY DEF TimeInv, Clocked, Paced
<1>2. CASE Subscribe(s)
  <2>1. Clocked'
    BY <1>1, <1>2 DEF Subscribe, Clocked, taskVars, histVars
  <2>2. /\ UNCHANGED <<delayed, score, late, aware>> /\ spc'[s] = "promote" /\ sub'[s] = "up" /\ aware[s] = {}
        /\ \A r \in Schedulers \ {s} : UNCHANGED <<spc[r], timer[r], inbox[r], aware[r], sub[r]>>
    BY <1>1, <1>2 DEF Subscribe, Clocked, Knows, taskVars, histVars
  <2>3. Paced(s)'
    BY <1>1, <2>2 DEF Paced, Knows, Rests, Wakes
  <2> QED BY <2>1, <2>2, <2>3, OneMoves
<1>3. CASE PromoteReadyTasks(s)
  <2>1. PICK S \in SUBSET delayed :
          /\ RemDelayed(S)
          /\ spc' = [spc EXCEPT ![s] = IF Cardinality(S) < BatchSize THEN "peek" ELSE "promote"]
          /\ NotLate(IF Cardinality(S) < BatchSize THEN Tasks ELSE S)
    BY <1>3 DEF PromoteReadyTasks
  <2>2. /\ late' \in [Tasks -> Nat] /\ \A t \in Tasks : late'[t] \in {0, late[t]}
        /\ \A t \in S \cap Tasks : late'[t] = 0
        /\ Cardinality(S) < BatchSize => \A t \in Tasks : late'[t] = 0
    BY <1>1, <2>1 DEF NotLate
  <2>3. UNCHANGED <<timer, inbox, sub>> /\ spc[s] = "promote"
    BY <1>3 DEF PromoteReadyTasks
  <2>4. /\ spc' \in [Schedulers -> {"down", "promote", "peek", "sleep", "jitter"}]
        /\ \A r \in Schedulers : \/ spc'[r] = spc[r]
                                 \/ spc[r] = "promote" /\ spc'[r] = "peek" /\ \A t \in Tasks : late'[t] = 0
    BY <1>1, <2>1, <2>2, <2>3 DEF Clocked
  <2> QED BY <2>1, <2>2, <2>3, <2>4, RemStep
<1>4. CASE PromoteFails(s)
  <2>1. late' = [t \in Tasks |-> 0] /\ UNCHANGED <<delayed, score, aware, timer, inbox, sub>>
    BY <1>4 DEF PromoteFails, NotLate, taskVars
  <2>2. Clocked' /\ spc'[s] = "peek" /\ spc[s] = "promote"
        /\ \A r \in Schedulers \ {s} : UNCHANGED <<spc[r], timer[r], inbox[r], aware[r], sub[r]>>
    BY <1>1, <1>4, <2>1 DEF PromoteFails, Clocked
  <2>3. Paced(s)'
    BY <1>1, <2>1, <2>2, Spans DEF Paced, Knows, Rests, Wakes
  <2> QED BY <2>1, <2>2, <2>3, OneMoves
<1>5. CASE Peek(s)
  <2>1. /\ UNCHANGED <<delayed, score, late, inbox, sub>> /\ spc[s] = "peek"
        /\ spc' = [spc EXCEPT ![s] = "sleep"] /\ timer' = [timer EXCEPT ![s] = CalculateSleep]
        /\ aware' = [aware EXCEPT ![s] = @ \cup delayed]
    BY <1>5 DEF Peek, Sleep, taskVars
  <2>2. Clocked' /\ spc'[s] = "sleep" /\ timer'[s] = CalculateSleep /\ aware'[s] = delayed
        /\ \A r \in Schedulers \ {s} : UNCHANGED <<spc[r], timer[r], inbox[r], aware[r], sub[r]>>
    BY <1>1, <2>1, SleepFits DEF Clocked, Knows
  <2>3. \A t \in Tasks : late[t] = 0
    BY <1>1, <2>1 DEF Rests
  <2>4. Paced(s)'
    <3>1. Knows(s)'
      BY <1>1, <2>1, <2>2 DEF Knows
    <3>2. \A t \in Tasks : Rests(s, t)'
      BY <1>1, <2>1, <2>2, <2>3, SleepFits, Spans DEF Rests
    <3>3. \A t \in delayed : Wakes(s, t)'
      BY <1>1, <2>1, <2>2, <2>3, SleepFits, Spans DEF Wakes
    <3> QED BY <2>2, <3>1, <3>2, <3>3 DEF Paced
  <2> QED BY <2>1, <2>2, <2>4, OneMoves
<1>6. CASE PeekFails(s)
  <2>1. /\ UNCHANGED <<delayed, score, late, inbox, sub>> /\ spc[s] = "peek"
        /\ spc' = [spc EXCEPT ![s] = "sleep"] /\ timer' = [timer EXCEPT ![s] = PollInterval]
        /\ aware' = [aware EXCEPT ![s] = {}]
    BY <1>6 DEF PeekFails, Sleep, taskVars
  <2>2. Clocked' /\ spc'[s] = "sleep" /\ timer'[s] = PollInterval /\ aware'[s] = {}
        /\ \A r \in Schedulers \ {s} : UNCHANGED <<spc[r], timer[r], inbox[r], aware[r], sub[r]>>
    BY <1>1, <2>1, Spans DEF Clocked
  <2>3. Paced(s)'
    BY <1>1, <2>1, <2>2, Spans DEF Paced, Knows, Rests
  <2> QED BY <2>1, <2>2, <2>3, OneMoves
<1>7. CASE TimerFires(s)
  <2>1. /\ UNCHANGED <<delayed, score, late, aware, timer, inbox, sub>> /\ spc[s] \in {"sleep", "jitter"}
        /\ spc' = [spc EXCEPT ![s] = "promote"]
    BY <1>7 DEF TimerFires, taskVars, histVars
  <2>2. Clocked' /\ spc'[s] = "promote"
        /\ \A r \in Schedulers \ {s} : UNCHANGED <<spc[r], timer[r], inbox[r], aware[r], sub[r]>>
    BY <1>1, <2>1 DEF Clocked
  <2>3. Paced(s)'
    BY <1>1, <2>1, <2>2 DEF Paced, Knows, Rests, Wakes
  <2> QED BY <2>1, <2>2, <2>3, OneMoves
<1>8. CASE Receive(s)
  <2>1. PICK at \in inbox[s] :
          /\ inbox' = [inbox EXCEPT ![s] = @ \ {at}]
          /\ IF at >= timer[s]
             THEN UNCHANGED <<spc, timer>>
             ELSE \E j \in 0 .. MaxJitter :
                    /\ spc' = [spc EXCEPT ![s] = "jitter"]
                    /\ timer' = [timer EXCEPT ![s] = j]
    BY <1>8 DEF Receive
  <2>2. UNCHANGED <<delayed, score, late, aware, sub>> /\ spc[s] = "sleep"
    BY <1>8 DEF Receive, taskVars, histVars
  <2>3. at \in Nat /\ inbox' \in [Schedulers -> SUBSET Nat] /\ inbox'[s] = inbox[s] \ {at}
    BY <1>1, <2>1 DEF Clocked
  <2>4. CASE at >= timer[s]
    <3>1. UNCHANGED <<spc, timer>>
      BY <2>1, <2>4
    <3>2. Clocked' /\ \A r \in Schedulers \ {s} : UNCHANGED <<spc[r], timer[r], inbox[r], aware[r], sub[r]>>
      BY <1>1, <2>1, <2>2, <2>3, <3>1 DEF Clocked
    <3>3. ASSUME NEW t \in aware[s] PROVE Wakes(s, t)'
      <4>1. Wakes(s, t) /\ t \in Tasks
        BY <1>1
      <4>2. late[t] = 0 /\ at <= score[t] => late[t] + timer[s] <= MinSleep + score[t]
        BY <1>1, <2>3, <2>4, <4>1, Spans
      <4> QED BY <2>2, <2>3, <3>1, <4>1, <4>2 DEF Wakes
    <3>4. Paced(s)'
      BY <1>1, <2>2, <3>1, <3>3 DEF Paced, Knows, Rests
    <3> QED BY <2>2, <3>2, <3>4, OneMoves
  <2>5. CASE at < timer[s]
    <3>1. PICK j \in 0 .. MaxJitter :
            spc' = [spc EXCEPT ![s] = "jitter"] /\ timer' = [timer EXCEPT ![s] = j]
      BY <1>1, <2>1, <2>3, <2>5
    <3>2. j \in Nat /\ j <= MaxJitter
      BY <3>1, Spans
    <3>3. Clocked' /\ \A r \in Schedulers \ {s} : UNCHANGED <<spc[r], timer[r], inbox[r], aware[r], sub[r]>>
      BY <1>1, <2>1, <2>2, <2>3, <3>1, <3>2 DEF Clocked
    <3>4. spc'[s] = "jitter" /\ timer'[s] = j
      BY <1>1, <3>1 DEF Clocked
    <3>5. ASSUME NEW t \in Tasks PROVE Rests(s, t)'
      <4>1. late[t] + timer[s] <= Longest /\ late[t] \in Nat
        BY <1>1, <2>2 DEF Rests
      <4>2. late[t] + j <= Overrun(Longest)
        BY <1>1, <2>3, <2>5, <3>2, <4>1, Spans
      <4> QED BY <2>2, <3>2, <3>4, <4>2 DEF Rests
    <3>6. ASSUME NEW t \in aware[s] PROVE Wakes(s, t)'
      <4>1. Wakes(s, t) /\ t \in Tasks /\ late[t] \in Nat /\ score[t] \in Nat /\ (score[t] > 0 => late[t] = 0)
        BY <1>1 DEF TimeInv, DueWaits
      <4>2. late[t] + 1 <= MinSleep
        BY <1>1, <2>2, <2>3, <2>5, <4>1, Spans DEF Wakes
      <4>3. late[t] + j <= Overrun(MinSleep) /\ late[t] <= Overrun(MinSleep)
        BY <3>2, <4>1, <4>2, Spans
      <4> QED BY <2>2, <3>4, <4>3 DEF Wakes
    <3>7. Paced(s)'
      BY <1>1, <2>2, <3>4, <3>5, <3>6 DEF Paced, Knows
    <3> QED BY <2>2, <3>3, <3>7, OneMoves
  <2> QED BY <1>1, <2>3, <2>4, <2>5
<1>9. CASE Disconnect(s) \/ Resubscribe(s)
  <2>1. /\ UNCHANGED <<delayed, score, late, aware, spc, timer, inbox>>
        /\ sub' = [sub EXCEPT ![s] = "cut"] \/ sub' = [sub EXCEPT ![s] = "up"]
    BY <1>9 DEF Disconnect, Resubscribe, taskVars, histVars
  <2>2. Clocked' /\ sub'[s] # "none"
        /\ \A r \in Schedulers \ {s} : UNCHANGED <<spc[r], timer[r], inbox[r], aware[r], sub[r]>>
    BY <1>1, <2>1 DEF Clocked
  <2>3. Paced(s)'
    BY <1>1, <2>1, <2>2 DEF Paced, Knows, Rests, Wakes
  <2> QED BY <2>1, <2>2, <2>3, OneMoves
<1>10. CASE Crash(s)
  <2>1. /\ UNCHANGED <<delayed, score, late>>
        /\ spc' = [spc EXCEPT ![s] = "down"] /\ sub' = [sub EXCEPT ![s] = "none"]
        /\ inbox' = [inbox EXCEPT ![s] = {}] /\ timer' = [timer EXCEPT ![s] = 0]
        /\ aware' = [aware EXCEPT ![s] = {}]
    BY <1>10 DEF Crash, taskVars
  <2>2. Clocked' /\ spc'[s] = "down" /\ aware'[s] = {}
        /\ \A r \in Schedulers \ {s} : UNCHANGED <<spc[r], timer[r], inbox[r], aware[r], sub[r]>>
    BY <1>1, <2>1 DEF Clocked
  <2>3. Paced(s)'
    BY <2>2 DEF Paced, Knows, Rests
  <2> QED BY <2>1, <2>2, <2>3, OneMoves
<1> QED BY <1>2, <1>3, <1>4, <1>5, <1>6, <1>7, <1>8, <1>9, <1>10

\* Together with the places of the tasks, the invariant of time is inductive.
LEMMA TimeInductive ==
  ASSUME IInv, TimeInv, toNotify \subseteq Nat, [Next]_vars
  PROVE  TimeInv' /\ toNotify' \subseteq Nat
<1>1. delayed \subseteq Tasks /\ \A t \in running : t \notin delayed
  BY DEF IInv, Placed, OneEntry
<1>2. toNotify' \subseteq Nat
  <2>1. toNotify' \subseteq toNotify \cup Delays
    BY DEF Next, vars, taskVars, Tick, Enqueue, Start, Settle, EnqueueAt, Fail, AddDelayed, Publish,
      LosePublish, Subscribe, PromoteReadyTasks, PromoteFails, Peek, PeekFails, TimerFires, Receive,
      Disconnect, Resubscribe, Crash, Find, ForcePromoteMember, ForcePromoteRefused, DeleteMember,
      DeleteGone, DeleteLock
  <2> QED BY <2>1, SchedulerAssumption
<1>3. CASE UNCHANGED vars
  BY <1>2, <1>3, TimeAside DEF vars, taskVars, histVars
<1>4. CASE Tick
  BY <1>1, <1>2, <1>4, TickStep
<1>5. ASSUME NEW t \in Tasks, Enqueue(t) \/ Start(t) \/ Settle(t) PROVE TimeInv'
  BY <1>5, TimeAside DEF Enqueue, Start, Settle, histVars
<1>6. ASSUME NEW t \in Tasks, NEW d \in Delays, EnqueueAt(t, d) \/ Fail(t, d) PROVE TimeInv'
  <2>1. t \notin delayed
    BY <1>1, <1>6 DEF EnqueueAt, Fail, Accept, IInv, Known, Unfinished
  <2>2. AddDelayed(t, d) /\ UNCHANGED schedVars /\ d \in Nat
    BY <1>6, SchedulerAssumption DEF EnqueueAt, Fail
  <2> QED BY <2>1, <2>2, AddStep
<1>7. ASSUME NEW at \in toNotify, Publish(at) \/ LosePublish(at) PROVE TimeInv'
  <2>1. at \in Nat
    OBVIOUS
  <2>2. CASE Publish(at)
    BY <1>1, <2>1, <2>2, PublishStep
  <2>3. CASE LosePublish(at)
    BY <2>3, TimeAside DEF LosePublish
  <2> QED BY <1>7, <2>2, <2>3
<1>8. ASSUME NEW s \in Schedulers,
             \/ Subscribe(s) \/ PromoteReadyTasks(s) \/ PromoteFails(s) \/ Peek(s) \/ PeekFails(s)
             \/ TimerFires(s) \/ Receive(s) \/ Disconnect(s) \/ Resubscribe(s) \/ Crash(s)
      PROVE  TimeInv'
  BY <1>1, <1>8, SchedulerStep
<1>9. ASSUME NEW a \in Admins,
             \/ \E t \in Tasks, op \in {"run", "delete"} : Find(a, t, op)
             \/ ForcePromoteRefused(a) \/ DeleteGone(a) \/ DeleteLock(a)
      PROVE  TimeInv'
  BY <1>9, TimeAside DEF Find, ForcePromoteRefused, DeleteGone, DeleteLock, taskVars, histVars
<1>10. ASSUME NEW a \in Admins, ForcePromoteMember(a) \/ DeleteMember(a) PROVE TimeInv'
  <2> DEFINE T == target[a].task
  <2>1. RemDelayed({T}) /\ NotLate({T}) /\ UNCHANGED <<spc, timer, inbox, sub>>
    BY <1>10 DEF ForcePromoteMember, DeleteMember, schedVars
  <2> HIDE DEF T
  <2>2. /\ late' \in [Tasks -> Nat] /\ \A t \in Tasks : late'[t] \in {0, late[t]}
        /\ \A t \in {T} \cap Tasks : late'[t] = 0
    BY <2>1 DEF NotLate, TimeInv, Clocked
  <2>3. spc' \in [Schedulers -> {"down", "promote", "peek", "sleep", "jitter"}]
    BY <2>1 DEF TimeInv, Clocked
  <2> QED BY <1>1, <2>1, <2>2, <2>3, RemStep
<1> QED BY <1>2, <1>3, <1>4, <1>5, <1>6, <1>7, <1>8, <1>9, <1>10 DEF Next

\* A due task that some running scheduler knows of is promoted within the
\* shortest sleep and the jitter, any other within the longest sleep and the
\* jitter, for any number of schedulers and whatever is added, published, lost,
\* deleted, promoted by force or crashes meanwhile (LatenessBounded).
THEOREM WaitsAreBounded == Spec => []LatenessBounded
<1>1. Init => TimeInv /\ toNotify \subseteq Nat
  <2> SUFFICES ASSUME Init PROVE TimeInv /\ toNotify \subseteq Nat
    OBVIOUS
  <2>1. Clocked /\ DueWaits
    BY DEF Init, Clocked, DueWaits
  <2>2. \A t \in Tasks : late[t] <= Overrun(Longest)
    BY Spans DEF Init
  <2>3. \A s \in Schedulers : Paced(s)
    BY DEF Init, Paced, Knows, Rests
  <2> QED BY <2>1, <2>2, <2>3 DEF TimeInv, Init
<1>2. IInv /\ TimeInv => LatenessBounded
  <2> SUFFICES ASSUME IInv, TimeInv, NEW t \in delayed
               PROVE  late[t] <= IF \E s \in Schedulers : Up(s) /\ t \in aware[s]
                                 THEN Overrun(MinSleep) ELSE Overrun(Longest)
    BY DEF LatenessBounded, Longest
  <2>1. t \in Tasks
    BY DEF IInv, Placed
  <2> QED BY <2>1 DEF TimeInv, Paced, Wakes
<1>3. IInv /\ retry \in [Tasks -> Nat] /\ TimeInv /\ toNotify \subseteq Nat /\ [Next]_vars
        => (IInv /\ retry \in [Tasks -> Nat] /\ TimeInv /\ toNotify \subseteq Nat)'
  BY Inductive, TimeInductive
<1> QED BY <1>1, <1>2, <1>3, Initially, PTL DEF Spec

=============================================================================
