---------------------------- MODULE CronJobsProofs ----------------------------
(***************************************************************************)
(* For any jobs, configurations, callers, healers and limits: the chain of *)
(* a registered job is broken by a crash, a failed call or the capacity    *)
(* only.                                                                   *)
(***************************************************************************)
EXTENDS CronJobs, TLAPS

\* The part of TypeOK the proof needs.
Shape ==
  /\ config \in [Jobs -> Versions \cup {None}]
  /\ dpc \in [Admins -> {"idle", "xadd", "zrem", "hdel"}]
  /\ djob \in [Admins -> Jobs]
  /\ faults \in Nat
  /\ dropped \in BOOLEAN

ChainInv == Shape /\ ChainUnbroken

\* What has not been lost to a fault or the capacity before a step that loses
\* nothing.
Whole == faults = 0 /\ ~dropped

\* No job is registered at first.
LEMMA Initially == Init => ChainInv
<1> SUFFICES ASSUME Init PROVE ChainInv
  OBVIOUS
<1>1. PICK j \in Jobs : djob = [a \in Admins |-> j]
  BY DEF Init
<1>2. Shape
  BY <1>1 DEF Init, Shape
<1>3. ChainUnbroken
  BY DEF Init, ChainUnbroken
<1> QED
  BY <1>2, <1>3 DEF ChainInv

\* A step after which everything is whole found it whole, and every job that is
\* registered and not being deleted was so before, and keeps its occurrences or
\* has one of its own.
LEMMA Kept ==
  ASSUME ChainInv, Shape', Whole' => Whole,
         \A j \in Jobs : Whole' /\ config'[j] # None /\ ~Deleting(j)' =>
           \/ Occurrences(j)' # {}
           \/ config[j] # None /\ ~Deleting(j) /\ Occurrences(j) \subseteq Occurrences(j)'
  PROVE  ChainInv'
BY DEF ChainInv, ChainUnbroken, Whole

\* The history of faults and drops only grows.
LEMMA WholeBefore ==
  ASSUME Shape, \/ UNCHANGED <<faults, dropped>>
                \/ Fault
                \/ \E X : Drop(X)
  PROVE  /\ Whole' => Whole
         /\ faults' \in Nat /\ dropped' \in BOOLEAN
<1>1. CASE UNCHANGED <<faults, dropped>>
  BY <1>1 DEF Shape, Whole
<1>2. CASE Fault
  BY <1>2 DEF Shape, Whole, Fault
<1>3. ASSUME NEW X, Drop(X)
      PROVE  (Whole' => Whole) /\ faults' \in Nat /\ dropped' \in BOOLEAN
  <2>1. faults' = faults /\ dropped' = (dropped \/ X # {})
    BY <1>3 DEF Drop
  <2>2. dropped' \in BOOLEAN
    BY <2>1
  <2>3. Whole' => Whole
    BY <2>1 DEF Whole
  <2> QED
    BY <2>1, <2>2, <2>3 DEF Shape
<1> QED
  BY <1>1, <1>2, <1>3

\* A system member is added; without a drop nothing else goes.
LEMMA Added ==
  ASSUME Shape, NEW m, ZAddDelayedSystem(m)
  PROVE  /\ Whole' => Whole
         /\ faults' \in Nat /\ dropped' \in BOOLEAN
         /\ m \in delayed'
         /\ Whole' => delayed \subseteq delayed'
<1>1. PICK X \in Surplus : delayed' = (delayed \ X) \cup {m} /\ Drop(X)
  BY DEF ZAddDelayedSystem
<1>2. Whole' => X = {}
  BY <1>1 DEF Drop, Whole, Shape
<1> QED
  BY <1>1, <1>2, WholeBefore

\* RegisterCron: the new configuration is scheduled in the step that stores it.
LEMMA RegisterStep ==
  ASSUME ChainInv, NEW j \in Jobs, NEW v \in Versions, RegisterCron(j, v)
  PROVE  ChainInv'
<1>1. PICK X : delayed' = (delayed \ (X \cup {First(j, config[j])})) \cup {First(j, v)} /\ Drop(X)
  BY DEF RegisterCron
<1>2. Shape /\ config' = [config EXCEPT ![j] = v] /\ UNCHANGED <<dpc, djob, promoted>>
  BY DEF RegisterCron, delVars, ChainInv
<1>3. (Whole' => Whole) /\ faults' \in Nat /\ dropped' \in BOOLEAN
  BY <1>1, <1>2, WholeBefore
<1>4. Shape'
  BY <1>2, <1>3 DEF Shape
<1>5. First(j, v) \in Occurrences(j)'
  BY <1>1 DEF Occurrences, First
<1>6. Whole' => X = {}
  BY <1>1, <1>2 DEF Drop, Whole, Shape
<1>7. ASSUME NEW k \in Jobs, Whole', k # j PROVE Occurrences(k) \subseteq Occurrences(k)'
  <2>1. First(j, config[j]).job = j
    BY DEF First
  <2> QED
    BY <1>1, <1>2, <1>6, <1>7, <2>1 DEF Occurrences
<1>8. \A k \in Jobs : Deleting(k)' <=> Deleting(k)
  BY <1>2 DEF Deleting
<1> QED
  BY <1>2, <1>3, <1>4, <1>5, <1>7, <1>8, Kept DEF Shape

\* DeleteCronJob: until HDEL the job is being deleted, then it is gone; a second
\* deletion of a job that was registered again begins and ends the same way.
LEMMA DeleteStep ==
  ASSUME ChainInv, NEW a \in Admins,
         \/ \E j \in Jobs : DeleteRead(a, j)
         \/ DeleteZRem(a) \/ DeleteHDel(a) \/ CallAbandoned(a)
  PROVE  ChainInv'
<1>0. Shape
  BY DEF ChainInv
<1>1. CASE \E j \in Jobs : DeleteRead(a, j)
  <2>1. PICK j \in Jobs : DeleteRead(a, j)
    BY <1>1
  <2>2. /\ UNCHANGED <<config, delayed, promoted, faults, dropped>>
        /\ dpc[a] = "idle"
        /\ dpc' = [dpc EXCEPT ![a] = "zrem"] /\ djob' = [djob EXCEPT ![a] = j]
    BY <2>1 DEF DeleteRead
  <2>3. Shape'
    BY <1>0, <2>2 DEF Shape
  <2>4. \A k \in Jobs : (Deleting(k) => Deleting(k)') /\ Occurrences(k)' = Occurrences(k)
    BY <1>0, <2>2 DEF Deleting, Shape, Occurrences
  <2> QED
    BY <2>2, <2>3, <2>4, Kept DEF Whole
<1>2. CASE DeleteZRem(a)
  <2>1. /\ UNCHANGED <<config, promoted, djob>>
        /\ dpc[a] = "zrem" /\ dpc' = [dpc EXCEPT ![a] = "hdel"]
        /\ delayed' \in {delayed \ {First(djob[a], dver[a])}, delayed}
        /\ UNCHANGED <<faults, dropped>> \/ Fault
    BY <1>2 DEF DeleteZRem
  <2>6. (Whole' => Whole) /\ faults' \in Nat /\ dropped' \in BOOLEAN
    BY <1>0, <2>1, WholeBefore
  <2>2. Shape'
    BY <1>0, <2>1, <2>6 DEF Shape
  <2>3. Deleting(djob[a])'
    BY <1>0, <2>1 DEF Deleting, Shape
  <2>4. \A k \in Jobs : Deleting(k)' <=> Deleting(k)
    BY <1>0, <2>1 DEF Deleting, Shape
  <2>5. \A k \in Jobs : k # djob[a] => Occurrences(k)' = Occurrences(k)
    BY <2>1 DEF Occurrences, First
  <2> QED
    BY <1>0, <2>1, <2>2, <2>3, <2>4, <2>5, <2>6, Kept DEF Shape
<1>3. CASE DeleteHDel(a)
  <2>1. /\ UNCHANGED <<delayed, promoted, djob, faults, dropped>>
        /\ dpc' = [dpc EXCEPT ![a] = "idle"]
        /\ config' = [config EXCEPT ![djob[a]] = None]
    BY <1>3 DEF DeleteHDel, histVars
  <2>2. Shape'
    BY <1>0, <2>1 DEF Shape
  <2>3. \A k \in Jobs : Occurrences(k)' = Occurrences(k)
    BY <2>1 DEF Occurrences
  <2>4. \A k \in Jobs : config'[k] # None => k # djob[a] /\ config[k] # None
    BY <1>0, <2>1 DEF Shape
  <2>5. \A k \in Jobs : k # djob[a] => (Deleting(k)' <=> Deleting(k))
    BY <1>0, <2>1 DEF Deleting, Shape
  <2> QED
    BY <2>1, <2>2, <2>3, <2>4, <2>5, Kept DEF Whole
<1>4. CASE CallAbandoned(a)
  <2>1. Fault /\ UNCHANGED <<config, djob>> /\ dpc' = [dpc EXCEPT ![a] = "idle"]
    BY <1>4 DEF CallAbandoned
  <2>2. Shape' /\ ~Whole'
    BY <1>0, <2>1 DEF Shape, Fault, Whole
  <2> QED
    BY <2>2, Kept
<1> QED
  BY <1>1, <1>2, <1>3, <1>4

\* RunCronJob reads a configuration and adds to the stream.
LEMMA RunStep ==
  ASSUME ChainInv, NEW a \in Admins, (\E j \in Jobs : RunRead(a, j)) \/ RunXAdd(a)
  PROVE  ChainInv'
<1>0. Shape
  BY DEF ChainInv
<1>1. PICK j \in Jobs, stage \in {"idle", "xadd"} :
        /\ UNCHANGED <<config, delayed, promoted, faults, dropped>>
        /\ dpc[a] \in {"idle", "xadd"}
        /\ dpc' = [dpc EXCEPT ![a] = stage] /\ djob' = [djob EXCEPT ![a] = j]
  <2>1. CASE \E j \in Jobs : RunRead(a, j)
    BY <2>1 DEF RunRead
  <2>2. CASE RunXAdd(a)
    <3>1. djob[a] \in Jobs /\ djob = [djob EXCEPT ![a] = djob[a]]
      BY <1>0 DEF Shape
    <3> QED BY <2>2, <3>1 DEF RunXAdd, histVars
  <2> QED BY <2>1, <2>2
<1>2. Shape'
  BY <1>0, <1>1 DEF Shape
<1>3. \A k \in Jobs : (Deleting(k)' <=> Deleting(k)) /\ Occurrences(k)' = Occurrences(k)
  BY <1>0, <1>1 DEF Deleting, Shape, Occurrences
<1> QED
  BY <1>1, <1>2, <1>3, Kept DEF Whole

\* Steps that leave configurations and deletions alone and add to the chains.
LEMMA OtherStep ==
  ASSUME ChainInv, UNCHANGED <<config, dpc, djob>>, Whole' => Whole, faults' \in Nat, dropped' \in BOOLEAN,
         Whole' => \A j \in Jobs : Occurrences(j) # {} => Occurrences(j)' # {}
  PROVE  ChainInv'
BY DEF ChainInv, Shape, ChainUnbroken, Whole, Deleting

\* The invariant is inductive.
LEMMA Inductive == ChainInv /\ [Next]_vars => ChainInv'
<1> SUFFICES ASSUME ChainInv, [Next]_vars PROVE ChainInv'
  OBVIOUS
<1> USE DEF healVars, delVars, histVars
<1>0. Shape
  BY DEF ChainInv
<1>1. ASSUME UNCHANGED <<config, dpc, djob, delayed, promoted, faults, dropped>> PROVE ChainInv'
  BY <1>0, <1>1, OtherStep DEF Shape, Whole, Occurrences
<1>2. CASE UNCHANGED vars
  BY <1>1, <1>2 DEF vars
<1>3. ASSUME NEW j \in Jobs, \E v \in Versions : RegisterCron(j, v) PROVE ChainInv'
  BY <1>3, RegisterStep
<1>12. ASSUME NEW a \in Admins, (\E j \in Jobs : RunRead(a, j)) \/ RunXAdd(a) PROVE ChainInv'
  BY <1>12, RunStep
<1>4. ASSUME NEW a \in Admins,
             (\E j \in Jobs : DeleteRead(a, j)) \/ DeleteZRem(a) \/ DeleteHDel(a) \/ CallAbandoned(a)
      PROVE  ChainInv'
  BY <1>4, DeleteStep
<1>5. ASSUME NEW m \in delayed, Promote(m) PROVE ChainInv'
  <2>1. /\ UNCHANGED <<config, dpc, djob, faults, dropped>>
        /\ delayed' = delayed \ {m} /\ promoted' = promoted \cup {m}
    BY <1>5 DEF Promote
  <2>2. \A j \in Jobs : Occurrences(j)' = Occurrences(j)
    BY <1>5, <2>1 DEF Occurrences
  <2> QED
    BY <1>0, <2>1, <2>2, OtherStep DEF Whole, Shape
<1>6. ASSUME NEW m \in promoted, Reschedule(m) PROVE ChainInv'
  <2>1. PICK n \in Fresh(m.job, m.ver) : ZAddDelayedSystem(n)
    BY <1>6 DEF Reschedule
  <2>2. UNCHANGED <<config, dpc, djob>> /\ promoted' = promoted \ {m} /\ n.job = m.job
    BY <1>6, <2>1 DEF Reschedule, Fresh
  <2>3. /\ (Whole' => Whole) /\ faults' \in Nat /\ dropped' \in BOOLEAN
        /\ n \in delayed' /\ (Whole' => delayed \subseteq delayed')
    BY <1>0, <2>1, Added
  <2>4. Whole' => \A j \in Jobs : Occurrences(j) # {} => Occurrences(j)' # {}
    BY <2>2, <2>3 DEF Occurrences
  <2> QED
    BY <2>2, <2>3, <2>4, OtherStep
<1>7. ASSUME NEW m \in stream, Succeed(m) \/ Fail(m) PROVE ChainInv'
  <2>1. CASE Succeed(m)
    BY <1>1, <2>1 DEF Succeed
  <2>2. CASE Fail(m)
    <3>1. UNCHANGED <<config, dpc, djob, promoted>> /\ ZAddDelayedSystem([m EXCEPT !.kind = "retry"])
      BY <2>2 DEF Fail
    <3>2. /\ (Whole' => Whole) /\ faults' \in Nat /\ dropped' \in BOOLEAN
          /\ (Whole' => delayed \subseteq delayed')
      BY <1>0, <3>1, Added
    <3>3. Whole' => \A j \in Jobs : Occurrences(j) # {} => Occurrences(j)' # {}
      BY <3>1, <3>2 DEF Occurrences
    <3> QED
      BY <3>1, <3>2, <3>3, OtherStep
  <2> QED
    BY <1>7, <2>1, <2>2
<1>8. ASSUME NEW h \in Healers, \E j \in Jobs : HealJob(h, j) PROVE ChainInv'
  <2>0. PICK j \in Jobs : HealJob(h, j)
    BY <1>8
  <2>1. PICK n : ZAddDelayedSystem(n)
    BY <2>0 DEF HealJob
  <2>2. UNCHANGED <<config, dpc, djob, promoted>>
    BY <2>0 DEF HealJob
  <2>3. /\ (Whole' => Whole) /\ faults' \in Nat /\ dropped' \in BOOLEAN
        /\ (Whole' => delayed \subseteq delayed')
    BY <1>0, <2>1, Added
  <2>4. Whole' => \A k \in Jobs : Occurrences(k) # {} => Occurrences(k)' # {}
    BY <2>2, <2>3 DEF Occurrences
  <2> QED
    BY <2>2, <2>3, <2>4, OtherStep
<1>9. ASSUME NEW h \in Healers, SetNX(h) \/ HGetAll(h) \/ Scan(h) \/ EndHeal(h) PROVE ChainInv'
  BY <1>1, <1>9 DEF SetNX, HGetAll, Scan, EndHeal
<1>10. ASSUME \/ \E m \in promoted : RescheduleFails(m)
              \/ \E h \in Healers : HealerStops(h)
       PROVE  ChainInv'
  <2>1. UNCHANGED <<config, dpc, djob>> /\ Fault
    BY <1>10 DEF RescheduleFails, HealerStops
  <2>2. ~Whole' /\ faults' \in Nat /\ dropped' \in BOOLEAN
    BY <1>0, <2>1 DEF Fault, Whole, Shape
  <2> QED
    BY <2>1, <2>2, OtherStep
<1>11. CASE LockExpires
  BY <1>1, <1>11 DEF LockExpires
<1> QED
  BY <1>2, <1>3, <1>4, <1>5, <1>6, <1>7, <1>8, <1>9, <1>10, <1>11, <1>12 DEF Next, Heal

\* As long as nothing was lost to a crash, a failed call or the capacity, a
\* registered job that nobody is deleting has a next occurrence, whatever
\* registrations, deletions, promotions, reschedules and healers overlap.
THEOREM ChainsHold == Spec => []ChainUnbroken
<1>1. ChainInv => ChainUnbroken
  BY DEF ChainInv
<1> QED
  BY <1>1, Initially, Inductive, PTL DEF Spec

=============================================================================
