---------------------------- MODULE ServicesProofs ----------------------------
(***************************************************************************)
(* The properties of Deployment, of TaskPolicies, of PriorityWorker and of *)
(* Submission with its codec, which share no state, for every value of     *)
(* their constants.                                                        *)
(***************************************************************************)
EXTENDS Deployment, TaskPolicies, PriorityWorker, Submission,
        FiniteSetTheorems, SequenceTheorems, WellFoundedInduction, TLAPS

-----------------------------------------------------------------------------
(* Deployment: who consumes, who reclaims and what the heartbeat says.     *)

\* The processes of a deployment by themselves.
DeploymentSpec == DeploymentInit /\ [][DeploymentNext]_deploymentVars

\* The bounds are numbers.
LEMMA DeploymentBounds == NoProc \notin Procs /\ MaxStarts \in Nat /\ MaxBeatFaults \in Nat
BY DeploymentAssumption

\* A scheduler that cannot reschedule cron jobs is built only where the
\* configuration of the queue keeps the scheduler and disables the cron manager:
\* no role takes the one away without the other.
LEMMA Wiring ==
  ASSUME DeploymentTypeOK, NEW p \in Procs, NEW q \in Queues, NEW r \in Runners(p),
         r.queue = q, r.kind = "scheduler", ~r.reschedules
  PROVE  "cron" \in cfg[q].disabled /\ "scheduler" \notin cfg[q].disabled
<1>1. CASE role[p] = "down"
  BY <1>1 DEF Runners
<1>2. CASE role[p] = "daemon"
  <2>1. PICK x \in Queues : r \in BuildQueueDaemons(x)
    BY <1>2 DEF Runners
  <2>2. PICK k \in Kinds \ cfg[x].disabled : r = Runner(k, x, DaemonGroup(x), FALSE, cfg[x].disabled)
    BY <2>1 DEF BuildQueueDaemons
  <2> QED BY <2>2 DEF Runner
<1>3. CASE role[p] \in {"all", "worker"}
  <2> DEFINE pure == role[p] = "worker"
  <2>1. PICK x \in Queues :
          r \in IF cfg[x].priority THEN PriorityWorker(x, pure) ELSE WorkerPool(x, pure)
    BY <1>3 DEF Runners, BuildWorkerTopology
  <2>2. CASE cfg[x].priority
    <3>1. PICK k \in Kinds \ (IF pure THEN PureConsumer ELSE {}) :
            r = Runner(k, x, WorkerGroup(x), TRUE, IF pure THEN PureConsumer ELSE {})
      BY <2>1, <2>2 DEF PriorityWorker
    <3> QED BY <3>1 DEF Runner, PureConsumer, Kinds
  <2>3. CASE ~cfg[x].priority
    <3>1. PICK k \in Kinds \ (cfg[x].disabled \cup (IF pure THEN PureConsumer ELSE {})) :
            r = Runner(k, x, WorkerGroup(x), TRUE, cfg[x].disabled \cup (IF pure THEN PureConsumer ELSE {}))
      BY <2>1, <2>3 DEF WorkerPool
    <3> QED BY <3>1 DEF Runner, PureConsumer, Kinds
  <2> QED BY <2>2, <2>3
<1> QED BY <1>1, <1>2, <1>3 DEF DeploymentTypeOK, Roles

\* A failed write shortens the key's remaining life by the interval it would
\* have bought, and nothing else does.
Pulse ==
  \A p \in Procs :
    Consumes(p) /\ p \in written /\ ~erased => beat + missed[p] >= Lifetime - Interval + due[p]

\* An interval without the key is paid for by a failed write, but for the one
\* that is under way.
Unseen ==
  \A p \in Procs :
    IF Consumes(p) THEN unlisted[p] + due[p] <= missed[p] + 1 ELSE unlisted[p] = 0 /\ p \notin written

\* Only a consuming process writes the key, and it is never silent.
Silence ==
  /\ \A p \in Procs : Consumes(p) => silent = 0
  /\ beat > 0 => silent + beat <= Lifetime

\* The failures of one process are among all failures, so that a failed write
\* keeps missed in its type.
Faulty == \A p \in Procs : missed[p] <= beatFaults

\* The inductive invariant of the deployment.
DeploymentIInv == DeploymentTypeOK /\ Faulty /\ Pulse /\ Unseen /\ Silence /\ PanicConfigured

\* Steps on entries and cron jobs leave the processes and the key alone.
LEMMA EntryStep ==
  ASSUME DeploymentIInv,
         entry' \in [Queues -> EntryStates],
         holder' \in [Queues -> Procs \cup {NoProc}],
         chain' \in [Queues -> {"none", "armed", "lost"}],
         UNCHANGED <<cfg, role, created, starts, panicked, beatVars>>
  PROVE  DeploymentIInv'
BY DEF DeploymentIInv, DeploymentTypeOK, Faulty, Pulse, Unseen, Silence, PanicConfigured, Consumes, beatVars

\* A process stops, crashes or panics: it consumes no more.
LEMMA LeaveStep ==
  ASSUME DeploymentIInv, NEW p \in Procs, Leave(p),
         \/ beat' = 0 /\ erased' = TRUE
         \/ UNCHANGED <<beat, erased>>,
         \/ UNCHANGED <<entry, holder>>
         \/ Orphan(p),
         chain' \in [Queues -> {"none", "armed", "lost"}],
         panicked' \subseteq Queues,
         PanicConfigured',
         BeatFault \/ UNCHANGED beatFaults,
         UNCHANGED <<cfg, created, silent, starts>>
  PROVE  DeploymentIInv'
<1> USE DEF DeploymentIInv, Leave
<1>1. DeploymentTypeOK'
  <2>1. role' \in [Procs -> Roles \cup {"down"}]
    BY DEF DeploymentTypeOK
  <2>2. /\ due' \in [Procs -> 0 .. Interval] /\ missed' \in [Procs -> 0 .. MaxBeatFaults]
        /\ unlisted' \in [Procs -> 0 .. MaxBeatFaults + 1] /\ written' \subseteq Procs
    BY DeploymentBounds DEF DeploymentTypeOK, Interval
  <2>3. /\ entry' \in [Queues -> EntryStates]
        /\ holder' \in [Queues -> Procs \cup {NoProc}]
    BY DEF DeploymentTypeOK, Orphan, EntryStates
  <2>4. beat' \in 0 .. Lifetime /\ beatFaults' \in 0 .. MaxBeatFaults
    BY DeploymentBounds DEF DeploymentTypeOK, Lifetime, BeatFault
  <2>5. erased' \in BOOLEAN
    BY DEF DeploymentTypeOK
  <2> QED BY <2>1, <2>2, <2>3, <2>4, <2>5 DEF DeploymentTypeOK
<1>2. Faulty'
  BY DEF DeploymentTypeOK, Faulty, BeatFault
<1>3. \A d \in Procs : Consumes(d)' =>
        /\ d # p /\ Consumes(d) /\ due'[d] = due[d] /\ missed'[d] = missed[d] /\ unlisted'[d] = unlisted[d]
        /\ d \in written' => d \in written
  BY DEF DeploymentTypeOK, Consumes
<1>4. Pulse' /\ Silence'
  BY <1>3 DEF Pulse, Silence
<1>5. \A d \in Procs : ~Consumes(d)' => unlisted'[d] = 0 /\ d \notin written'
  BY DEF DeploymentTypeOK, Consumes, Unseen
<1>6. Unseen'
  BY <1>3, <1>5 DEF Unseen
<1> QED BY <1>1, <1>2, <1>4, <1>6

\* A process attempts to write the key, at its start or when it is due.
LEMMA AttemptStep ==
  ASSUME DeploymentIInv, NEW p \in Procs, NEW r \in {"all", "worker"},
         Beat(p) \/ BeatFails(p),
         role[p] = "down" \/ (role[p] = r /\ due[p] = 0),
         role' = [role EXCEPT ![p] = r],
         due' = [due EXCEPT ![p] = Interval],
         silent' = 0 \/ (Consumes(p) /\ silent' = silent),
         created' \subseteq Queues,
         starts' \in 0 .. MaxStarts,
         UNCHANGED <<cfg, queueVars>>
  PROVE  DeploymentIInv'
<1> USE DEF DeploymentIInv, queueVars
<1>1. silent' = 0
  BY DEF Silence
<1>2. \A d \in Procs : Consumes(d)' <=> d = p \/ Consumes(d)
  BY DEF Consumes, DeploymentTypeOK
<1>3. /\ role' \in [Procs -> Roles \cup {"down"}]
      /\ due' \in [Procs -> 0 .. Interval]
      /\ silent' \in 0 .. Lifetime + 1
      /\ PanicConfigured'
  BY <1>1 DEF DeploymentTypeOK, Roles, Interval, Lifetime, PanicConfigured
<1>4. CASE Beat(p)
  <2> USE <1>4 DEF Beat
  <2>1. /\ missed' \in [Procs -> 0 .. MaxBeatFaults]
        /\ unlisted' \in [Procs -> 0 .. MaxBeatFaults + 1]
        /\ beat' \in 0 .. Lifetime
        /\ written' \subseteq Procs
    BY DeploymentBounds DEF DeploymentTypeOK, Lifetime
  <2>2. erased' \in BOOLEAN
    OBVIOUS
  <2>3. DeploymentTypeOK'
    BY <1>3, <2>1, <2>2 DEF DeploymentTypeOK
  <2>4. Faulty'
    BY DEF DeploymentTypeOK, Faulty
  <2>5. Pulse'
    BY <2>3 DEF Pulse, DeploymentTypeOK, Lifetime, Interval
  <2>6. Unseen'
    <3>1. \A d \in Procs : unlisted'[d] + due'[d] <= missed'[d] + 1
      BY <2>3 DEF DeploymentTypeOK, Interval
    <3>2. \A d \in Procs : ~Consumes(d)' => unlisted'[d] = 0 /\ d \notin written'
      BY <1>2 DEF Unseen
    <3> QED BY <3>1, <3>2 DEF Unseen
  <2>7. Silence'
    BY <1>1 DEF Silence, Lifetime
  <2> QED BY <1>3, <2>3, <2>4, <2>5, <2>6, <2>7
<1>5. CASE BeatFails(p)
  <2> USE <1>5 DEF BeatFails, BeatFault
  <2>1. /\ missed' \in [Procs -> 0 .. MaxBeatFaults]
        /\ beatFaults' \in 0 .. MaxBeatFaults
        /\ Faulty'
    BY DeploymentBounds DEF DeploymentTypeOK, Faulty
  <2>2. DeploymentTypeOK'
    BY <1>3, <2>1 DEF DeploymentTypeOK
  <2>3. /\ missed'[p] = missed[p] + 1 /\ due'[p] = 1
        /\ \A d \in Procs \ {p} : missed'[d] = missed[d] /\ due'[d] = due[d]
    BY DEF DeploymentTypeOK, Interval
  <2>4. /\ missed \in [Procs -> Nat] /\ unlisted \in [Procs -> Nat] /\ due \in [Procs -> Nat]
        /\ beat \in Nat
    BY DeploymentBounds DEF DeploymentTypeOK, Interval, Lifetime
  <2>5. Consumes(p) => due[p] = 0
    BY DEF Consumes, DeploymentTypeOK
  <2>6. Pulse'
    BY <1>2, <2>3, <2>4, <2>5 DEF Pulse, Unseen, Lifetime, Interval
  <2>7. Unseen'
    <3>1. ASSUME NEW d \in Procs, d # p, Consumes(d)' PROVE unlisted'[d] + due'[d] <= missed'[d] + 1
      BY <1>2, <2>3, <3>1 DEF Unseen
    <3>2. ASSUME NEW d \in Procs, ~Consumes(d)' PROVE unlisted'[d] = 0 /\ d \notin written'
      BY <1>2, <3>2 DEF Unseen
    <3>3. unlisted'[p] + due'[p] <= missed'[p] + 1
      BY <2>3, <2>4, <2>5 DEF Unseen
    <3> QED BY <3>1, <3>2, <3>3 DEF Unseen
  <2>8. Silence'
    BY <1>1, <2>2 DEF Silence, DeploymentTypeOK, Lifetime
  <2> QED BY <1>3, <2>1, <2>2, <2>6, <2>7, <2>8
<1> QED BY <1>4, <1>5

\* An interval passes.
LEMMA ElapseStep ==
  ASSUME DeploymentIInv, Elapse
  PROVE  DeploymentIInv'
<1> USE DEF DeploymentIInv, Elapse, Expire, queueVars
<1>1. /\ beat' \in 0 .. Lifetime /\ silent' \in 0 .. Lifetime + 1
      /\ due' \in [Procs -> 0 .. Interval] /\ Faulty'
  BY DEF DeploymentTypeOK, Faulty, Lifetime, Interval
<1>2. \A p \in Procs : Consumes(p)' <=> Consumes(p)
  BY DEF Consumes
<1>3. ASSUME NEW p \in Procs, Consumes(p)
      PROVE  /\ due[p] = 1 /\ due'[p] = 0
             /\ unlisted'[p] \in Nat /\ unlisted'[p] <= unlisted[p] + 1
  BY <1>3, DeploymentBounds DEF DeploymentTypeOK, Interval
<1>4. Unseen'
  <2>1. ASSUME NEW p \in Procs, Consumes(p) PROVE unlisted'[p] + due'[p] <= missed'[p] + 1
    BY <1>3, <2>1, DeploymentBounds DEF Unseen, DeploymentTypeOK
  <2>2. ASSUME NEW p \in Procs, ~Consumes(p) PROVE unlisted'[p] = 0 /\ p \notin written'
    BY <2>2 DEF Unseen
  <2> QED BY <1>2, <2>1, <2>2 DEF Unseen
<1>5. unlisted' \in [Procs -> 0 .. MaxBeatFaults + 1]
  <2>1. ASSUME NEW p \in Procs PROVE unlisted'[p] \in 0 .. MaxBeatFaults + 1
    <3>1. CASE Consumes(p)
      BY <1>2, <1>3, <1>4, <3>1, DeploymentBounds DEF Unseen, DeploymentTypeOK
    <3>2. CASE ~Consumes(p)
      BY <1>2, <1>4, <3>2, DeploymentBounds DEF Unseen
    <3> QED BY <3>1, <3>2
  <2>2. unlisted' = [p \in Procs |-> unlisted'[p]]
    OBVIOUS
  <2> QED BY <2>1, <2>2
<1>6. DeploymentTypeOK'
  BY <1>1, <1>5 DEF DeploymentTypeOK
<1>7. Pulse'
  <2> SUFFICES ASSUME NEW p \in Procs, Consumes(p), p \in written, ~erased
               PROVE  beat' + missed[p] >= Lifetime - Interval + due'[p]
    BY DEF Pulse, Consumes
  <2>1. due[p] = 1 /\ due'[p] = 0 /\ beat + missed[p] >= Lifetime - Interval + 1
    BY DEF Pulse, DeploymentTypeOK, Interval
  <2> QED BY <2>1, DeploymentBounds DEF DeploymentTypeOK, Lifetime, Interval
<1>8. Silence'
  BY DEF Silence, Consumes, DeploymentTypeOK, Lifetime
<1>9. PanicConfigured'
  BY DEF PanicConfigured
<1> QED BY <1>1, <1>4, <1>6, <1>7, <1>8, <1>9

\* A process that exits before all of its workers run.
LEMMA StartProcFailsStep ==
  ASSUME DeploymentIInv, NEW p \in Procs, NEW Q \in SUBSET Queues, StartProcFails(p, Q)
  PROVE  DeploymentIInv'
<1> USE DEF DeploymentIInv, StartProcFails
<1>1. starts' \in 0 .. MaxStarts /\ created' \subseteq Queues
  BY DeploymentBounds DEF DeploymentTypeOK
<1>2. PanicConfigured'
  BY DEF PanicConfigured
<1>3. CASE UNCHANGED beatVars
  BY <1>1, <1>2, <1>3 DEF DeploymentTypeOK, Faulty, Pulse, Unseen, Silence, Consumes, beatVars
<1>4. CASE /\ beat' = Lifetime /\ erased' = FALSE /\ silent' = 0
           /\ unlisted' = [d \in Procs |-> 0]
           /\ UNCHANGED <<due, missed, written, beatFaults>>
  <2>1. /\ beat' \in 0 .. Lifetime /\ silent' \in 0 .. Lifetime + 1
        /\ unlisted' \in [Procs -> 0 .. MaxBeatFaults + 1]
    BY <1>4, DeploymentBounds DEF Lifetime
  <2>2. erased' \in BOOLEAN
    BY <1>4
  <2>3. DeploymentTypeOK'
    BY <1>1, <1>4, <2>1, <2>2 DEF DeploymentTypeOK
  <2>4. Faulty' /\ Silence'
    BY <1>4 DEF Faulty, Silence, Lifetime
  <2>5. Pulse'
    BY <1>4, <2>3 DEF Pulse, DeploymentTypeOK, Lifetime, Interval
  <2>6. \A d \in Procs : unlisted'[d] + due'[d] <= missed'[d] + 1
    BY <1>4, <2>3 DEF DeploymentTypeOK, Interval
  <2>7. Unseen'
    BY <1>4, <2>6 DEF Unseen, Consumes
  <2> QED BY <1>2, <2>3, <2>4, <2>5, <2>7
<1> QED BY <1>3, <1>4

\* Before the first process starts.
LEMMA DeploymentStarts == DeploymentInit => DeploymentIInv
<1> SUFFICES ASSUME DeploymentInit PROVE DeploymentIInv
  OBVIOUS
<1>1. DeploymentTypeOK
  <2>1. /\ role \in [Procs -> Roles \cup {"down"}]
        /\ created \subseteq Queues
        /\ entry \in [Queues -> EntryStates]
        /\ holder \in [Queues -> Procs \cup {NoProc}]
        /\ chain \in [Queues -> {"none", "armed", "lost"}]
        /\ written \subseteq Procs /\ panicked \subseteq Queues
    BY DEF DeploymentInit, EntryStates
  <2>2. /\ beat \in 0 .. Lifetime /\ silent \in 0 .. Lifetime + 1
        /\ due \in [Procs -> 0 .. Interval] /\ missed \in [Procs -> 0 .. MaxBeatFaults]
        /\ unlisted \in [Procs -> 0 .. MaxBeatFaults + 1]
        /\ starts \in 0 .. MaxStarts /\ beatFaults \in 0 .. MaxBeatFaults
    BY DeploymentBounds DEF DeploymentInit, Lifetime, Interval
  <2>3. erased \in BOOLEAN
    BY DEF DeploymentInit
  <2> QED BY <2>1, <2>2, <2>3 DEF DeploymentInit, DeploymentTypeOK
<1>2. Faulty /\ Pulse /\ Unseen /\ Silence /\ PanicConfigured
  BY DEF DeploymentInit, Faulty, Pulse, Unseen, Silence, PanicConfigured, Consumes
<1> QED BY <1>1, <1>2 DEF DeploymentIInv

\* Every step of every process.
LEMMA DeploymentSteps == DeploymentIInv /\ [DeploymentNext]_deploymentVars => DeploymentIInv'
<1> SUFFICES ASSUME DeploymentIInv, [DeploymentNext]_deploymentVars PROVE DeploymentIInv'
  OBVIOUS
<1>1. DeploymentTypeOK
  BY DEF DeploymentIInv
<1>2. ASSUME NEW p \in Procs, NEW r \in Roles, StartProc(p, r) PROVE DeploymentIInv'
  <2>1. starts' \in 0 .. MaxStarts /\ created' \subseteq Queues
    BY <1>1, <1>2, DeploymentBounds DEF StartProc, DeploymentTypeOK
  <2>2. CASE r = "daemon"
    <3>1. DeploymentTypeOK'
      BY <1>1, <1>2, <2>1, <2>2 DEF StartProc, DeploymentTypeOK, queueVars, beatVars
    <3>2. \A d \in Procs : Consumes(d)' <=> Consumes(d)
      BY <1>1, <1>2, <2>2 DEF StartProc, Consumes, DeploymentTypeOK
    <3> QED BY <1>2, <2>2, <3>1, <3>2
            DEF StartProc, DeploymentIInv, Faulty, Pulse, Unseen, Silence, PanicConfigured, queueVars, beatVars
  <2>3. CASE r # "daemon"
    <3>1. r \in {"all", "worker"}
      BY <2>3 DEF Roles
    <3>2. /\ Beat(p) \/ BeatFails(p)
          /\ role[p] = "down" /\ role' = [role EXCEPT ![p] = r]
          /\ due' = [due EXCEPT ![p] = Interval] /\ silent' = 0
          /\ UNCHANGED <<cfg, queueVars>>
      BY <1>2, <2>3 DEF StartProc
    <3> HIDE DEF DeploymentIInv
    <3>3. /\ role[p] = "down" \/ (role[p] = r /\ due[p] = 0)
          /\ silent' = 0 \/ (Consumes(p) /\ silent' = silent)
      BY <3>2
    <3> QED BY <2>1, <3>1, <3>2, <3>3, AttemptStep, Zenon
  <2> QED BY <2>2, <2>3
<1>3. ASSUME NEW p \in Procs, NEW Q \in SUBSET Queues, StartProcFails(p, Q) PROVE DeploymentIInv'
  BY <1>3, StartProcFailsStep
<1>4. ASSUME NEW p \in Procs, StopProc(p) \/ CrashProc(p) PROVE DeploymentIInv'
  <2>1. chain' \in [Queues -> {"none", "armed", "lost"}] /\ panicked' \subseteq Queues
    BY <1>1, <1>4 DEF StopProc, CrashProc, DeploymentTypeOK, queueVars
  <2>2. PanicConfigured'
    BY <1>4 DEF StopProc, CrashProc, DeploymentIInv, PanicConfigured, queueVars
  <2> QED BY <1>4, <2>1, <2>2, LeaveStep DEF StopProc, CrashProc, queueVars
<1>5. ASSUME NEW p \in Procs, Report(p) PROVE DeploymentIInv'
  <2>1. role' = [role EXCEPT ![p] = role[p]] /\ role[p] \in {"all", "worker"}
    BY <1>1, <1>5 DEF Report, Consumes, DeploymentTypeOK
  <2>2. starts' \in 0 .. MaxStarts /\ created' \subseteq Queues
    BY <1>1, <1>5 DEF Report, DeploymentTypeOK
  <2> QED BY <1>5, <2>1, <2>2, AttemptStep DEF Report
<1>7. ASSUME NEW p \in Procs, NEW q \in Queues, Take(p, q) \/ ReclaimEntry(p, q) \/ HealJob(p, q)
      PROVE  DeploymentIInv'
  <2>1. /\ entry' \in [Queues -> EntryStates]
        /\ holder' \in [Queues -> Procs \cup {NoProc}]
        /\ chain' \in [Queues -> {"none", "armed", "lost"}]
    BY <1>1, <1>7 DEF Take, ReclaimEntry, HealJob, DeploymentTypeOK, EntryStates
  <2> QED BY <1>7, <2>1, EntryStep DEF Take, ReclaimEntry, HealJob
<1>8. ASSUME NEW p \in Procs, NEW q \in Queues, PromoteJobPanics(p, q) PROVE DeploymentIInv'
  <2>1. "cron" \in cfg[q].disabled /\ "scheduler" \notin cfg[q].disabled
    BY <1>1, <1>8, Wiring DEF PromoteJobPanics
  <2>2. chain' \in [Queues -> {"none", "armed", "lost"}] /\ panicked' \subseteq Queues
    BY <1>1, <1>8 DEF PromoteJobPanics, DeploymentTypeOK
  <2>3. PanicConfigured'
    BY <1>8, <2>1 DEF PromoteJobPanics, DeploymentIInv, PanicConfigured
  <2> QED BY <1>8, <2>2, <2>3, LeaveStep DEF PromoteJobPanics
<1>9. ASSUME NEW q \in Queues, Add(q) \/ Settle(q) \/ RegisterJob(q) PROVE DeploymentIInv'
  <2>1. /\ entry' \in [Queues -> EntryStates]
        /\ holder' \in [Queues -> Procs \cup {NoProc}]
        /\ chain' \in [Queues -> {"none", "armed", "lost"}]
    BY <1>1, <1>9 DEF Add, Settle, RegisterJob, DeploymentTypeOK, EntryStates
  <2> QED BY <1>9, <2>1, EntryStep DEF Add, Settle, RegisterJob
<1>10. CASE Elapse
  BY <1>10, ElapseStep
<1>11. CASE UNCHANGED deploymentVars
  BY <1>11 DEF deploymentVars, queueVars, beatVars, DeploymentIInv, DeploymentTypeOK, Faulty, Pulse,
     Unseen, Silence, PanicConfigured, Consumes
<1> QED BY <1>2, <1>3, <1>4, <1>5, <1>7, <1>8, <1>9, <1>10, <1>11 DEF DeploymentNext

\* The invariant of the deployment.
LEMMA DeploymentInvariance == DeploymentSpec => []DeploymentIInv
BY DeploymentStarts, DeploymentSteps, PTL DEF DeploymentSpec

\* Whatever number of processes share a worker's name, and whichever of them
\* start, stop, crash and fail to write: a consuming process that has written the
\* key and missed at most one write since is listed unless one that stopped
\* deleted the key, and the key of processes that died expires within its
\* lifetime (HeartbeatTruthful).
THEOREM HeartbeatsTruthful == DeploymentSpec => []HeartbeatTruthful
<1>1. DeploymentIInv => HeartbeatTruthful
  BY DeploymentBounds DEF DeploymentIInv, DeploymentTypeOK, Pulse, Silence, HeartbeatTruthful,
     LiveListed, DeadUnlisted, Lifetime, Interval
<1> QED BY <1>1, DeploymentInvariance, PTL

\* A process that starts without its first write, or whose key another process
\* deleted, is listed again after as many intervals as its own writes fail in a
\* row, and one more at most (ListedAgain).
THEOREM ListedSoon == DeploymentSpec => []ListedAgain
<1>1. DeploymentIInv => ListedAgain
  <2> SUFFICES ASSUME DeploymentIInv, NEW p \in Procs, Consumes(p)
               PROVE  unlisted[p] <= missed[p] + 1
    BY DEF ListedAgain
  <2>1. due[p] \in Nat /\ unlisted[p] \in Nat /\ missed[p] \in Nat
    BY DeploymentBounds DEF DeploymentIInv, DeploymentTypeOK, Interval
  <2> QED BY <2>1 DEF DeploymentIInv, Unseen
<1> QED BY <1>1, DeploymentInvariance, PTL

\* No sequence of starts, in any role, makes a scheduler call a cron manager
\* that is not there, unless that very queue is configured so (PanicConfigured).
THEOREM PanicsConfigured == DeploymentSpec => []PanicConfigured
<1>1. DeploymentIInv => PanicConfigured
  BY DEF DeploymentIInv
<1> QED BY <1>1, DeploymentInvariance, PTL

-----------------------------------------------------------------------------
(* TaskPolicies: arithmetic of the stored formats. *)

\* Truncation to whole units.
LEMMA Quotient ==
  ASSUME NEW a \in Int, NEW m \in Nat \ {0}
  PROVE  (a \div m) \in Int /\ (a \div m) * m <= a /\ a < ((a \div m) + 1) * m
OBVIOUS

\* Whole units compare like what they measure.
LEMMA Cancel ==
  ASSUME NEW a \in Int, NEW b \in Int, NEW m \in Nat \ {0}, a * m < b * m
  PROVE  a < b
OBVIOUS

\* More units measure more.
LEMMA Scale ==
  ASSUME NEW a \in Int, NEW b \in Int, NEW m \in Nat, a <= b
  PROVE  a * m <= b * m
OBVIOUS

\* Truncation keeps whole units.
LEMMA Shift ==
  ASSUME NEW a \in Int, NEW b \in Int, NEW m \in Nat \ {0}
  PROVE  (a + b * m) \div m = (a \div m) + b
OBVIOUS

\* Rounding up to whole units.
LEMMA RoundedUp ==
  ASSUME NEW a \in Int, NEW m \in Nat \ {0}
  PROVE  /\ Ceiling(a, m) \in Int /\ Ceiling(a, m) * m >= a
         /\ a > 0 => Ceiling(a, m) >= 1
         /\ a >= 0 => Ceiling(a, m) >= 0
<1> DEFINE n == a + m - 1
           c == n \div m
<1>1. n \in Int /\ c \in Int /\ n < (c + 1) * m
  BY Quotient
<1>2. (c + 1) * m = c * m + m
  BY <1>1
<1>3. c * m >= a
  BY <1>1, <1>2
<1>4. a > 0 => c >= 1
  <2> SUFFICES ASSUME a > 0 PROVE 0 < c
    BY <1>1
  <2>1. 0 * m < c * m
    BY <1>1, <1>3
  <2> QED BY <1>1, <2>1, Cancel
<1>5. a >= 0 => c >= 0
  <2> SUFFICES ASSUME a >= 0 PROVE 0 < c + 1
    BY <1>1
  <2>1. 0 * m < (c + 1) * m
    BY <1>1, <1>2, <1>3
  <2> QED BY <1>1, <2>1, Cancel
<1> QED BY <1>1, <1>3, <1>4, <1>5 DEF Ceiling

\* Truncated to its millisecond, a later time is not earlier.
LEMMA Truncated ==
  ASSUME NEW a \in Int, NEW b \in Int, NEW m \in Nat \ {0}, a <= b
  PROVE  a \div m <= b \div m
<1> DEFINE x == a \div m
           y == b \div m
<1>1. x \in Int /\ y \in Int /\ x * m <= a /\ b < (y + 1) * m
  BY Quotient
<1> HIDE DEF x, y
<1>2. x * m \in Int /\ (y + 1) * m \in Int
  BY <1>1
<1>3. x * m < (y + 1) * m
  BY <1>1, <1>2
<1>4. x < y + 1
  BY <1>1, <1>3, Cancel
<1> QED BY <1>1, <1>4 DEF x, y

\* The subsets of 1 .. n are counted by a power of two.
LEMMA Subsets ==
  ASSUME NEW n \in Nat
  PROVE  /\ IsFiniteSet(SUBSET (1 .. n)) /\ Cardinality(SUBSET (1 .. n)) = 2 ^ n
         /\ 2 ^ n \in Nat /\ 2 ^ n >= 1
<1>1. IsFiniteSet(1 .. n) /\ Cardinality(1 .. n) = n
  <2>1. /\ IsFiniteSet(1 .. n)
        /\ Cardinality(1 .. n) = IF 1 > n THEN 0 ELSE n - 1 + 1
    BY FS_Interval
  <2> QED BY <2>1
<1>2. IsFiniteSet(SUBSET (1 .. n)) /\ Cardinality(SUBSET (1 .. n)) = 2 ^ Cardinality(1 .. n)
  BY <1>1, FS_SUBSET
<1>3. Cardinality(SUBSET (1 .. n)) \in Nat
  BY <1>2, FS_CardinalityType
<1>4. Cardinality(SUBSET (1 .. n)) # 0
  <2>1. SUBSET (1 .. n) # {}
    OBVIOUS
  <2> QED BY <1>2, <2>1, FS_EmptySet
<1> QED BY <1>1, <1>2, <1>3, <1>4

\* Powers of two grow.
LEMMA PowersGrow ==
  ASSUME NEW m \in Nat, NEW n \in Nat, m <= n
  PROVE  2 ^ m <= 2 ^ n
<1>1. SUBSET (1 .. m) \subseteq SUBSET (1 .. n)
  OBVIOUS
<1>2. Cardinality(SUBSET (1 .. m)) <= Cardinality(SUBSET (1 .. n))
  BY <1>1, Subsets, FS_Subset
<1> QED BY <1>2, Subsets

\* They double: a subset of 1 .. n + 1 has n + 1 or has it not.
LEMMA PowersDouble ==
  ASSUME NEW n \in Nat
  PROVE  2 * 2 ^ n <= 2 ^ (n + 1)
<1> DEFINE S == SUBSET (1 .. n)
           T == {s \cup {n + 1} : s \in S}
           f == [s \in S |-> s \cup {n + 1}]
<1>1. n + 1 \in Nat /\ IsFiniteSet(S) /\ Cardinality(S) = 2 ^ n
  BY Subsets
<1>2. \A s \in S : n + 1 \notin s
  OBVIOUS
<1>3. f \in Bijection(S, T)
  <2>1. f \in [S -> T]
    OBVIOUS
  <2>2. \A s, u \in S : f[s] = f[u] => s = u
    <3> SUFFICES ASSUME NEW s \in S, NEW u \in S, s \cup {n + 1} = u \cup {n + 1} PROVE s = u
      OBVIOUS
    <3>1. n + 1 \notin s /\ n + 1 \notin u
      BY <1>2
    <3> QED BY <3>1
  <2>3. \A t \in T : \E s \in S : f[s] = t
    OBVIOUS
  <2>4. DOMAIN f = S
    OBVIOUS
  <2> HIDE DEF f, T, S
  <2> QED BY <2>1, <2>2, <2>3, <2>4 DEF Bijection, Injection, Surjection, IsInjective
<1>4. IsFiniteSet(T) /\ Cardinality(T) = Cardinality(S)
  <2> HIDE DEF f, T, S
  <2>1. ExistsBijection(S, T)
    BY <1>3 DEF ExistsBijection
  <2> QED BY <1>1, <2>1, FS_Bijection
<1>5. S \cap T = {} /\ S \cup T \subseteq SUBSET (1 .. n + 1)
  <2>1. S \cap T = {}
    BY <1>2
  <2>2. S \subseteq SUBSET (1 .. n + 1)
    OBVIOUS
  <2>3. T \subseteq SUBSET (1 .. n + 1)
    <3>1. 1 .. n \subseteq 1 .. n + 1 /\ n + 1 \in 1 .. n + 1
      OBVIOUS
    <3>2. \A s \in S : s \cup {n + 1} \in SUBSET (1 .. n + 1)
      BY <3>1
    <3> QED BY <3>2
  <2> QED BY <2>1, <2>2, <2>3
<1> HIDE DEF f, T, S
<1>6. Cardinality(S \cup T) = Cardinality(S) + Cardinality(T) - Cardinality(S \cap T)
  BY <1>1, <1>4, FS_Union
<1>7. Cardinality(S \cap T) = 0
  BY <1>5, FS_EmptySet
<1>8. /\ IsFiniteSet(SUBSET (1 .. n + 1)) /\ Cardinality(SUBSET (1 .. n + 1)) = 2 ^ (n + 1)
      /\ 2 ^ (n + 1) \in Nat /\ 2 ^ n \in Nat
  BY <1>1, Subsets
<1>9. Cardinality(S \cup T) <= Cardinality(SUBSET (1 .. n + 1))
  BY <1>5, <1>8, FS_Subset
<1> QED BY <1>1, <1>4, <1>6, <1>7, <1>8, <1>9

-----------------------------------------------------------------------------
(* TaskPolicies: the inductive invariant. *)

\* The policies of a queue by themselves.
PolicySpec == PolicyInit /\ [][PolicyNext]_policyVars

\* The types the proofs need; the scores of retries are left out.
PolicyTyped ==
  /\ policy \in Policies
  /\ now \in Nat
  /\ tat \in [Keys -> Int]
  /\ keyEnds \in [Keys -> Int]
  /\ debt \in [Keys -> Nat]
  /\ place \in [Tasks -> Places]
  /\ retry \in [Tasks -> Nat]
  /\ deliveries \in [Tasks -> Nat \ {0}]
  /\ expires \in [Tasks -> Nat \cup {NoLimit}]
  /\ runs \in [Tasks -> Nat]
  /\ refused \in [Tasks -> Nat]
  /\ ended \in [Tasks -> {"none", "spent", "permanent"}]
  /\ score = [t \in Tasks |-> score[t]]
  /\ redisFaults \in Nat

\* What a failed call can add to the executions of a task, and what all calls
\* that failed so far leave it.
Extra == Larger(1, policy.maxRetry - 1)
Allowance == Larger(1, policy.maxRetry) + redisFaults * Extra

\* What a task has run and may still run without another failure is within the
\* allowance; a pending task has lost its count, and the failure that left it
\* pending pays for a new one.  Its attempts are executions and failed calls.
Budgeted ==
  \A t \in Tasks :
    /\ runs[t] <= Allowance
    /\ place[t] \in {"absent", "ready", "delayed"} =>
         /\ retry[t] <= policy.maxRetry =>
              runs[t] + 1 <= Allowance /\ runs[t] + policy.maxRetry - retry[t] <= Allowance
         /\ retry[t] <= runs[t] + redisFaults
         /\ deliveries[t] <= redisFaults + 1
    /\ place[t] = "running" =>
         /\ runs[t] + policy.maxRetry - 1 - retry[t] <= Allowance
         /\ retry[t] + 1 <= runs[t] + redisFaults
         /\ deliveries[t] <= redisFaults + 1
    /\ place[t] = "pending" => runs[t] + Extra <= Allowance /\ deliveries[t] <= redisFaults

\* The context of a running task with a deadline ends with it, or has ended.
Ending ==
  \A t \in Tasks : place[t] = "running" /\ policy.deadline > 0 =>
    expires[t] \in Nat /\ (expires[t] <= policy.deadline \/ expires[t] <= now)

\* What an ideal bucket is owed is still to come in the stored TAT, which is
\* kept until then.
Bucketed ==
  \A k \in Keys :
    /\ policy.emission <= Grain \div 2 => debt[k] = 0
    /\ debt[k] > 0 => debt[k] + now <= tat[k] /\ debt[k] + now <= keyEnds[k]

\* When key k has a token again, as long as nobody takes one.
FreeAt(k) == tat[k] - policy.emission * Burst

\* A task refused once waits until less than a millisecond before its key has
\* a token, or has done so; one refused twice waits until it has it.
Waited ==
  \A t \in Tasks : refused[t] > 0 =>
    /\ t \in Submitted /\ Limited
    /\ refused[t] <= 2
    /\ refused[t] = 1 =>
         \/ place[t] = "delayed" /\ score[t] \in Int /\ FreeAt(LimitKey(t)) < (score[t] + 1) * Milli
         \/ FreeAt(LimitKey(t)) < ((now \div Milli) + 1) * Milli
    /\ refused[t] = 2 =>
         \/ place[t] = "delayed" /\ score[t] \in Int /\ FreeAt(LimitKey(t)) <= score[t] * Milli
         \/ FreeAt(LimitKey(t)) <= now

\* The inductive invariant of the policies.
PolicyIInv == PolicyTyped /\ Budgeted /\ RetryBudget /\ Ending /\ Bucketed /\ BucketAgrees /\ Waited

\* What a configuration is made of.
LEMMA PolicyFields ==
  ASSUME policy \in Policies
  PROVE  /\ policy.max \in Nat /\ policy.emission \in Nat /\ policy.maxRetry \in Nat
         /\ policy.timeout \in Nat /\ policy.deadline \in Nat
         /\ Submitted \subseteq Tasks
         /\ \A t \in Submitted : LimitKey(t) \in Keys
         /\ Grain \in Nat \ {0} /\ Milli \in Nat \ {0} /\ Second \in Nat \ {0} /\ NoLimit \notin Nat
<1>1. /\ policy.max \in Nat /\ policy.emission \in Nat /\ policy.maxRetry \in Nat
      /\ policy.timeout \in Nat /\ policy.deadline \in Nat
      /\ policy.tasks \in UNION {[S -> [key : Groups \cup {NoGroup}, field : Groups \cup {NoField}]] :
                                 S \in SUBSET Tasks}
  BY PolicyAssumption
<1>2. PICK S \in SUBSET Tasks :
        policy.tasks \in [S -> [key : Groups \cup {NoGroup}, field : Groups \cup {NoField}]]
  BY <1>1
<1>3. Submitted \subseteq Tasks
  BY <1>2 DEF Submitted
<1>4. \A t \in Submitted : LimitKey(t) \in Keys
  BY <1>2 DEF Submitted, LimitKey, Keys
<1>5. Grain \in Nat \ {0} /\ Milli \in Nat \ {0} /\ Second \in Nat \ {0} /\ NoLimit \notin Nat
  BY PolicyAssumption
<1> QED BY <1>1, <1>3, <1>4, <1>5

\* A key without a token: the stored TAT counts.
LEMMA Waiting ==
  ASSUME PolicyTyped, NEW k \in Keys, Limited, Wait(k) > 0
  PROVE  /\ now < FreeAt(k) /\ FreeAt(k) \in Int
         /\ Wait(k) \in Nat /\ Wait(k) >= 1 /\ now + Wait(k) * Milli >= FreeAt(k)
<1>1. /\ policy.emission \in Nat /\ Burst \in Nat /\ Milli \in Nat \ {0}
      /\ now \in Nat /\ tat[k] \in Int /\ keyEnds[k] \in Int
  BY PolicyFields DEF PolicyTyped, Limited, Burst
<1> DEFINE back == policy.emission * Burst
           allowAt == Tat(k) - back
<1>2. back \in Nat
  BY <1>1
<1>3. Tat(k) \in Int /\ (Tat(k) = tat[k] \/ Tat(k) = now)
  BY <1>1 DEF Tat, Larger
<1>4. Wait(k) = IF now < allowAt THEN Ceiling(allowAt - now, Milli) ELSE 0
  BY DEF Wait
<1> HIDE DEF back
<1>5. now < allowAt /\ allowAt \in Int
  BY <1>1, <1>2, <1>3, <1>4
<1>6. allowAt = tat[k] - back
  BY <1>1, <1>2, <1>3, <1>5
<1>7. FreeAt(k) = allowAt
  BY <1>6 DEF FreeAt, back
<1> HIDE DEF allowAt
<1>8. Wait(k) \in Int /\ Wait(k) * Milli >= allowAt - now /\ Wait(k) >= 1
  BY <1>1, <1>4, <1>5, RoundedUp
<1>9. Wait(k) * Milli \in Int
  BY <1>1, <1>8
<1> QED BY <1>1, <1>5, <1>7, <1>8, <1>9

\* A token is taken: the types.
LEMMA TokenTyped ==
  ASSUME PolicyTyped, NEW k \in Keys, TryConsume(k)
  PROVE  /\ tat' \in [Keys -> Int] /\ keyEnds' \in [Keys -> Int]
         /\ debt' \in [Keys -> Nat] /\ refused' \in [Tasks -> Nat]
         /\ Tat(k) \in Int
         /\ \E m \in Int : /\ tat' = [tat EXCEPT ![k] = m]
                           /\ Tat(k) + policy.emission - m <= Grain \div 2
         /\ \E end \in Int : /\ keyEnds' = [keyEnds EXCEPT ![k] = end]
                             /\ end >= Tat(k) + policy.emission
<1>1. /\ policy.emission \in Nat /\ Grain \in Nat \ {0} /\ Second \in Nat \ {0}
      /\ now \in Nat /\ tat[k] \in Int /\ keyEnds[k] \in Int /\ debt[k] \in Nat
  BY PolicyFields DEF PolicyTyped
<1> DEFINE newTat == Tat(k) + policy.emission
<1>2. Tat(k) \in Int /\ newTat \in Int
  BY <1>1 DEF Tat, Larger
<1>3. PICK m \in Printed(newTat) : tat' = [tat EXCEPT ![k] = m]
  BY DEF TryConsume
<1> HIDE DEF newTat
<1>4. m \in Int /\ 2 * (newTat - m) <= Grain
  <2>1. (newTat \div Grain) \in Int /\ Ceiling(newTat, Grain) \in Int
    BY <1>1, <1>2, Quotient, RoundedUp
  <2>2. (newTat \div Grain) * Grain \in Int /\ Ceiling(newTat, Grain) * Grain \in Int
    BY <1>1, <2>1
  <2>3. m \in {(newTat \div Grain) * Grain, Ceiling(newTat, Grain) * Grain} /\ 2 * (newTat - m) <= Grain
    BY <1>3 DEF Printed
  <2> QED BY <2>2, <2>3
<1>5. newTat - m <= Grain \div 2
  BY <1>1, <1>2, <1>4
<1> DEFINE end == now + Ceiling(newTat - now, Second) * Second
<1>6. end \in Int /\ end >= newTat
  <2>1. /\ Ceiling(newTat - now, Second) \in Int
        /\ Ceiling(newTat - now, Second) * Second >= newTat - now
    BY <1>1, <1>2, RoundedUp
  <2>2. Ceiling(newTat - now, Second) * Second \in Int
    BY <1>1, <2>1
  <2> QED BY <1>1, <1>2, <2>1, <2>2
<1>7. keyEnds' = [keyEnds EXCEPT ![k] = end]
  BY DEF TryConsume, newTat
<1> HIDE DEF end
<1>8. Owed(k) \in Nat
  BY <1>1 DEF Owed, Larger
<1>9. debt' \in [Keys -> Nat] /\ refused' \in [Tasks -> Nat]
  BY <1>8 DEF TryConsume, PolicyTyped
<1>10. tat' \in [Keys -> Int] /\ keyEnds' \in [Keys -> Int]
  BY <1>3, <1>4, <1>6, <1>7 DEF PolicyTyped
<1>11. Tat(k) + policy.emission - m <= Grain \div 2 /\ end >= Tat(k) + policy.emission
  BY <1>1, <1>2, <1>4, <1>5, <1>6 DEF newTat
<1> QED BY <1>2, <1>3, <1>4, <1>6, <1>7, <1>9, <1>10, <1>11

\* The end of a context.
LEMMA ContextEndTyped ==
  ASSUME PolicyTyped
  PROVE  /\ ContextEnd \in Nat \cup {NoLimit}
         /\ policy.deadline > 0 => ContextEnd \in Nat /\ (ContextEnd <= policy.deadline \/ ContextEnd <= now)
<1>1. policy.timeout \in Nat /\ policy.deadline \in Nat /\ now \in Nat /\ NoLimit \notin Nat
  BY PolicyFields DEF PolicyTyped
<1> DEFINE byTimeout == IF policy.timeout > 0 THEN now + policy.timeout ELSE NoLimit
<1>2. byTimeout \in Nat \cup {NoLimit} /\ (byTimeout # NoLimit => byTimeout \in Nat)
  BY <1>1
<1>3. ContextEnd = IF policy.deadline = 0 THEN byTimeout
                   ELSE IF policy.deadline <= now THEN now
                   ELSE IF byTimeout = NoLimit \/ policy.deadline < byTimeout THEN policy.deadline
                   ELSE byTimeout
  BY DEF ContextEnd
<1> HIDE DEF byTimeout
<1> QED BY <1>1, <1>2, <1>3

\* Every step keeps the types.
LEMMA PolicyTypedStep ==
  ASSUME PolicyTyped, PolicyNext
  PROVE  PolicyTyped' /\ policy' = policy
<1>1. Submitted \subseteq Tasks /\ \A t \in Submitted : LimitKey(t) \in Keys
  BY PolicyFields DEF PolicyTyped
<1>2. CASE Tick
  <2>1. now' \in Nat
    BY <1>2 DEF Tick, PolicyTyped
  <2>2. debt' \in [Keys -> Nat]
    BY <1>2 DEF Tick, PolicyTyped, Larger
  <2> QED BY <1>2, <2>1, <2>2 DEF Tick, PolicyTyped
<1>3. ASSUME NEW t \in Submitted, Admit(t) \/ AdmitUnlimited(t) PROVE PolicyTyped' /\ policy' = policy
  <2>1. /\ tat' \in [Keys -> Int] /\ keyEnds' \in [Keys -> Int]
        /\ debt' \in [Keys -> Nat] /\ refused' \in [Tasks -> Nat]
    <3>1. CASE TryConsume(LimitKey(t))
      BY <1>1, <3>1, TokenTyped
    <3>2. CASE UNCHANGED <<tat, keyEnds, debt, refused>>
      BY <3>2 DEF PolicyTyped
    <3> QED BY <1>3, <3>1, <3>2 DEF Admit, AdmitUnlimited
  <2>2. Execute(t) /\ t \in Tasks
    BY <1>1, <1>3 DEF Admit, AdmitUnlimited
  <2>3. expires' \in [Tasks -> Nat \cup {NoLimit}]
    BY <2>2, ContextEndTyped DEF Execute, PolicyTyped
  <2>4. place' \in [Tasks -> Places] /\ runs' \in [Tasks -> Nat]
    BY <2>2 DEF Execute, PolicyTyped, Places
  <2>5. UNCHANGED <<policy, now, retry, deliveries, score, ended>> /\ redisFaults' \in Nat
    BY <1>3 DEF Admit, AdmitUnlimited, Faults, PolicyTyped
  <2> QED BY <2>1, <2>3, <2>4, <2>5 DEF PolicyTyped
<1>4. ASSUME NEW t \in Submitted, Defer(t) PROVE PolicyTyped' /\ policy' = policy
  <2>1. t \in Tasks /\ refused' \in [Tasks -> Nat]
    BY <1>1, <1>4 DEF Defer, PolicyTyped
  <2>2. place' \in [Tasks -> Places]
    BY <1>4 DEF Defer, PolicyTyped, Places
  <2>3. score' = [u \in Tasks |-> score'[u]]
    BY <1>4 DEF Defer, PolicyTyped
  <2> QED BY <1>4, <2>1, <2>2, <2>3 DEF Defer, PolicyTyped
<1>5. ASSUME NEW t \in Submitted, StaysPending(t), Faults(1) \/ Faults(2),
             UNCHANGED <<policy, now, tat, keyEnds, deliveries, debt, runs, refused>>
      PROVE  PolicyTyped' /\ policy' = policy
  <2>1. /\ place' \in [Tasks -> Places]
        /\ expires' \in [Tasks -> Nat \cup {NoLimit}]
        /\ redisFaults' \in Nat
    BY <1>1, <1>5 DEF StaysPending, Faults, PolicyTyped, Places
  <2> QED BY <1>5, <2>1 DEF StaysPending, PolicyTyped
<1>6. ASSUME NEW t \in Submitted, NEW err, NEW f \in {0, 1}, Charge(t, err, f),
             UNCHANGED <<policy, now, tat, keyEnds, deliveries, debt, runs, refused>>
      PROVE  PolicyTyped' /\ policy' = policy
  <2>1. CASE StaysPending(t) /\ Faults(f + 1)
    BY <1>5, <1>6, <2>1
  <2>2. CASE ~(StaysPending(t) /\ Faults(f + 1))
    <3>1. /\ t \in Tasks /\ retry' \in [Tasks -> Nat] /\ expires' \in [Tasks -> Nat \cup {NoLimit}]
          /\ redisFaults' \in Nat
      BY <1>1, <1>6, <2>2 DEF Charge, Faults, PolicyTyped
    <3>2. place' \in [Tasks -> Places] /\ ended' \in [Tasks -> {"none", "spent", "permanent"}]
      BY <1>6, <2>2, <3>1 DEF Charge, PolicyTyped, Places
    <3>3. score' = [u \in Tasks |-> score'[u]]
      BY <1>6, <2>2 DEF Charge, PolicyTyped
    <3> QED BY <1>6, <3>1, <3>2, <3>3 DEF PolicyTyped
  <2> QED BY <2>1, <2>2
<1>7. ASSUME NEW t \in Submitted, DeferFails(t) \/ \E err \in Errors : FailWith(t, err)
      PROVE  PolicyTyped' /\ policy' = policy
  BY <1>6, <1>7 DEF DeferFails, FailWith
<1>8. ASSUME NEW t \in Submitted, Succeed(t) \/ RouteExceeded(t) PROVE PolicyTyped' /\ policy' = policy
  <2>1. CASE StaysPending(t) /\ Faults(1)
    BY <1>5, <1>8, <2>1 DEF Succeed, RouteExceeded
  <2>2. CASE ~(StaysPending(t) /\ Faults(1))
    BY <1>1, <1>8, <2>2 DEF Succeed, RouteExceeded, PolicyTyped, Places
  <2> QED BY <2>1, <2>2
<1>9. ASSUME NEW t \in Submitted, PromoteDue(t) PROVE PolicyTyped' /\ policy' = policy
  <2>1. score' = [u \in Tasks |-> score'[u]]
    BY <1>9 DEF PromoteDue, PolicyTyped
  <2>2. place' \in [Tasks -> Places]
    BY <1>1, <1>9 DEF PromoteDue, PolicyTyped, Places
  <2>3. deliveries' \in [Tasks -> Nat \ {0}]
    BY <1>1, <1>9 DEF PromoteDue, PolicyTyped
  <2> QED BY <1>9, <2>1, <2>2, <2>3 DEF PromoteDue, PolicyTyped
<1>10. ASSUME NEW t \in Submitted, ReclaimPending(t) PROVE PolicyTyped' /\ policy' = policy
  <2>1. /\ place' \in [Tasks -> Places] /\ deliveries' \in [Tasks -> Nat \ {0}]
        /\ retry' \in [Tasks -> Nat] /\ redisFaults' \in Nat
    BY <1>1, <1>10 DEF ReclaimPending, Faults, PolicyTyped, Places
  <2> QED BY <1>10, <2>1 DEF ReclaimPending, PolicyTyped
<1> QED BY <1>2, <1>3, <1>4, <1>7, <1>8, <1>9, <1>10 DEF PolicyNext

\* The allowance in numbers.
LEMMA Allowances ==
  ASSUME policy \in Policies, redisFaults \in Nat
  PROVE  /\ Extra \in Nat /\ Extra >= 1 /\ Extra >= policy.maxRetry - 1
         /\ Larger(1, policy.maxRetry) \in Nat /\ Larger(1, policy.maxRetry) <= 2 * Extra
         /\ Larger(1, policy.maxRetry) >= 1 /\ Larger(1, policy.maxRetry) >= policy.maxRetry
         /\ Larger(1, policy.maxRetry) \in {1, policy.maxRetry}
         /\ Allowance \in Nat /\ Allowance >= Larger(1, policy.maxRetry)
<1>1. policy.maxRetry \in Nat
  BY PolicyFields
<1>2. /\ Extra \in Nat /\ Extra >= 1 /\ Extra >= policy.maxRetry - 1
      /\ Larger(1, policy.maxRetry) \in Nat /\ Larger(1, policy.maxRetry) <= 2 * Extra
      /\ Larger(1, policy.maxRetry) >= 1 /\ Larger(1, policy.maxRetry) >= policy.maxRetry
      /\ Larger(1, policy.maxRetry) \in {1, policy.maxRetry}
  BY <1>1 DEF Extra, Larger
<1>3. redisFaults * Extra \in Nat
  BY <1>2
<1> QED BY <1>2, <1>3 DEF Allowance

\* Every failed call adds to it.
LEMMA AllowanceGrows ==
  ASSUME policy \in Policies, policy' = policy, redisFaults \in Nat,
         NEW n \in Nat, redisFaults' = redisFaults + n
  PROVE  /\ Extra' = Extra /\ Allowance' \in Nat
         /\ Allowance' >= Allowance /\ (n > 0 => Allowance' >= Allowance + Extra)
<1>1. Extra' = Extra /\ Extra \in Nat /\ Allowance \in Nat /\ Larger(1, policy.maxRetry) \in Nat
  BY Allowances DEF Extra
<1> DEFINE x == Extra
           f == redisFaults
<1>2. x \in Nat /\ f \in Nat
  BY <1>1
<1>3. Allowance' = Larger(1, policy.maxRetry) + (f + n) * x /\ Allowance = Larger(1, policy.maxRetry) + f * x
  BY <1>1 DEF Allowance
<1> HIDE DEF x, f
<1>4. (f + n) * x = f * x + n * x /\ f * x \in Nat /\ n * x \in Nat
  BY <1>2
<1>5. n > 0 => n * x >= x
  BY <1>2
<1> QED BY <1>1, <1>2, <1>3, <1>4, <1>5 DEF x

\* Only an execution or a failed call uses an attempt, and a task runs more often
\* only for a failed call.
LEMMA BudgetStep ==
  ASSUME PolicyTyped, Budgeted, RetryBudget, PolicyNext
  PROVE  Budgeted' /\ RetryBudget'
<1> DEFINE budget == Larger(1, policy.maxRetry)
           M == policy.maxRetry
           F == redisFaults
           Good(u) == /\ runs[u] <= Allowance
                      /\ place[u] \in {"absent", "ready", "delayed"} =>
                            /\ retry[u] <= M => runs[u] + 1 <= Allowance /\ runs[u] + M - retry[u] <= Allowance
                            /\ retry[u] <= runs[u] + F
                            /\ deliveries[u] <= F + 1
                      /\ place[u] = "running" =>
                            /\ runs[u] + M - 1 - retry[u] <= Allowance
                            /\ retry[u] + 1 <= runs[u] + F
                            /\ deliveries[u] <= F + 1
                      /\ place[u] = "pending" => runs[u] + Extra <= Allowance /\ deliveries[u] <= F
                      /\ place[u] = "dead" /\ ended[u] = "spent" => budget <= runs[u] + F
<1>1. /\ policy \in Policies /\ policy' = policy /\ Submitted \subseteq Tasks /\ M \in Nat
      /\ retry \in [Tasks -> Nat] /\ runs \in [Tasks -> Nat] /\ deliveries \in [Tasks -> Nat \ {0}] /\ F \in Nat
  BY PolicyTypedStep, PolicyFields DEF PolicyTyped
<1>2. /\ Extra \in Nat /\ Extra >= 1 /\ Extra >= M - 1 /\ Allowance \in Nat
      /\ budget \in Nat /\ budget >= 1 /\ budget >= M /\ budget <= 2 * Extra /\ (budget = 1 \/ budget = M)
  BY <1>1, Allowances
<1>3. \A u \in Tasks : Good(u)
  BY DEF Budgeted, RetryBudget
<1>4. (\A u \in Tasks : Good(u)') => Budgeted' /\ RetryBudget'
  BY <1>1 DEF Budgeted, RetryBudget, Allowance, Extra
<1>5. \E n \in Nat : F' = F + n
  <2>1. F' = F + 0 \/ Faults(0) \/ Faults(1) \/ Faults(2)
    BY <1>1 DEF PolicyNext, Tick, Admit, AdmitUnlimited, Defer, DeferFails, RouteExceeded, Succeed, FailWith,
       Charge, ReclaimPending, PromoteDue
  <2> QED BY <2>1 DEF Faults
<1>6. /\ F' \in Nat /\ F' >= F /\ Extra' = Extra /\ budget' = budget /\ M' = M
      /\ Allowance' \in Nat /\ Allowance' >= Allowance
      /\ F' > F => Allowance' >= Allowance + Extra
  BY <1>1, <1>5, AllowanceGrows
<1> HIDE DEF budget, M, F
<1>7. ASSUME NEW u \in Tasks, UNCHANGED <<place[u], retry[u], deliveries[u], runs[u], ended[u]>>
      PROVE  Good(u)'
  BY <1>1, <1>2, <1>3, <1>6, <1>7
<1>8. CASE Tick
  BY <1>4, <1>7, <1>8 DEF Tick
<1>9. ASSUME NEW t \in Submitted, Admit(t) \/ AdmitUnlimited(t), NEW u \in Tasks PROVE Good(u)'
  <2>1. /\ place[t] = "ready" /\ retry[t] <= M /\ place' = [place EXCEPT ![t] = "running"]
        /\ runs' = [runs EXCEPT ![t] = @ + 1]
        /\ UNCHANGED <<retry, deliveries, ended>>
    BY <1>9 DEF Admit, AdmitUnlimited, Deliverable, Execute, M
  <2>2. CASE u # t
    BY <1>7, <2>1, <2>2 DEF PolicyTyped
  <2>3. CASE u = t
    <3>1. place'[u] = "running" /\ runs'[u] = runs[u] + 1 /\ retry'[u] = retry[u] /\ deliveries'[u] = deliveries[u]
      BY <1>1, <2>1, <2>3 DEF PolicyTyped
    <3> QED BY <1>1, <1>2, <1>3, <1>6, <2>1, <2>3, <3>1
  <2> QED BY <2>2, <2>3
<1>10. ASSUME NEW t \in Submitted, Defer(t) \/ PromoteDue(t), NEW u \in Tasks PROVE Good(u)'
  <2>1. /\ UNCHANGED <<retry, runs, ended>>
        /\ place[t] \in {"ready", "delayed"} /\ \E x \in {"ready", "delayed"} : place' = [place EXCEPT ![t] = x]
        /\ deliveries' = deliveries \/ deliveries' = [deliveries EXCEPT ![t] = 1]
    BY <1>10 DEF Defer, Deliverable, PromoteDue
  <2>2. CASE u # t
    BY <1>1, <1>7, <2>1, <2>2 DEF PolicyTyped
  <2>3. CASE u = t
    <3>1. place'[u] \in {"ready", "delayed"} /\ deliveries'[u] \in {deliveries[u], 1}
      BY <1>1, <2>1, <2>3 DEF PolicyTyped
    <3> QED BY <1>1, <1>2, <1>3, <1>6, <2>1, <2>3, <3>1
  <2> QED BY <2>2, <2>3
<1>11. ASSUME NEW t \in Submitted, place[t] \in {"ready", "running"}, StaysPending(t), Faults(1) \/ Faults(2),
              UNCHANGED <<runs, deliveries>>, NEW u \in Tasks
       PROVE  Good(u)'
  <2>1. place' = [place EXCEPT ![t] = "pending"] /\ UNCHANGED <<retry, ended>> /\ F' > F
    BY <1>1, <1>11 DEF StaysPending, Faults, F
  <2>2. CASE u # t
    BY <1>7, <1>11, <2>1, <2>2 DEF PolicyTyped
  <2>3. CASE u = t
    <3>1. place'[u] = "pending" /\ runs'[u] = runs[u] /\ deliveries'[u] = deliveries[u]
      BY <1>1, <1>11, <2>1, <2>3 DEF PolicyTyped
    <3>2. deliveries[u] <= F + 1 /\ runs[u] <= Allowance
      BY <1>3, <1>11, <2>3
    <3> QED BY <1>1, <1>2, <1>6, <2>1, <3>1, <3>2
  <2> QED BY <2>2, <2>3
<1>12. ASSUME NEW t \in Submitted, Succeed(t) \/ RouteExceeded(t), NEW u \in Tasks PROVE Good(u)'
  <2>1. CASE StaysPending(t) /\ Faults(1)
    BY <1>11, <1>12, <2>1 DEF Succeed, RouteExceeded
  <2>2. CASE ~(StaysPending(t) /\ Faults(1))
    <3>1. /\ UNCHANGED <<retry, runs, deliveries>>
          /\ \/ place' = [place EXCEPT ![t] = "done"] /\ ended' = ended
             \/ /\ place[t] = "ready" /\ retry[t] > M
                /\ place' = [place EXCEPT ![t] = "dead"] /\ ended' = [ended EXCEPT ![t] = "spent"]
      BY <1>12, <2>2 DEF Succeed, RouteExceeded, M
    <3>2. CASE u # t
      BY <1>7, <3>1, <3>2 DEF PolicyTyped
    <3>3. CASE u = t
      <4>1. place'[u] = "done" \/ (place'[u] = "dead" /\ place[u] = "ready" /\ retry[u] > M)
        BY <1>1, <3>1, <3>3 DEF PolicyTyped
      <4>2. place[u] = "ready" => retry[u] <= runs[u] + F
        BY <1>3
      <4>3. runs[u] <= Allowance
        BY <1>3
      <4> QED BY <1>1, <1>2, <1>6, <3>1, <4>1, <4>2, <4>3
    <3> QED BY <3>2, <3>3
  <2> QED BY <2>1, <2>2
<1>13. ASSUME NEW t \in Submitted, NEW err, NEW f \in {0, 1}, Charge(t, err, f), UNCHANGED <<runs, deliveries>>,
              \/ place[t] = "ready" /\ retry[t] <= M /\ err = "broker" /\ f = 1
              \/ place[t] = "running" /\ err \in Errors,
              NEW u \in Tasks
       PROVE  Good(u)'
  <2>1. CASE StaysPending(t) /\ Faults(f + 1)
    BY <1>11, <1>13, <2>1
  <2>2. CASE ~(StaysPending(t) /\ Faults(f + 1))
    <3>1. /\ retry' = [retry EXCEPT ![t] = @ + 1] /\ t \in Tasks /\ F' = F + f
          /\ \/ /\ ~ShouldRetry(t, err) /\ place' = [place EXCEPT ![t] = "dead"]
                /\ ended' = [ended EXCEPT ![t] = IF err \in {"error", "broker"} THEN "spent" ELSE "permanent"]
             \/ ShouldRetry(t, err) /\ place' = [place EXCEPT ![t] = "delayed"] /\ ended' = ended
      BY <1>1, <1>13, <2>2 DEF Charge, Faults, F
    <3>2. CASE u # t
      <4>1. UNCHANGED <<place[u], retry[u], deliveries[u], runs[u], ended[u]>>
        BY <1>13, <3>1, <3>2 DEF PolicyTyped
      <4> QED BY <1>7, <4>1
    <3>3. CASE u = t
      <4>1. /\ retry'[u] = retry[u] + 1 /\ runs'[u] = runs[u] /\ deliveries'[u] = deliveries[u]
            /\ retry[u] \in Nat /\ runs[u] \in Nat /\ deliveries[u] \in Nat
        BY <1>1, <1>13, <3>1, <3>3
      <4>2. /\ runs[u] <= Allowance /\ runs[u] + M - 1 - retry[u] <= Allowance
            /\ retry[u] + 1 <= runs[u] + F' /\ deliveries[u] <= F + 1
        BY <1>1, <1>2, <1>3, <1>13, <3>1, <3>3, <4>1
      <4>3. CASE ShouldRetry(t, err)
        <5>1. place'[u] = "delayed" /\ retry[u] + 1 < M
          BY <3>1, <3>3, <4>3 DEF PolicyTyped, ShouldRetry, M
        <5> QED BY <1>1, <1>2, <1>6, <4>1, <4>2, <5>1
      <4>4. CASE ~ShouldRetry(t, err)
        <5>1. place'[u] = "dead" /\ (ended'[u] = "spent" => err \in {"error", "broker"})
          BY <3>1, <3>3, <4>4 DEF PolicyTyped
        <5>2. ended'[u] = "spent" => retry[u] + 1 >= M
          BY <1>1, <3>3, <4>4, <5>1 DEF ShouldRetry, M
        <5> QED BY <1>1, <1>2, <1>6, <4>1, <4>2, <5>1, <5>2
      <4> QED BY <4>3, <4>4
    <3> QED BY <3>2, <3>3
  <2> QED BY <2>1, <2>2
<1>14. ASSUME NEW t \in Submitted, DeferFails(t) \/ \E err \in Errors : FailWith(t, err), NEW u \in Tasks
       PROVE  Good(u)'
  BY <1>13, <1>14 DEF DeferFails, Deliverable, FailWith, M
<1>15. ASSUME NEW t \in Submitted, ReclaimPending(t), NEW u \in Tasks PROVE Good(u)'
  <2>1. /\ t \in Tasks /\ place[t] = "pending" /\ place' = [place EXCEPT ![t] = "ready"] /\ UNCHANGED <<runs, ended>>
        /\ deliveries' = [deliveries EXCEPT ![t] = @ + 1]
        /\ \/ retry' = [retry EXCEPT ![t] = deliveries[t]]
           \/ retry' = [retry EXCEPT ![t] = 0] /\ F' > F
    BY <1>1, <1>15 DEF ReclaimPending, Faults, F
  <2>2. CASE u # t
    BY <1>7, <2>1, <2>2 DEF PolicyTyped
  <2>3. CASE u = t
    <3>1. /\ place'[u] = "ready" /\ runs'[u] = runs[u] /\ deliveries'[u] = deliveries[u] + 1
          /\ retry'[u] = deliveries[u] \/ (retry'[u] = 0 /\ F' > F)
          /\ runs[u] \in Nat /\ deliveries[u] \in Nat \ {0}
      BY <1>1, <2>1, <2>3 DEF PolicyTyped
    <3>2. runs[u] + Extra <= Allowance /\ deliveries[u] <= F
      BY <1>3, <2>1, <2>3
    <3>3. CASE retry'[u] = deliveries[u]
      BY <1>1, <1>2, <1>6, <3>1, <3>2, <3>3
    <3>4. CASE retry'[u] = 0 /\ F' > F
      BY <1>1, <1>2, <1>6, <3>1, <3>2, <3>4
    <3> QED BY <3>1, <3>3, <3>4
  <2> QED BY <2>2, <2>3
<1> HIDE DEF Good
<1> QED BY <1>4, <1>8, <1>9, <1>10, <1>12, <1>14, <1>15 DEF PolicyNext

\* A context gets its end when the handler starts; the clock moves on after it.
LEMMA EndingStep ==
  ASSUME PolicyTyped, Ending, PolicyNext
  PROVE  Ending'
<1>1. /\ policy' = policy /\ Submitted \subseteq Tasks /\ policy.deadline \in Nat
      /\ now \in Nat /\ place \in [Tasks -> Places]
  BY PolicyTypedStep, PolicyFields DEF PolicyTyped
<1>2. now' >= now /\ now' \in Nat
  BY <1>1 DEF PolicyNext, Tick, Admit, AdmitUnlimited, Defer, DeferFails, RouteExceeded, Succeed, ReclaimPending,
     PromoteDue, FailWith
<1>3. ASSUME NEW u \in Tasks, place'[u] = "running", policy.deadline > 0,
             place[u] = "running" /\ expires'[u] = expires[u]
      PROVE  expires'[u] \in Nat /\ (expires'[u] <= policy.deadline \/ expires'[u] <= now')
  BY <1>1, <1>2, <1>3 DEF Ending
<1>4. CASE Tick
  BY <1>1, <1>3, <1>4 DEF Tick, Ending
<1>5. ASSUME NEW t \in Submitted, Execute(t), now' = now PROVE Ending'
  <2> SUFFICES ASSUME NEW u \in Tasks, place'[u] = "running", policy.deadline > 0
               PROVE  expires'[u] \in Nat /\ (expires'[u] <= policy.deadline \/ expires'[u] <= now')
    BY <1>1 DEF Ending
  <2>1. CASE u = t
    BY <1>1, <1>5, <2>1, ContextEndTyped DEF Execute, PolicyTyped
  <2>2. CASE u # t
    BY <1>1, <1>3, <1>5, <2>2 DEF Execute, PolicyTyped
  <2> QED BY <2>1, <2>2
<1>6. ASSUME NEW t \in Submitted, now' = now, NEW s \in {"ready", "pending", "delayed", "done", "dead"},
             place' = [place EXCEPT ![t] = s],
             expires' = expires \/ expires' = [expires EXCEPT ![t] = NoLimit]
      PROVE  Ending'
  <2> SUFFICES ASSUME NEW u \in Tasks, place'[u] = "running", policy.deadline > 0
               PROVE  expires'[u] \in Nat /\ (expires'[u] <= policy.deadline \/ expires'[u] <= now')
    BY <1>1 DEF Ending
  <2>1. u # t /\ place[u] = "running" /\ expires'[u] = expires[u]
    BY <1>1, <1>6 DEF PolicyTyped
  <2> QED BY <1>3, <2>1
<1>7. ASSUME NEW t \in Submitted, NEW err, NEW f, Charge(t, err, f), now' = now PROVE Ending'
  BY <1>6, <1>7 DEF Charge, StaysPending
<1>8. ASSUME NEW t \in Submitted, Admit(t) \/ AdmitUnlimited(t) PROVE Ending'
  BY <1>5, <1>8 DEF Admit, AdmitUnlimited
<1>9. ASSUME NEW t \in Submitted,
             Defer(t) \/ RouteExceeded(t) \/ Succeed(t) \/ ReclaimPending(t) \/ PromoteDue(t)
      PROVE  Ending'
  BY <1>6, <1>9 DEF Defer, RouteExceeded, Succeed, StaysPending, ReclaimPending, PromoteDue
<1>10. ASSUME NEW t \in Submitted, DeferFails(t) \/ \E err \in Errors : FailWith(t, err) PROVE Ending'
  BY <1>7, <1>10 DEF DeferFails, FailWith
<1> QED BY <1>4, <1>8, <1>9, <1>10 DEF PolicyNext

\* A granted token adds to the ideal bucket's debt at most what it adds to the
\* stored TAT, less half a grain of printing, and the key outlives the TAT.
LEMMA BucketStep ==
  ASSUME PolicyTyped, Bucketed, BucketAgrees, PolicyNext
  PROVE  Bucketed' /\ BucketAgrees'
<1>1. /\ policy' = policy /\ PolicyTyped' /\ now \in Nat
      /\ policy.max \in Nat /\ policy.emission \in Nat /\ Grain \in Nat \ {0}
      /\ Submitted \subseteq Tasks /\ \A t \in Submitted : LimitKey(t) \in Keys
  BY PolicyTypedStep, PolicyFields DEF PolicyTyped
<1>2. \A k \in Keys : debt[k] \in Nat /\ tat[k] \in Int /\ keyEnds[k] \in Int
  BY DEF PolicyTyped
<1>3. CASE Tick
  <2> SUFFICES ASSUME NEW k \in Keys
               PROVE  /\ policy.emission <= Grain \div 2 => debt'[k] = 0
                      /\ debt'[k] > 0 => debt'[k] + now' <= tat'[k] /\ debt'[k] + now' <= keyEnds'[k]
                      /\ Limited => debt'[k] <= policy.max * policy.emission
    BY <1>1 DEF Bucketed, BucketAgrees, Limited
  <2>1. /\ now' = now + 1 /\ tat' = tat /\ keyEnds' = keyEnds
        /\ debt'[k] = IF debt[k] > 1 THEN debt[k] - 1 ELSE 0
    BY <1>2, <1>3 DEF Tick, Larger
  <2>2. policy.max * policy.emission \in Nat
    BY <1>1
  <2> QED BY <1>1, <1>2, <2>1, <2>2 DEF Bucketed, BucketAgrees
<1>4. ASSUME NEW k \in Keys, Limited, TryConsume(k), now' = now PROVE Bucketed' /\ BucketAgrees'
  <2>1. PICK m \in Int : tat' = [tat EXCEPT ![k] = m] /\ Tat(k) + policy.emission - m <= Grain \div 2
    BY <1>4, TokenTyped
  <2>2. PICK end \in Int : keyEnds' = [keyEnds EXCEPT ![k] = end] /\ end >= Tat(k) + policy.emission
    BY <1>4, TokenTyped
  <2>3. Tat(k) \in Int /\ (debt[k] > 0 => debt[k] + now <= Tat(k)) /\ now <= Tat(k)
    BY <1>1, <1>2 DEF Bucketed, Tat, Larger
  <2> DEFINE half == Grain \div 2
             gain == Larger(policy.emission - half, 0)
             back == policy.emission * Burst
  <2>4. half \in Nat /\ gain \in Nat /\ gain <= policy.emission
    BY <1>1 DEF Larger
  <2>5. debt' = [debt EXCEPT ![k] = debt[k] + gain]
    BY <1>4 DEF TryConsume, Owed
  <2>6. back \in Int /\ back + policy.emission = policy.max * policy.emission
    BY <1>1, <1>4 DEF Burst, Limited
  <2>7. Tat(k) - now <= back
    <3>1. Wait(k) = 0 /\ Wait(k) = IF now < Tat(k) - back THEN Ceiling(Tat(k) - back - now, Milli) ELSE 0
      BY <1>4 DEF TryConsume, Wait
    <3>2. Milli \in Nat \ {0}
      BY PolicyFields DEF PolicyTyped
    <3> HIDE DEF back
    <3>3. now < Tat(k) - back => Ceiling(Tat(k) - back - now, Milli) >= 1
      BY <1>1, <2>3, <2>6, <3>2, RoundedUp
    <3> QED BY <1>1, <2>3, <2>6, <3>1, <3>3
  <2>8. /\ policy.emission <= half => gain = 0
        /\ policy.emission > half => gain = policy.emission - half
    BY <1>1, <2>4 DEF Larger
  <2> HIDE DEF half, gain, back
  <2>9. Tat(k) + policy.emission - m <= half
    BY <2>1 DEF half
  <2>10. /\ policy.emission <= half => debt[k] + gain = 0
         /\ debt[k] + gain > 0 => debt[k] + gain + now <= m /\ debt[k] + gain + now <= end
         /\ debt[k] + gain <= policy.max * policy.emission
    <3>1. policy.emission <= half => debt[k] = 0
      BY DEF Bucketed, half
    <3>2. debt[k] + now <= Tat(k)
      BY <1>1, <1>2, <2>3
    <3> QED BY <1>1, <1>2, <2>1, <2>2, <2>3, <2>4, <2>6, <2>7, <2>8, <2>9, <3>1, <3>2
  <2>11. ASSUME NEW j \in Keys
         PROVE  /\ policy.emission <= half => debt'[j] = 0
                /\ debt'[j] > 0 => debt'[j] + now <= tat'[j] /\ debt'[j] + now <= keyEnds'[j]
                /\ debt'[j] <= policy.max * policy.emission
    <3>1. CASE j = k
      <4>1. debt'[j] = debt[k] + gain /\ tat'[j] = m /\ keyEnds'[j] = end
        BY <2>1, <2>2, <2>5, <3>1 DEF PolicyTyped
      <4> QED BY <2>10, <4>1
    <3>2. CASE j # k
      <4>1. debt'[j] = debt[j] /\ tat'[j] = tat[j] /\ keyEnds'[j] = keyEnds[j]
        BY <2>1, <2>2, <2>5, <3>2 DEF PolicyTyped
      <4> QED BY <1>4, <4>1 DEF Bucketed, BucketAgrees, half
    <3> QED BY <3>1, <3>2
  <2> QED BY <1>1, <1>4, <2>11 DEF Bucketed, BucketAgrees, Limited, half
<1>5. CASE UNCHANGED <<now, tat, keyEnds, debt>>
  BY <1>1, <1>5 DEF Bucketed, BucketAgrees, Limited
<1>6. ASSUME NEW t \in Submitted, Admit(t) PROVE Bucketed' /\ BucketAgrees'
  BY <1>1, <1>4, <1>5, <1>6 DEF Admit
<1>7. ASSUME NEW t \in Submitted,
             \/ AdmitUnlimited(t) \/ Defer(t) \/ DeferFails(t) \/ RouteExceeded(t) \/ Succeed(t)
             \/ ReclaimPending(t) \/ PromoteDue(t) \/ \E err \in Errors : FailWith(t, err)
      PROVE  UNCHANGED <<now, tat, keyEnds, debt>>
  BY <1>7 DEF AdmitUnlimited, Defer, DeferFails, RouteExceeded, Succeed, ReclaimPending, PromoteDue, FailWith
<1> QED BY <1>3, <1>5, <1>6, <1>7 DEF PolicyNext

\* A refused task is due less than a millisecond before its key has a token; if
\* that is too early it is refused once more, and then due at a later millisecond.
LEMMA WaitedStep ==
  ASSUME PolicyTyped, Waited, PolicyNext
  PROVE  Waited'
<1>1. /\ policy' = policy /\ now \in Nat /\ Milli \in Nat \ {0} /\ refused \in [Tasks -> Nat]
      /\ Submitted \subseteq Tasks /\ \A t \in Submitted : LimitKey(t) \in Keys
      /\ policy.emission \in Nat
  BY PolicyTypedStep, PolicyFields DEF PolicyTyped
<1>2. /\ Submitted' = Submitted /\ Limited' = Limited /\ Burst' = Burst
      /\ \A t : LimitKey(t)' = LimitKey(t)
  BY <1>1 DEF Submitted, Limited, Burst, LimitKey
<1>3. \A k \in Keys : Limited => FreeAt(k) \in Int
  <2>1. Limited => policy.emission * Burst \in Int
    BY <1>1, PolicyFields DEF PolicyTyped, Limited, Burst
  <2> QED BY <2>1 DEF FreeAt, PolicyTyped
<1> DEFINE Patient(u) ==
             /\ u \in Submitted /\ Limited
             /\ refused[u] <= 2
             /\ refused[u] = 1 =>
                  \/ place[u] = "delayed" /\ score[u] \in Int /\ FreeAt(LimitKey(u)) < (score[u] + 1) * Milli
                  \/ FreeAt(LimitKey(u)) < ((now \div Milli) + 1) * Milli
             /\ refused[u] = 2 =>
                  \/ place[u] = "delayed" /\ score[u] \in Int /\ FreeAt(LimitKey(u)) <= score[u] * Milli
                  \/ FreeAt(LimitKey(u)) <= now
<1>4. \A u \in Tasks : refused[u] > 0 => Patient(u)
  BY DEF Waited
<1>5. (\A u \in Tasks : refused'[u] > 0 => Patient(u)') => Waited'
  BY DEF Waited
<1>6. ASSUME NEW u \in Tasks, u \in Submitted, Limited, UNCHANGED <<tat, now>>,
             UNCHANGED <<refused[u], place[u], score[u]>>, refused[u] > 0
      PROVE  Patient(u)'
  <2>1. FreeAt(LimitKey(u))' = FreeAt(LimitKey(u))
    BY <1>1, <1>2, <1>6 DEF FreeAt
  <2> QED BY <1>2, <1>4, <1>6, <2>1
<1>7. CASE Tick
  <2> SUFFICES ASSUME NEW u \in Tasks, refused[u] > 0 PROVE Patient(u)'
    BY <1>5, <1>7 DEF Tick
  <2>1. now' = now + 1 /\ UNCHANGED <<tat, refused, place, score>>
    BY <1>7 DEF Tick
  <2>2. FreeAt(LimitKey(u))' = FreeAt(LimitKey(u))
    BY <1>1, <1>2, <2>1 DEF FreeAt
  <2>3. FreeAt(LimitKey(u)) \in Int
    BY <1>1, <1>3, <1>4
  <2>4. ((now \div Milli) + 1) * Milli <= ((now' \div Milli) + 1) * Milli
    <3> DEFINE a == now \div Milli
               b == now' \div Milli
    <3>1. a \in Int /\ b \in Int /\ a * Milli <= now /\ now' < (b + 1) * Milli
      BY <1>1, <2>1, Quotient
    <3> HIDE DEF a, b
    <3>2. a * Milli \in Int /\ (b + 1) * Milli \in Int
      BY <1>1, <3>1
    <3>3. a * Milli < (b + 1) * Milli
      BY <1>1, <2>1, <3>1, <3>2
    <3>4. a < b + 1
      BY <1>1, <3>1, <3>3, Cancel
    <3>5. (a + 1) * Milli <= (b + 1) * Milli
      BY <1>1, <3>1, <3>4, Scale
    <3> QED BY <3>5 DEF a, b
  <2>5. ((now \div Milli) + 1) * Milli \in Int /\ ((now' \div Milli) + 1) * Milli \in Int
    BY <1>1, <2>1, Quotient
  <2> QED BY <1>1, <1>2, <1>4, <2>1, <2>2, <2>3, <2>4, <2>5
<1>8. ASSUME NEW t \in Submitted, Admit(t), NEW u \in Tasks, refused'[u] > 0 PROVE Patient(u)'
  <2>1. UNCHANGED <<now, score>> /\ place' = [place EXCEPT ![t] = "running"] /\ place[t] = "ready"
    BY <1>8 DEF Admit, Deliverable, Execute
  <2>2. refused'[u] = refused[u] /\ u \in Submitted /\ Limited
    BY <1>4, <1>8 DEF Admit, TryConsume, PolicyTyped
  <2>3. LimitKey(u) # LimitKey(t)
    BY <1>8, <2>2 DEF Admit, TryConsume
  <2>4. tat'[LimitKey(u)] = tat[LimitKey(u)]
    BY <1>1, <1>8, <2>2, <2>3 DEF Admit, TryConsume, PolicyTyped
  <2>5. FreeAt(LimitKey(u))' = FreeAt(LimitKey(u))
    BY <1>1, <1>2, <2>4 DEF FreeAt
  <2>6. place'[u] = "delayed" <=> place[u] = "delayed"
    BY <2>1 DEF PolicyTyped
  <2> QED BY <1>2, <1>4, <1>8, <2>1, <2>2, <2>5, <2>6
<1>9. ASSUME NEW t \in Submitted, place[t] # "delayed", UNCHANGED <<tat, now, refused>>,
             \A u \in Tasks : u # t => UNCHANGED <<place[u], score[u]>>,
             NEW u \in Tasks, refused'[u] > 0
      PROVE  Patient(u)'
  <2>1. CASE u # t
    BY <1>4, <1>6, <1>9, <2>1
  <2>2. CASE u = t
    <3>1. FreeAt(LimitKey(u))' = FreeAt(LimitKey(u))
      BY <1>1, <1>2, <1>9 DEF FreeAt
    <3> QED BY <1>2, <1>4, <1>9, <2>2, <3>1
  <2> QED BY <2>1, <2>2
<1>10. ASSUME NEW t \in Submitted, NEW u \in Tasks, refused'[u] > 0,
              \/ AdmitUnlimited(t) \/ DeferFails(t) \/ RouteExceeded(t) \/ Succeed(t) \/ ReclaimPending(t)
              \/ \E err \in Errors : FailWith(t, err)
       PROVE  Patient(u)'
  <2>1. place[t] # "delayed" /\ UNCHANGED <<tat, now, refused>>
    BY <1>10 DEF AdmitUnlimited, Deliverable, DeferFails, RouteExceeded, Succeed, ReclaimPending, FailWith
  <2>2. \A v \in Tasks : v # t => UNCHANGED <<place[v], score[v]>>
    BY <1>10 DEF AdmitUnlimited, Execute, DeferFails, RouteExceeded, Succeed, ReclaimPending, FailWith,
       Charge, StaysPending, PolicyTyped
  <2> QED BY <1>9, <1>10, <2>1, <2>2
<1>11. ASSUME NEW t \in Submitted, PromoteDue(t), NEW u \in Tasks, refused'[u] > 0 PROVE Patient(u)'
  <2>1. /\ UNCHANGED <<tat, now, refused>> /\ score[t] <= now \div Milli
        /\ \A v \in Tasks : v # t => UNCHANGED <<place[v], score[v]>>
    BY <1>11 DEF PromoteDue, PolicyTyped
  <2>2. CASE u # t
    BY <1>4, <1>6, <1>11, <2>1, <2>2
  <2>3. CASE u = t
    <3>1. FreeAt(LimitKey(u))' = FreeAt(LimitKey(u)) /\ FreeAt(LimitKey(u)) \in Int
      BY <1>1, <1>2, <1>3, <1>4, <2>1, <1>11 DEF FreeAt
    <3> DEFINE ms == now \div Milli
    <3>2. ms \in Int /\ ms * Milli <= now /\ ms * Milli \in Int /\ (ms + 1) * Milli \in Int
      BY <1>1, Quotient
    <3>3. score[u] <= ms
      BY <2>1, <2>3
    <3>4. (refused[u] = 1 => FreeAt(LimitKey(u)) < (ms + 1) * Milli) /\ (refused[u] = 2 => FreeAt(LimitKey(u)) <= now)
      <4> HIDE DEF ms
      <4>1. ASSUME score[u] \in Int
            PROVE  /\ score[u] * Milli <= ms * Milli /\ (score[u] + 1) * Milli <= (ms + 1) * Milli
                   /\ score[u] * Milli \in Int /\ (score[u] + 1) * Milli \in Int
        BY <1>1, <3>2, <3>3, <4>1, Scale
      <4>2. /\ refused[u] = 1 =>
                 \/ score[u] \in Int /\ FreeAt(LimitKey(u)) < (score[u] + 1) * Milli
                 \/ FreeAt(LimitKey(u)) < (ms + 1) * Milli
            /\ refused[u] = 2 =>
                 \/ score[u] \in Int /\ FreeAt(LimitKey(u)) <= score[u] * Milli
                 \/ FreeAt(LimitKey(u)) <= now
        BY <1>4, <1>11, <2>1 DEF ms
      <4> QED BY <1>1, <3>1, <3>2, <4>1, <4>2
    <3> QED BY <1>2, <1>4, <1>11, <2>1, <3>1, <3>4
  <2> QED BY <2>2, <2>3
<1>12. ASSUME NEW t \in Submitted, Defer(t), NEW u \in Tasks, refused'[u] > 0 PROVE Patient(u)'
  <2>1. /\ UNCHANGED <<tat, now>> /\ place[t] = "ready" /\ Limited /\ t \in Tasks
        /\ place' = [place EXCEPT ![t] = "delayed"]
        /\ score' = [score EXCEPT ![t] = DueAfterWait(t)]
        /\ refused' = [refused EXCEPT ![t] = @ + 1]
        /\ Wait(LimitKey(t)) > 0
    BY <1>1, <1>12 DEF Defer, Deliverable
  <2>2. CASE u # t
    <3>1. UNCHANGED <<refused[u], place[u], score[u]>>
      BY <2>1, <2>2 DEF PolicyTyped
    <3> QED BY <1>4, <1>6, <1>12, <2>1, <3>1
  <2>3. CASE u = t
    <3> DEFINE k == LimitKey(t)
               w == Wait(k)
               ms == now \div Milli
               free == FreeAt(k)
    <3>1. k \in Keys /\ now < free /\ free \in Int /\ w \in Nat /\ w >= 1 /\ now + w * Milli >= free
      BY <1>1, <2>1, Waiting
    <3>2. ms \in Int /\ ms * Milli <= now /\ now < (ms + 1) * Milli
      BY <1>1, Quotient
    <3>3. DueAfterWait(t) = ms + w
      <4>1. DueAfterWait(t) = (now + w * Milli) \div Milli
        BY DEF DueAfterWait
      <4> HIDE DEF w
      <4>2. now \in Int /\ w \in Int
        BY <1>1, <3>1
      <4> QED BY <1>1, <4>1, <4>2, Shift
    <3>4. /\ place'[u] = "delayed" /\ score'[u] = ms + w /\ refused'[u] = refused[u] + 1
          /\ refused[u] \in Nat
      BY <1>1, <2>1, <2>3, <3>3 DEF PolicyTyped
    <3>5. FreeAt(LimitKey(u))' = free
      BY <1>1, <1>2, <2>1, <2>3 DEF FreeAt
    <3>6. refused[u] > 0 => refused[u] = 1 /\ free < (ms + 1) * Milli
      BY <1>1, <1>4, <2>1, <2>3, <3>1, <3>4
    <3> HIDE DEF k, w, ms, free
    <3>7. (ms + w + 1) * Milli = (ms + 1) * Milli + w * Milli /\ (ms + 1) * Milli \in Int /\ w * Milli \in Int
      BY <1>1, <3>1, <3>2
    <3>8. free < (ms + w + 1) * Milli
      BY <1>1, <3>1, <3>2, <3>7
    <3>9. (ms + 1) * Milli <= (ms + w) * Milli /\ (ms + w) * Milli \in Int
      BY <1>1, <3>1, <3>2, Scale
    <3>10. refused[u] = 1 => free <= (ms + w) * Milli
      BY <3>1, <3>6, <3>7, <3>9
    <3>11. ms + w \in Int
      BY <3>1, <3>2
    <3>12. u \in Submitted' /\ Limited'
      BY <1>2, <2>1, <2>3
    <3> QED BY <3>4, <3>5, <3>6, <3>8, <3>10, <3>11, <3>12
  <2> QED BY <2>2, <2>3
<1> HIDE DEF Patient
<1> QED BY <1>5, <1>7, <1>8, <1>10, <1>11, <1>12 DEF PolicyNext

\* The first state.
LEMMA PolicyStarts == PolicyInit => PolicyIInv
<1> SUFFICES ASSUME PolicyInit PROVE PolicyIInv
  OBVIOUS
<1>1. PolicyTyped
  BY DEF PolicyInit, PolicyTyped, Places
<1>2. /\ Allowance \in Nat /\ Allowance >= 1 /\ Allowance >= policy.maxRetry /\ policy.maxRetry \in Nat
  BY <1>1, Allowances, PolicyFields DEF PolicyTyped
<1>3. Budgeted /\ RetryBudget
  <2>1. Budgeted
    BY <1>2 DEF PolicyInit, Budgeted
  <2>2. RetryBudget
    BY <1>2 DEF PolicyInit, RetryBudget, Allowance, Extra
  <2> QED BY <2>1, <2>2
<1>4. policy.max * policy.emission \in Nat
  BY <1>1, PolicyFields DEF PolicyTyped
<1>5. Ending /\ Bucketed /\ BucketAgrees /\ Waited
  BY <1>4 DEF PolicyInit, Ending, Bucketed, BucketAgrees, Waited
<1> QED BY <1>1, <1>3, <1>5 DEF PolicyIInv

\* The invariant of the policies.
LEMMA PolicyInvariance == PolicySpec => []PolicyIInv
<1>1. PolicyIInv /\ [PolicyNext]_policyVars => PolicyIInv'
  <2> SUFFICES ASSUME PolicyIInv, [PolicyNext]_policyVars PROVE PolicyIInv'
    OBVIOUS
  <2>1. CASE PolicyNext
    BY <2>1, PolicyTypedStep, BudgetStep, EndingStep, BucketStep, WaitedStep DEF PolicyIInv
  <2>2. CASE UNCHANGED policyVars
    <3> USE <2>2 DEF policyVars, PolicyIInv
    <3>1. PolicyTyped' /\ Budgeted' /\ RetryBudget' /\ Ending'
      BY DEF PolicyTyped, Budgeted, Allowance, Extra, RetryBudget, Ending
    <3>2. Bucketed' /\ BucketAgrees'
      BY DEF Bucketed, BucketAgrees, Limited
    <3>3. /\ Submitted' = Submitted /\ Limited' = Limited
          /\ \A t : LimitKey(t)' = LimitKey(t) /\ FreeAt(LimitKey(t))' = FreeAt(LimitKey(t))
      BY DEF Submitted, Limited, LimitKey, FreeAt, Burst
    <3>4. Waited'
      BY <3>3 DEF Waited
    <3> QED BY <3>1, <3>2, <3>4
  <2> QED BY <2>1, <2>2
<1> QED BY <1>1, PolicyStarts, PTL DEF PolicySpec

\* However rate limiting, failed deferrals, failed settlements with the reclaims
\* after them, retries and errors that forbid a retry interleave, a task is
\* executed at most MaxRetry times and MaxRetry - 1 times more for each call that
\* failed, and is dead-lettered for an ordinary error only with its attempts used
\* up (RetryBudget).
THEOREM AttemptsBudgeted == PolicySpec => []RetryBudget
<1>1. PolicyIInv => RetryBudget
  BY DEF PolicyIInv
<1> QED BY <1>1, PolicyInvariance, PTL

\* A handler started by any retry or deferral, before or after the task's
\* deadline, has a context that is over when the deadline is (ContextEnds).
THEOREM ContextsEnd == PolicySpec => []ContextEnds
<1>1. PolicyIInv => ContextEnds
  <2> SUFFICES ASSUME PolicyIInv, NEW t \in Tasks, place[t] = "running", policy.deadline > 0, now >= policy.deadline
               PROVE  expires[t] # NoLimit /\ expires[t] <= now
    BY DEF ContextEnds
  <2>1. expires[t] \in Nat /\ (expires[t] <= policy.deadline \/ expires[t] <= now)
    BY DEF PolicyIInv, Ending
  <2> QED BY <2>1, PolicyFields DEF PolicyIInv, PolicyTyped
<1> QED BY <1>1, PolicyInvariance, PTL

\* For every limit, emission interval, grain of the printed TAT and lifetime of
\* the key in whole seconds, the limiter grants what a token bucket of that
\* capacity would, up to half a grain per token (BucketAgrees).
THEOREM LimiterAgrees == PolicySpec => []BucketAgrees
<1>1. PolicyIInv => BucketAgrees
  BY DEF PolicyIInv
<1> QED BY <1>1, PolicyInvariance, PTL

\* For every resolution of the delayed scores, a task that competes with nobody
\* for its key is refused at most twice (DeferralsBounded).
THEOREM FewDeferrals == PolicySpec => []DeferralsBounded
<1>1. PolicyIInv => DeferralsBounded
  BY DEF PolicyIInv, PolicyTyped, Waited, DeferralsBounded
<1> QED BY <1>1, PolicyInvariance, PTL

-----------------------------------------------------------------------------
(* TaskPolicies: the spacing of retries. *)

\* What the code computes within a Duration is the product.
LEMMA WrapInRange ==
  ASSUME NEW x \in Nat, x < 2 ^ (Width - 1)
  PROVE  Wrap(x) = x
<1>1. Width \in Nat /\ Width - 1 \in Nat /\ (Width - 1) + 1 = Width
  BY PolicyAssumption
<1> DEFINE half == 2 ^ (Width - 1)
           all == 2 ^ Width
<1>2. half \in Nat /\ all \in Nat /\ half >= 1 /\ all >= 1 /\ 2 * half <= all
  BY <1>1, Subsets, PowersDouble
<1>3. x < half /\ Wrap(x) = ((x + half) % all) - half
  BY DEF Wrap
<1> HIDE DEF half, all
<1>4. x + half \in Nat /\ x + half < all /\ all > 0
  BY <1>2, <1>3
<1>5. (x + half) % all = x + half
  BY <1>2, <1>4
<1> QED BY <1>2, <1>3, <1>5

\* Whatever the code computes out of range is a number.
LEMMA WrapTyped ==
  ASSUME NEW x \in Int
  PROVE  Wrap(x) \in Int
<1>1. Width \in Nat /\ Width - 1 \in Nat
  BY PolicyAssumption
<1> DEFINE half == 2 ^ (Width - 1)
           all == 2 ^ Width
<1>2. half \in Nat /\ all \in Nat /\ all >= 1
  BY <1>1, Subsets
<1>3. Wrap(x) = ((x + half) % all) - half
  BY DEF Wrap
<1> HIDE DEF half, all
<1>4. (x + half) % all \in Int
  BY <1>2
<1> QED BY <1>2, <1>3, <1>4

\* A product in range has a factor in range.
LEMMA Factor ==
  ASSUME NEW a \in Nat, NEW p \in Nat, a # 0
  PROVE  p <= a * p
OBVIOUS

\* NextBackoff: never more than MaxDelay and, in range and without jitter, the
\* smaller of the two.
LEMMA BackoffSpaced ==
  ASSUME policy \in Policies, NEW r \in Nat, NEW b \in NextBackoff(r)
  PROVE  /\ b \in Int /\ b <= policy.maxDelay
         /\ policy.base * 2 ^ r < 2 ^ (Width - 1) /\ ~policy.jitter
              => b = Smaller(policy.base * 2 ^ r, policy.maxDelay)
<1>1. /\ policy.base \in Nat /\ policy.maxDelay \in Nat /\ policy.jitter \in BOOLEAN
      /\ Width \in Nat /\ Width - 1 \in Nat
  BY PolicyAssumption
<1>2. PICK f \in PowerOfTwo(r) :
        LET backoff == Smaller(Wrap(policy.base * f), policy.maxDelay)
        IN  b \in IF policy.jitter /\ backoff > 0 THEN 0 .. backoff - 1 ELSE {backoff}
  BY DEF NextBackoff
<1> DEFINE w == Wrap(policy.base * f)
           backoff == Smaller(w, policy.maxDelay)
<1>3. b \in IF policy.jitter /\ backoff > 0 THEN 0 .. backoff - 1 ELSE {backoff}
  BY <1>2
<1>4. 2 ^ (Width - 1) \in Nat /\ 2 ^ r \in Nat /\ 2 ^ r >= 1 /\ 2 ^ (Width - 1) >= 1
  BY <1>1, Subsets
<1>5. f \in Int
  BY <1>4, <1>1 DEF PowerOfTwo
<1>6. policy.base * f \in Int
  BY <1>1, <1>5
<1>7. w \in Int
  BY <1>6, WrapTyped
<1> HIDE DEF w
<1>8. backoff \in Int /\ backoff <= policy.maxDelay
  BY <1>1, <1>7 DEF Smaller
<1> HIDE DEF backoff
<1>9. b \in Int /\ b <= policy.maxDelay
  <2>1. CASE policy.jitter /\ backoff > 0
    BY <1>1, <1>3, <1>8, <2>1
  <2>2. CASE ~(policy.jitter /\ backoff > 0)
    BY <1>3, <1>8, <2>2
  <2> QED BY <2>1, <2>2
<1>10. ASSUME policy.base * 2 ^ r < 2 ^ (Width - 1), ~policy.jitter
       PROVE  b = Smaller(policy.base * 2 ^ r, policy.maxDelay)
  <2>1. b = backoff
    BY <1>3, <1>10
  <2>2. policy.base * f = policy.base * 2 ^ r
    <3>1. CASE policy.base = 0
      BY <1>4, <1>5, <3>1
    <3>2. CASE policy.base # 0
      <4>1. 2 ^ r <= policy.base * 2 ^ r
        BY <1>1, <1>4, <3>2, Factor
      <4>2. policy.base * 2 ^ r \in Nat
        BY <1>1, <1>4
      <4>3. 2 ^ r < 2 ^ (Width - 1)
        BY <1>4, <1>10, <4>1, <4>2
      <4>4. r < Width - 1
        BY <1>1, <1>4, <4>3, PowersGrow
      <4>5. f = 2 ^ r
        BY <4>4 DEF PowerOfTwo
      <4> QED BY <4>5
    <3> QED BY <3>1, <3>2
  <2>3. policy.base * 2 ^ r \in Nat
    BY <1>1, <1>4
  <2>4. w = policy.base * 2 ^ r
    BY <1>10, <2>2, <2>3, WrapInRange DEF w
  <2> QED BY <2>1, <2>4 DEF backoff
<1> QED BY <1>9, <1>10

\* Only a task that waits for its retry has failed.
Marked ==
  /\ failedAt \in [Tasks -> Nat \cup {-1}]
  /\ \A t \in Tasks : place[t] # "delayed" => failedAt[t] = -1

\* What RetrySpacing says of one task.
Spaced(t) ==
  place[t] = "delayed" /\ failedAt[t] >= 0 =>
    LET ideal == policy.base * 2 ^ retry[t] IN
    /\ score[t] <= (failedAt[t] + policy.maxDelay) \div Milli
    /\ ideal < 2 ^ (Width - 1) /\ ~policy.jitter
         => (score[t] + 1) * Milli > failedAt[t] + Smaller(ideal, policy.maxDelay)

\* A failed task is spaced from its failure when it is scheduled, and nobody
\* moves it until it is promoted; a deferred one has not failed.
LEMMA SpacingStep ==
  ASSUME PolicyTyped, Marked, RetrySpacing, PolicyNext
  PROVE  Marked' /\ RetrySpacing'
<1>1. /\ policy' = policy /\ Submitted \subseteq Tasks /\ policy \in Policies
      /\ place \in [Tasks -> Places]
      /\ retry \in [Tasks -> Nat] /\ now \in Nat /\ Milli \in Nat \ {0}
      /\ failedAt \in [Tasks -> Nat \cup {-1}]
      /\ score = [t \in Tasks |-> score[t]]
  BY PolicyTypedStep, PolicyFields DEF PolicyTyped, Marked
<1>2. \A u \in Tasks : Spaced(u) /\ (place[u] # "delayed" => failedAt[u] = -1)
  BY DEF RetrySpacing, Spaced, Marked
<1>3. SUFFICES /\ failedAt' \in [Tasks -> Nat \cup {-1}]
               /\ \A u \in Tasks : Spaced(u)' /\ (place'[u] # "delayed" => failedAt'[u] = -1)
  BY DEF RetrySpacing, Spaced, Marked
<1>4. ASSUME NEW u \in Tasks, UNCHANGED <<place[u], retry[u], score[u], failedAt[u]>>
      PROVE  Spaced(u)' /\ (place'[u] # "delayed" => failedAt'[u] = -1)
  BY <1>1, <1>2, <1>4 DEF Spaced
<1>5. ASSUME NEW u \in Tasks, failedAt'[u] = -1
      PROVE  Spaced(u)' /\ (place'[u] # "delayed" => failedAt'[u] = -1)
  BY <1>5 DEF Spaced
<1>6. CASE Tick
  BY <1>1, <1>4, <1>6 DEF Tick
<1>7. ASSUME NEW t \in Submitted, NEW s, place' = [place EXCEPT ![t] = s],
             retry' = retry, failedAt' = failedAt \/ failedAt' = [failedAt EXCEPT ![t] = -1],
             score' = score \/ \E x : score' = [score EXCEPT ![t] = x],
             place[t] # "delayed" \/ failedAt'[t] = -1
      PROVE  /\ failedAt' \in [Tasks -> Nat \cup {-1}]
             /\ \A u \in Tasks : Spaced(u)' /\ (place'[u] # "delayed" => failedAt'[u] = -1)
  <2>1. failedAt' \in [Tasks -> Nat \cup {-1}]
    BY <1>1, <1>7
  <2>2. failedAt'[t] = -1
    BY <1>1, <1>2, <1>7
  <2>3. \A u \in Tasks \ {t} : UNCHANGED <<place[u], retry[u], score[u], failedAt[u]>>
    BY <1>1, <1>7
  <2> QED BY <1>4, <1>5, <2>1, <2>2, <2>3
<1>8. ASSUME NEW t \in Submitted, NEW err, NEW f, Charge(t, err, f), place[t] # "delayed"
      PROVE  /\ failedAt' \in [Tasks -> Nat \cup {-1}]
             /\ \A u \in Tasks : Spaced(u)' /\ (place'[u] # "delayed" => failedAt'[u] = -1)
  <2>0. t \in Tasks
    BY <1>1
  <2>1. CASE /\ place' = [place EXCEPT ![t] = "dead"] /\ retry' = [retry EXCEPT ![t] = @ + 1]
             /\ UNCHANGED <<score, failedAt>>
    <3>1. failedAt'[t] = -1
      BY <1>1, <1>2, <1>8, <2>0, <2>1
    <3>2. \A u \in Tasks \ {t} : UNCHANGED <<place[u], retry[u], score[u], failedAt[u]>>
      BY <1>1, <2>0, <2>1
    <3> QED BY <1>1, <1>4, <1>5, <2>1, <3>1, <3>2
  <2>2. CASE /\ place' = [place EXCEPT ![t] = "delayed"] /\ retry' = [retry EXCEPT ![t] = @ + 1]
             /\ failedAt' = [failedAt EXCEPT ![t] = now]
             /\ \E b \in NextBackoff(retry[t] + 1) : score' = [score EXCEPT ![t] = (now + b) \div Milli]
    <3>1. PICK b \in NextBackoff(retry[t] + 1) : score' = [score EXCEPT ![t] = (now + b) \div Milli]
      BY <2>2
    <3>2. retry[t] + 1 \in Nat
      BY <1>1, <2>0
    <3> DEFINE ideal == policy.base * 2 ^ (retry[t] + 1)
               moment == (now + b) \div Milli
    <3>3. /\ b \in Int /\ b <= policy.maxDelay /\ policy.maxDelay \in Nat
          /\ ideal < 2 ^ (Width - 1) /\ ~policy.jitter => b = Smaller(ideal, policy.maxDelay)
      BY <1>1, <3>1, <3>2, BackoffSpaced, PolicyAssumption
    <3>4. place'[t] = "delayed" /\ failedAt'[t] = now /\ retry'[t] = retry[t] + 1 /\ score'[t] = moment
      BY <1>1, <2>0, <2>2, <3>1
    <3>5. moment <= (now + policy.maxDelay) \div Milli
      <4>1. now + b \in Int /\ now + policy.maxDelay \in Int /\ now + b <= now + policy.maxDelay
        BY <1>1, <3>3
      <4> QED BY <1>1, <4>1, Truncated
    <3>6. (moment + 1) * Milli > now + b
      <4>1. now + b \in Int
        BY <1>1, <3>3
      <4>2. moment \in Int /\ now + b < (moment + 1) * Milli
        BY <1>1, <4>1, Quotient
      <4>3. (moment + 1) * Milli \in Int
        BY <1>1, <4>2
      <4> HIDE DEF moment
      <4> QED BY <4>1, <4>2, <4>3
    <3> HIDE DEF moment
    <3>7. ideal < 2 ^ (Width - 1) /\ ~policy.jitter => (moment + 1) * Milli > now + Smaller(ideal, policy.maxDelay)
      BY <3>3, <3>6
    <3> HIDE DEF ideal
    <3>8. /\ score'[t] <= (failedAt'[t] + policy.maxDelay) \div Milli
          /\ ideal < 2 ^ (Width - 1) /\ ~policy.jitter
               => (score'[t] + 1) * Milli > failedAt'[t] + Smaller(ideal, policy.maxDelay)
      BY <3>4, <3>5, <3>7
    <3>9. Spaced(t)'
      BY <1>1, <3>4, <3>8 DEF Spaced, ideal
    <3>10. \A u \in Tasks \ {t} : UNCHANGED <<place[u], retry[u], score[u], failedAt[u]>>
      BY <1>1, <2>0, <2>2, <3>1
    <3>11. failedAt' \in [Tasks -> Nat \cup {-1}]
      BY <1>1, <2>2
    <3> QED BY <1>4, <3>4, <3>9, <3>10, <3>11
  <2>3. CASE StaysPending(t)
    BY <1>7, <1>8, <2>3 DEF StaysPending
  <2> QED BY <1>8, <2>1, <2>2, <2>3 DEF Charge
<1>9. ASSUME NEW t \in Submitted,
             \/ Admit(t) \/ AdmitUnlimited(t) \/ Defer(t) \/ RouteExceeded(t) \/ Succeed(t)
             \/ ReclaimPending(t) \/ PromoteDue(t)
      PROVE  /\ failedAt' \in [Tasks -> Nat \cup {-1}]
             /\ \A u \in Tasks : Spaced(u)' /\ (place'[u] # "delayed" => failedAt'[u] = -1)
  <2>1. CASE PromoteDue(t)
    <3>1. failedAt'[t] = -1
      BY <1>1, <2>1 DEF PromoteDue
    <3> QED BY <1>7, <2>1, <3>1 DEF PromoteDue
  <2>2. CASE Admit(t) \/ AdmitUnlimited(t) \/ Defer(t) \/ RouteExceeded(t) \/ Succeed(t)
    BY <1>7, <2>2 DEF Admit, AdmitUnlimited, Deliverable, Execute, Defer, RouteExceeded, Succeed, StaysPending
  <2>3. CASE ReclaimPending(t)
    <3>1. failedAt'[t] = -1
      BY <1>1, <1>2, <2>3 DEF ReclaimPending
    <3>2. \A u \in Tasks \ {t} : UNCHANGED <<place[u], retry[u], score[u], failedAt[u]>>
      BY <1>1, <2>3 DEF ReclaimPending
    <3> QED BY <1>1, <1>4, <1>5, <2>3, <3>1, <3>2 DEF ReclaimPending
  <2> QED BY <1>9, <2>1, <2>2, <2>3
<1>10. ASSUME NEW t \in Submitted, DeferFails(t) \/ \E err \in Errors : FailWith(t, err)
       PROVE  /\ failedAt' \in [Tasks -> Nat \cup {-1}]
              /\ \A u \in Tasks : Spaced(u)' /\ (place'[u] # "delayed" => failedAt'[u] = -1)
  BY <1>8, <1>10 DEF DeferFails, Deliverable, FailWith
<1> QED BY <1>6, <1>9, <1>10 DEF PolicyNext

\* For every base, cap, number of retries and width of a Duration, on either of
\* the two conversions out of range: a retry is due within MaxDelay of its
\* failure and, in range and without jitter, no earlier than the backoff less
\* the truncated millisecond (RetrySpacing).
THEOREM RetriesSpaced == PolicySpec => []RetrySpacing
<1>1. PolicyInit => Marked /\ RetrySpacing
  BY DEF PolicyInit, Marked, RetrySpacing
<1>2. PolicyIInv /\ Marked /\ RetrySpacing /\ [PolicyNext]_policyVars => Marked' /\ RetrySpacing'
  <2>1. ASSUME PolicyIInv, Marked, RetrySpacing, PolicyNext PROVE Marked' /\ RetrySpacing'
    BY <2>1, SpacingStep DEF PolicyIInv
  <2>2. ASSUME Marked, RetrySpacing, UNCHANGED policyVars PROVE Marked' /\ RetrySpacing'
    BY <2>2 DEF policyVars, Marked, RetrySpacing
  <2> QED BY <2>1, <2>2
<1> QED BY <1>1, <1>2, PolicyInvariance, PTL DEF PolicySpec

-----------------------------------------------------------------------------
(* PriorityWorker: the strict strategy. *)

\* The part of the type invariant the proof needs.
PassShape ==
  /\ strategy \in {"strict", "weighted"}
  /\ backlog \in [PriorityQueues -> Nat]
  /\ pc \in [Consumers -> {"pass", "poll", "read", "fetched", "sleep", "exited"}]
  /\ order \in [Consumers -> Seq(PriorityQueues)]
  /\ held \in [Consumers -> PriorityQueues \cup {NoQueue}]
  /\ ready \in [Consumers -> SUBSET PriorityQueues]

\* What is left of a pass comes by weight, and no queue that has had work since
\* the pass began is behind it.
Ranked(c) ==
  /\ \A i, j \in 1 .. Len(order[c]) : i < j => Weight[order[c][i]] >= Weight[order[c][j]]
  /\ \A q \in ready[c] :
       /\ q \notin paused /\ backlog[q] > 0
       /\ \E i \in 1 .. Len(order[c]) : order[c][i] = q

Ranking == strategy = "strict" => \A c \in Consumers : pc[c] \in {"poll", "read"} => Ranked(c)

PassInv == PassShape /\ Ranking /\ StrictDominance

\* Nobody polls at first.
LEMMA PassInitially == PriorityInit => PassInv
<1> SUFFICES ASSUME PriorityInit PROVE PassInv
  OBVIOUS
<1>1. <<>> \in Seq(PriorityQueues)
  OBVIOUS
<1>2. PassShape
  BY <1>1 DEF PriorityInit, PassShape
<1>3. Ranking /\ StrictDominance
  BY DEF PriorityInit, Ranking, StrictDominance
<1> QED
  BY <1>2, <1>3 DEF PassInv

\* An order names every queue: it is as long as they are many and repeats none.
LEMMA OrderComplete ==
  ASSUME NEW o \in Orders
  PROVE  /\ o \in Seq(PriorityQueues) /\ DOMAIN o = 1 .. Len(o)
         /\ \A q \in PriorityQueues : \E i \in 1 .. Len(o) : o[i] = q
<1> DEFINE n == Cardinality(PriorityQueues)
<1>1. IsFiniteSet(PriorityQueues)
  BY PriorityAssumption
<1>2. n \in Nat
  BY <1>1, FS_CardinalityType
<1>3. o \in [1 .. n -> PriorityQueues] /\ \A i, j \in DOMAIN o : o[i] = o[j] => i = j
  BY DEF Orders
<1>4. IsFiniteSet(1 .. n) /\ Cardinality(1 .. n) = n
  <2> HIDE DEF n
  <2>1. /\ IsFiniteSet(1 .. n)
        /\ Cardinality(1 .. n) = IF 1 > n THEN 0 ELSE n - 1 + 1
    BY <1>2, FS_Interval
  <2> QED
    BY <1>2, <2>1
<1> HIDE DEF n
<1>5. o \in Injection(1 .. n, PriorityQueues)
  BY <1>3 DEF Injection, IsInjective
<1>6. Cardinality(1 .. n) = Cardinality(PriorityQueues)
  BY <1>4 DEF n
<1>7. o \in Surjection(1 .. n, PriorityQueues)
  BY <1>1, <1>5, <1>6, FS_Injection
<1>8. o \in Seq(PriorityQueues) /\ Len(o) = n /\ DOMAIN o = 1 .. n
  BY <1>2, <1>3
<1> QED
  BY <1>7, <1>8 DEF Surjection

\* A step that moves no consumer and leaves orders and backlogs alone or adds to
\* them; it may withdraw queues from what was ready.
LEMMA PassAside ==
  ASSUME PassInv, UNCHANGED <<strategy, pc, order, held>>,
         backlog' \in [PriorityQueues -> Nat], \A q \in PriorityQueues : backlog'[q] >= backlog[q],
         ready' \in [Consumers -> SUBSET PriorityQueues],
         \A c \in Consumers : ready'[c] \subseteq ready[c] /\ ready'[c] \cap paused' \subseteq paused
  PROVE  PassInv'
<1>1. PassShape'
  BY DEF PassInv, PassShape
<1>2. Ranking'
  <2> SUFFICES ASSUME NEW c \in Consumers, strategy = "strict", pc[c] \in {"poll", "read"} PROVE Ranked(c)'
    BY DEF Ranking
  <2>1. Ranked(c) /\ order' = order
    BY DEF PassInv, Ranking
  <2>2. ASSUME NEW q \in ready'[c]
        PROVE  /\ q \notin paused' /\ backlog'[q] > 0
               /\ \E i \in 1 .. Len(order[c]) : order[c][i] = q
    <3>1. q \in ready[c] /\ q \in PriorityQueues
      BY <2>2
    <3>2. q \notin paused /\ backlog[q] > 0 /\ \E i \in 1 .. Len(order[c]) : order[c][i] = q
      BY <2>1, <3>1 DEF Ranked
    <3>3. backlog[q] \in Nat /\ backlog'[q] \in Nat /\ backlog'[q] >= backlog[q]
      BY <3>1 DEF PassInv, PassShape
    <3> QED
      BY <2>2, <3>2, <3>3
  <2> QED
    BY <2>1, <2>2 DEF Ranked
<1>3. StrictDominance'
  BY DEF PassInv, StrictDominance
<1> QED
  BY <1>1, <1>2, <1>3 DEF PassInv

\* A consumer that stops polling, or did not poll, and has nothing in hand.
LEMMA PassLeft ==
  ASSUME PassInv, NEW c \in Consumers, NEW stage \in {"pass", "sleep", "exited"},
         UNCHANGED <<strategy, backlog, paused>>,
         pc' = [pc EXCEPT ![c] = stage],
         \A d \in Consumers \ {c} : order'[d] = order[d] /\ held'[d] = held[d] /\ ready'[d] = ready[d],
         PassShape'
  PROVE  PassInv'
<1>0. PassShape
  BY DEF PassInv
<1>1. pc'[c] = stage /\ \A d \in Consumers \ {c} : pc'[d] = pc[d]
  BY <1>0 DEF PassShape
<1>2. Ranking'
  BY <1>1 DEF PassInv, Ranking, Ranked
<1>3. StrictDominance'
  BY <1>1 DEF PassInv, StrictDominance
<1> QED
  BY <1>2, <1>3 DEF PassInv

\* sortQueues: what is ready is in the order, and the order is by weight.
LEMMA BeginStep ==
  ASSUME PassInv, NEW c \in Consumers, NEW o \in Orders, BeginPass(c, o)
  PROVE  PassInv'
<1>0. /\ PassShape /\ UNCHANGED <<strategy, backlog, paused, held>>
      /\ order' = [order EXCEPT ![c] = o] /\ pc' = [pc EXCEPT ![c] = "poll"]
      /\ ready' = [ready EXCEPT ![c] =
                    {q \in PriorityQueues \ paused : strategy = "strict" /\ backlog[q] > 0}]
  BY DEF BeginPass, PassInv
<1>1. /\ o \in Seq(PriorityQueues) /\ DOMAIN o = 1 .. Len(o)
      /\ \A q \in PriorityQueues : \E i \in 1 .. Len(o) : o[i] = q
  BY OrderComplete
<1>2. PassShape'
  BY <1>0, <1>1 DEF PassShape
<1>3. /\ order'[c] = o /\ pc'[c] = "poll"
      /\ ready'[c] = {q \in PriorityQueues \ paused : strategy = "strict" /\ backlog[q] > 0}
      /\ \A d \in Consumers \ {c} : order'[d] = order[d] /\ ready'[d] = ready[d] /\ pc'[d] = pc[d]
  BY <1>0 DEF PassShape
<1>4. Ranking'
  <2> SUFFICES ASSUME NEW d \in Consumers, strategy = "strict", pc'[d] \in {"poll", "read"} PROVE Ranked(d)'
    BY <1>0 DEF Ranking
  <2>1. CASE d = c
    <3>1. o \in SortQueues
      BY DEF BeginPass
    <3>2. \A i, j \in 1 .. Len(o) : i < j => Weight[o[i]] >= Weight[o[j]]
      BY <1>1, <3>1 DEF SortQueues
    <3>3. \A q \in ready'[c] :
            q \notin paused /\ backlog[q] > 0 /\ \E i \in 1 .. Len(o) : o[i] = q
      BY <1>1, <1>3
    <3> QED
      BY <1>0, <1>3, <2>1, <3>2, <3>3 DEF Ranked
  <2>2. CASE d # c
    <3>1. Ranked(d)
      BY <1>3, <2>2 DEF PassInv, Ranking
    <3> QED
      BY <1>0, <1>3, <2>2, <3>1 DEF Ranked
  <2> QED
    BY <2>1, <2>2
<1>5. StrictDominance'
  BY <1>0, <1>3 DEF PassInv, StrictDominance
<1> QED
  BY <1>2, <1>4, <1>5 DEF PassInv

\* A queue that is passed over was not ready, or is no longer.
LEMMA PassedOver ==
  ASSUME PassInv, NEW c \in Consumers, Skip(c) \/ ReadFails(c)
  PROVE  PassInv'
<1> DEFINE h == Head(order[c])
<1>0. /\ PassShape /\ UNCHANGED <<strategy, backlog, paused, held>>
      /\ pc[c] \in {"poll", "read"} /\ pc' = [pc EXCEPT ![c] = "poll"]
      /\ order[c] # <<>> /\ order[c] \in Seq(PriorityQueues)
      /\ order' = [order EXCEPT ![c] = Tail(order[c])]
  BY DEF Skip, ReadFails, PassInv, PassShape
<1>1. /\ \A d \in Consumers \ {c} : ready'[d] = ready[d] /\ order'[d] = order[d]
      /\ ready'[c] \subseteq ready[c] /\ order'[c] = Tail(order[c])
      /\ pc'[c] = "poll" /\ \A d \in Consumers \ {c} : pc'[d] = pc[d]
      /\ ready' \in [Consumers -> SUBSET PriorityQueues]
  BY <1>0 DEF Skip, ReadFails, PassShape
<1>2. /\ Tail(order[c]) \in Seq(PriorityQueues) /\ Len(order[c]) \in Nat /\ Len(order[c]) > 0
      /\ Len(Tail(order[c])) = Len(order[c]) - 1
      /\ \A i \in 1 .. Len(order[c]) - 1 : Tail(order[c])[i] = order[c][i + 1]
      /\ h = order[c][1]
  BY <1>0
<1>3. PassShape'
  BY <1>0, <1>1, <1>2 DEF PassShape
<1> HIDE DEF h
<1>4. Ranking'
  <2> SUFFICES ASSUME NEW d \in Consumers, strategy = "strict", pc'[d] \in {"poll", "read"} PROVE Ranked(d)'
    BY <1>0 DEF Ranking
  <2>0. Ranked(d)
    BY <1>0, <1>1 DEF PassInv, Ranking
  <2>1. CASE d # c
    BY <1>0, <1>1, <2>0, <2>1 DEF Ranked
  <2>2. CASE d = c
    <3>1. h \notin ready'[c]
      <4>1. CASE Skip(c)
        <5>1. (h \in paused \/ backlog[h] = 0) /\ ready' = ready
          BY <4>1 DEF Skip, h
        <5> QED
          BY <2>0, <2>2, <5>1 DEF Ranked
      <4>2. CASE ReadFails(c)
        BY <1>0, <4>2 DEF ReadFails, PassShape, h
      <4> QED
        BY <4>1, <4>2
    <3>2. \A i, j \in 1 .. Len(order[c]) - 1 :
            i < j => Weight[order[c][i + 1]] >= Weight[order[c][j + 1]]
      BY <1>2, <2>0, <2>2 DEF Ranked
    <3>3. \A q \in ready'[c] :
            /\ q \notin paused /\ backlog[q] > 0
            /\ \E i \in 1 .. Len(order[c]) - 1 : order[c][i + 1] = q
      <4> SUFFICES ASSUME NEW q \in ready'[c]
                   PROVE  /\ q \notin paused /\ backlog[q] > 0
                          /\ \E i \in 1 .. Len(order[c]) - 1 : order[c][i + 1] = q
        OBVIOUS
      <4>1. PICK k \in 1 .. Len(order[c]) : order[c][k] = q
        BY <1>1, <2>0, <2>2 DEF Ranked
      <4>2. k # 1
        BY <1>2, <3>1, <4>1
      <4>3. k - 1 \in 1 .. Len(order[c]) - 1 /\ order[c][(k - 1) + 1] = q
        BY <1>2, <4>1, <4>2
      <4> QED
        BY <1>1, <2>0, <2>2, <4>3 DEF Ranked
    <3>4. /\ \A i, j \in 1 .. Len(order'[c]) : i < j => Weight[order'[c][i]] >= Weight[order'[c][j]]
          /\ \A q \in ready'[c] : \E i \in 1 .. Len(order'[c]) : order'[c][i] = q
      <4>1. Len(order'[c]) = Len(order[c]) - 1 /\ \A i \in 1 .. Len(order[c]) - 1 : order'[c][i] = order[c][i + 1]
        BY <1>1, <1>2
      <4>2. \A i, j \in 1 .. Len(order'[c]) : i < j => Weight[order'[c][i]] >= Weight[order'[c][j]]
        BY <3>2, <4>1
      <4>3. \A q \in ready'[c] : \E i \in 1 .. Len(order'[c]) : order'[c][i] = q
        BY <3>3, <4>1
      <4> QED
        BY <4>2, <4>3
    <3> QED
      BY <1>0, <2>2, <3>3, <3>4 DEF Ranked
  <2> QED
    BY <2>1, <2>2
<1>5. StrictDominance'
  BY <1>0, <1>1 DEF PassInv, StrictDominance
<1> QED
  BY <1>3, <1>4, <1>5 DEF PassInv

\* What a consumer fetches is at least as heavy as all that is still ready.
LEMMA FetchStep ==
  ASSUME PassInv, NEW c \in Consumers, Fetch(c)
  PROVE  PassInv'
<1>a. /\ PassShape /\ UNCHANGED <<strategy, paused>> /\ pc[c] = "read"
      /\ order[c] # <<>> /\ order[c] \in Seq(PriorityQueues)
      /\ order' = [order EXCEPT ![c] = <<>>] /\ pc' = [pc EXCEPT ![c] = "fetched"]
  BY DEF Fetch, PassInv, PassShape
<1>b. PICK h \in PriorityQueues : h = Head(order[c])
  BY <1>a
<1>c. /\ backlog[h] > 0 /\ backlog' = [backlog EXCEPT ![h] = @ - 1]
      /\ held' = [held EXCEPT ![c] = h]
      /\ IF backlog[h] = 1
         THEN ready' = [d \in Consumers |-> IF d = c THEN ready[c] ELSE ready[d] \ {h}]
         ELSE ready' = ready
  BY <1>b DEF Fetch
<1>1. /\ ready'[c] = ready[c] /\ ready' \in [Consumers -> SUBSET PriorityQueues]
      /\ \A d \in Consumers \ {c} : ready'[d] \subseteq ready[d] /\ (backlog[h] = 1 => h \notin ready'[d])
  <2>1. CASE backlog[h] = 1
    BY <1>a, <1>c, <2>1 DEF PassShape
  <2>2. CASE backlog[h] # 1
    BY <1>a, <1>c, <2>2 DEF PassShape
  <2> QED
    BY <2>1, <2>2
<1>2. /\ backlog[h] \in Nat /\ backlog' \in [PriorityQueues -> Nat] /\ backlog'[h] = backlog[h] - 1
      /\ \A q \in PriorityQueues \ {h} : backlog'[q] = backlog[q]
  BY <1>a, <1>c DEF PassShape
<1>3. <<>> \in Seq(PriorityQueues)
  OBVIOUS
<1>4. PassShape'
  BY <1>a, <1>c, <1>1, <1>2, <1>3 DEF PassShape
<1>5. /\ pc'[c] = "fetched" /\ held'[c] = h
      /\ \A d \in Consumers \ {c} : pc'[d] = pc[d] /\ held'[d] = held[d] /\ order'[d] = order[d]
  BY <1>a, <1>c DEF PassShape
<1>6. Ranking'
  <2> SUFFICES ASSUME NEW d \in Consumers, strategy = "strict", pc'[d] \in {"poll", "read"} PROVE Ranked(d)'
    BY <1>a DEF Ranking
  <2>1. d # c /\ Ranked(d)
    BY <1>5 DEF PassInv, Ranking
  <2>2. ASSUME NEW q \in ready'[d]
        PROVE  /\ q \notin paused' /\ backlog'[q] > 0
               /\ \E i \in 1 .. Len(order[d]) : order[d][i] = q
    <3>1. q \in ready[d] /\ q \in PriorityQueues /\ (backlog[h] = 1 => q # h)
      BY <1>1, <1>a, <2>1, <2>2 DEF PassShape
    <3>2. q \notin paused /\ backlog[q] > 0 /\ \E i \in 1 .. Len(order[d]) : order[d][i] = q
      BY <2>1, <3>1 DEF Ranked
    <3>3. backlog'[q] > 0
      BY <1>2, <3>1, <3>2
    <3> QED
      BY <1>a, <3>2, <3>3
  <2> QED
    BY <1>5, <2>1, <2>2 DEF Ranked
<1>7. StrictDominance'
  <2> SUFFICES ASSUME NEW d \in Consumers, strategy = "strict", pc'[d] = "fetched", NEW q \in ready'[d]
               PROVE  Weight[q] <= Weight[held'[d]]
    BY <1>a DEF StrictDominance
  <2>1. CASE d # c
    BY <1>1, <1>5, <2>1 DEF PassInv, StrictDominance
  <2>2. CASE d = c
    <3>1. Ranked(c)
      BY <1>a DEF PassInv, Ranking
    <3>2. PICK k \in 1 .. Len(order[c]) : order[c][k] = q
      BY <1>1, <2>2, <3>1 DEF Ranked
    <3>3. h = order[c][1] /\ Len(order[c]) \in Nat /\ 1 \in 1 .. Len(order[c])
      BY <1>a, <1>b
    <3>4. Weight[h] \in Nat
      BY PriorityAssumption
    <3>5. k = 1 \/ 1 < k
      BY <3>2, <3>3
    <3>6. CASE k = 1
      BY <1>5, <2>2, <3>2, <3>3, <3>4, <3>6
    <3>7. CASE 1 < k
      <4>1. Weight[order[c][1]] >= Weight[order[c][k]]
        BY <3>1, <3>2, <3>3, <3>7 DEF Ranked
      <4>2. Weight[q] \in Nat
        BY <1>1, <1>a, <2>2, PriorityAssumption DEF PassShape
      <4> QED
        BY <1>5, <2>2, <3>2, <3>3, <3>4, <4>1, <4>2
    <3> QED
      BY <3>5, <3>6, <3>7
  <2> QED
    BY <2>1, <2>2
<1> QED
  BY <1>4, <1>6, <1>7 DEF PassInv

\* The invariant is inductive.
LEMMA PassInductive == PassInv /\ [PriorityNext]_priorityVars => PassInv'
<1> SUFFICES ASSUME PassInv, [PriorityNext]_priorityVars PROVE PassInv'
  OBVIOUS
<1>0. PassShape
  BY DEF PassInv
<1>1. CASE UNCHANGED priorityVars
  BY <1>0, <1>1, PassAside DEF priorityVars, PassShape
<1>2. ASSUME NEW q \in PriorityQueues, Produce(q) \/ Pause(q) \/ Resume(q) \/ Finish(q) PROVE PassInv'
  <2>1. CASE Produce(q)
    <3>1. backlog' \in [PriorityQueues -> Nat] /\ \A r \in PriorityQueues : backlog'[r] >= backlog[r]
      BY <1>0, <2>1 DEF Produce, PassShape
    <3> QED
      BY <1>0, <2>1, <3>1, PassAside DEF Produce, PassShape
  <2>2. CASE Pause(q)
    <3>1. /\ ready' \in [Consumers -> SUBSET PriorityQueues]
          /\ \A c \in Consumers : ready'[c] \subseteq ready[c] /\ ready'[c] \cap paused' \subseteq paused
      BY <1>0, <2>2 DEF Pause, NotReady, PassShape
    <3> QED
      BY <1>0, <2>2, <3>1, PassAside DEF Pause, PassShape
  <2>3. CASE Resume(q) \/ Finish(q)
    BY <1>0, <2>3, PassAside DEF Resume, Finish, PassShape
  <2> QED
    BY <1>2, <2>1, <2>2, <2>3
<1>3. ASSUME NEW c \in Consumers, Consume(c) \/ ReadFails(c) PROVE PassInv'
  <2>1. CASE ProcessSync(c) \/ Acquire(c) \/ GiveUp(c) \/ Sleep(c) \/ Wake(c) \/ Exit(c)
    <3>1. PICK stage \in {"pass", "sleep", "exited"} : pc' = [pc EXCEPT ![c] = stage]
      BY <2>1 DEF ProcessSync, Acquire, GiveUp, Sleep, Wake, Exit
    <3>2. /\ UNCHANGED <<strategy, backlog, paused>>
          /\ order' = order \/ order' = [order EXCEPT ![c] = <<>>]
          /\ held' = held \/ held' = [held EXCEPT ![c] = NoQueue]
          /\ ready' = ready \/ ready' = [ready EXCEPT ![c] = {}]
      BY <2>1 DEF ProcessSync, Acquire, GiveUp, Sleep, Wake, Exit
    <3>3. <<>> \in Seq(PriorityQueues)
      OBVIOUS
    <3>4. PassShape'
      BY <1>0, <3>1, <3>2, <3>3 DEF PassShape
    <3>5. \A d \in Consumers \ {c} : order'[d] = order[d] /\ held'[d] = held[d] /\ ready'[d] = ready[d]
      BY <1>0, <3>2 DEF PassShape
    <3> QED
      BY <3>1, <3>2, <3>4, <3>5, PassLeft
  <2>2. CASE NotPaused(c)
    <3>1. /\ pc[c] = "poll" /\ pc' = [pc EXCEPT ![c] = "read"]
          /\ UNCHANGED <<strategy, backlog, paused, order, held, ready>>
      BY <2>2 DEF NotPaused
    <3>2. pc'[c] = "read" /\ \A d \in Consumers \ {c} : pc'[d] = pc[d]
      BY <1>0, <3>1 DEF PassShape
    <3>3. PassShape'
      BY <1>0, <3>1 DEF PassShape
    <3>4. Ranking'
      BY <3>1, <3>2 DEF PassInv, Ranking, Ranked
    <3>5. StrictDominance'
      BY <3>1, <3>2 DEF PassInv, StrictDominance
    <3> QED
      BY <3>3, <3>4, <3>5 DEF PassInv
  <2> QED
    BY <1>3, <2>1, <2>2, BeginStep, PassedOver, FetchStep DEF Consume
<1>4. CASE Stop
  BY <1>0, <1>4, PassAside DEF Stop, PassShape
<1> QED
  BY <1>1, <1>2, <1>3, <1>4 DEF PriorityNext

\* Under the strict strategy a consumer fetches from a queue only if no heavier
\* one had work, and was not paused or unreadable, throughout its pass: for any
\* queues and weights, equal ones included, and whatever other consumers fetch
\* meanwhile.
THEOREM StrictOrderKept == PrioritySpec => []StrictDominance
<1>1. PassInv => StrictDominance
  BY DEF PassInv
<1> QED
  BY <1>1, PassInitially, PassInductive, PTL DEF PrioritySpec

-----------------------------------------------------------------------------
(* Codec: a task that fits the binary format is read as it was written.    *)

\* A set with 0 and the successor of each of its numbers up to N has them all:
\* a number outside it would have a least one.
LEMMA Induction ==
  ASSUME NEW N \in Nat, NEW S, 0 \in S, \A n \in 0 .. N - 1 : n \in S => n + 1 \in S
  PROVE  0 .. N \subseteq S
<1> SUFFICES ASSUME (0 .. N) \ S # {} PROVE FALSE
  OBVIOUS
<1> DEFINE out == (0 .. N) \ S
<1>1. IsWellFoundedOn(OpToRel(<, Nat), Nat)
  BY NatLessThanWellFounded
<1>2. out \subseteq Nat
  OBVIOUS
<1>3. PICK x \in out : \A y \in out : ~ (<<y, x>> \in OpToRel(<, Nat))
  BY <1>1, <1>2, WFMin
<1>4. x - 1 \in 0 .. N /\ x - 1 \in 0 .. N - 1
  OBVIOUS
<1>5. x - 1 \notin out
  <2>1. <<x - 1, x>> \in Nat \X Nat /\ <<x - 1, x>>[1] = x - 1 /\ <<x - 1, x>>[2] = x /\ x - 1 < x
    BY <1>4
  <2>2. <<x - 1, x>> \in {ss \in Nat \X Nat : ss[1] < ss[2]}
    BY <2>1
  <2> QED BY <1>3, <2>2 DEF OpToRel
<1> QED BY <1>4, <1>5

\* Two functions that begin alike and go on alike.
LEMMA Alike ==
  ASSUME NEW N \in Nat, NEW f, NEW g, f[0] = g[0], \A n \in 0 .. N - 1 : f[n] = g[n] => f[n + 1] = g[n + 1]
  PROVE  \A n \in 0 .. N : f[n] = g[n]
<1> DEFINE S == {n \in 0 .. N : f[n] = g[n]}
<1>1. 0 \in S
  OBVIOUS
<1>2. ASSUME NEW n \in 0 .. N - 1, n \in S PROVE n + 1 \in S
  BY <1>2
<1>3. 0 .. N \subseteq S
  <2> HIDE DEF S
  <2> QED BY <1>1, <1>2, Induction
<1> QED BY <1>3

\* What is written field by field.
LEMMA Concatenation ==
  ASSUME NEW N \in Nat, NEW X, NEW W \in [1 .. N -> Seq(X)]
  PROVE  \E f \in [0 .. N -> Seq(X)] : f[0] = <<>> /\ \A i \in 1 .. N : f[i] = f[i - 1] \o W[i]
<1> DEFINE Solves(f, n) == f[0] = <<>> /\ \A i \in 1 .. n : f[i] = f[i - 1] \o W[i]
           S == {n \in 0 .. N : \E f \in [0 .. N -> Seq(X)] : Solves(f, n)}
<1>1. 0 \in S
  <2>1. [i \in 0 .. N |-> <<>>] \in [0 .. N -> Seq(X)] /\ Solves([i \in 0 .. N |-> <<>>], 0)
    OBVIOUS
  <2>2. \E f \in [0 .. N -> Seq(X)] : Solves(f, 0)
    BY <2>1
  <2>3. 0 \in 0 .. N
    OBVIOUS
  <2> QED BY <2>2, <2>3
<1>2. ASSUME NEW n \in 0 .. N - 1, n \in S PROVE n + 1 \in S
  <2>1. PICK f \in [0 .. N -> Seq(X)] : Solves(f, n)
    BY <1>2
  <2> DEFINE new == f[n] \o W[n + 1]
             g == [f EXCEPT ![n + 1] = new]
  <2>2. new \in Seq(X)
    <3>1. f[n] \in Seq(X) /\ W[n + 1] \in Seq(X)
      OBVIOUS
    <3> QED BY <3>1, ConcatProperties
  <2> HIDE DEF new
  <2>3. g \in [0 .. N -> Seq(X)] /\ g[n + 1] = new /\ \A i \in 0 .. n : g[i] = f[i]
    BY <2>2
  <2> HIDE DEF g
  <2>4. Solves(g, n + 1)
    <3>1. g[0] = <<>>
      BY <2>1, <2>3
    <3>2. ASSUME NEW i \in 1 .. n + 1 PROVE g[i] = g[i - 1] \o W[i]
      <4>1. CASE i = n + 1
        <5>1. i - 1 = n /\ g[n] = f[n]
          BY <2>3, <4>1
        <5> QED BY <2>3, <4>1, <5>1 DEF new
      <4>2. CASE i # n + 1
        <5>1. i \in 1 .. n /\ i \in 0 .. n /\ i - 1 \in 0 .. n
          BY <4>2
        <5> QED BY <2>1, <2>3, <5>1
      <4> QED BY <4>1, <4>2
    <3> QED BY <3>1, <3>2
  <2>5. n + 1 \in 0 .. N
    OBVIOUS
  <2> QED BY <2>3, <2>4, <2>5
<1>3. N \in S
  <2> HIDE DEF S
  <2>1. 0 .. N \subseteq S
    BY <1>1, <1>2, Induction
  <2> QED BY <2>1
<1> QED BY <1>3

\* The kinds of fields.
FieldKinds == {"string16", "bytes32", "int32", "int64"}

\* A task has a value of its kind in each of the fifteen fields.
LEMMA Fields ==
  /\ Len(Layout) = 15 /\ DOMAIN Layout = 1 .. 15
  /\ \A i \in 1 .. 15 : Layout[i] \in FieldKinds
  /\ \A t \in TaskValues : \A i \in 1 .. 15 : t[i] \in IF IsNumber(Layout[i]) THEN Int ELSE Seq(Int)
<1>1. Len(Layout) = 15 /\ DOMAIN Layout = 1 .. 15
  BY DEF Layout
<1>2. ASSUME NEW i \in 1 .. 15 PROVE Layout[i] \in FieldKinds
  <2>1. i \in {1, 2, 3, 4, 5, 6, 7, 8, 9, 10, 11, 12, 13, 14, 15}
    OBVIOUS
  <2> QED BY <2>1 DEF Layout, FieldKinds
<1>3. ASSUME NEW t \in TaskValues, NEW i \in 1 .. 15 PROVE t[i] \in IF IsNumber(Layout[i]) THEN Int ELSE Seq(Int)
  <2>1. i \in {1, 2, 3, 4, 5, 6, 7, 8, 9, 10, 11, 12, 13, 14, 15}
    OBVIOUS
  <2>2. /\ t[1] \in Seq(Int) /\ t[2] \in Seq(Int) /\ t[3] \in Seq(Int) /\ t[4] \in Seq(Int)
        /\ t[5] \in Int /\ t[6] \in Int /\ t[7] \in Int /\ t[8] \in Seq(Int) /\ t[9] \in Int
        /\ t[10] \in Seq(Int) /\ t[11] \in Seq(Int) /\ t[12] \in Int /\ t[13] \in Int
        /\ t[14] \in Seq(Int) /\ t[15] \in Int
    BY DEF TaskValues
  <2>3. IsNumber(Layout[i]) <=> i \in {5, 6, 7, 9, 12, 13, 15}
    BY <2>1 DEF Layout, IsNumber
  <2> QED BY <2>1, <2>2, <2>3
<1> QED BY <1>1, <1>2, <1>3

\* The cells of a field.
LEMMA WrittenCells ==
  ASSUME NEW kind \in FieldKinds, NEW v \in IF IsNumber(kind) THEN Int ELSE Seq(Int)
  PROVE  Written(kind, v) \in Seq(Int)
<1>0. Length16 \in Nat \ {0} /\ Word32 \in Nat \ {0}
  BY CodecAssumption
<1>1. CASE kind = "string16"
  <2>1. v \in Seq(Int) /\ Len(v) \in Nat
    BY <1>1 DEF IsNumber
  <2>2. Len(v) % Length16 \in Int
    BY <1>0, <2>1
  <2>3. <<Len(v) % Length16>> \in Seq(Int)
    BY <2>2
  <2> QED BY <1>1, <2>1, <2>3, ConcatProperties DEF Written
<1>2. CASE kind = "bytes32"
  <2>1. v \in Seq(Int) /\ Len(v) \in Nat
    BY <1>2 DEF IsNumber
  <2>2. Len(v) % Word32 \in Int
    BY <1>0, <2>1
  <2>3. <<Len(v) % Word32>> \in Seq(Int)
    BY <2>2
  <2> QED BY <1>2, <2>1, <2>3, ConcatProperties DEF Written
<1>3. CASE kind = "int32"
  <2>1. v \in Int
    BY <1>3 DEF IsNumber
  <2>2. v % Word32 \in Int
    BY <1>0, <2>1
  <2> QED BY <1>3, <2>2 DEF Written
<1>4. CASE kind = "int64"
  <2>1. v \in Int
    BY <1>4 DEF IsNumber
  <2>2. Written(kind, v) = <<v>>
    BY <1>4 DEF Written
  <2> QED BY <2>1, <2>2
<1> QED BY <1>1, <1>2, <1>3, <1>4 DEF FieldKinds

\* MarshalBinary writes one field behind the other.
LEMMA MarshalCells ==
  ASSUME NEW t \in TaskValues
  PROVE  \E m \in [0 .. 15 -> Seq(Int)] :
           /\ m[0] = <<>>
           /\ \A i \in 1 .. 15 : m[i] = m[i - 1] \o Written(Layout[i], t[i])
           /\ MarshalBinary(t) = m[15]
<1> DEFINE W == [i \in 1 .. 15 |-> Written(Layout[i], t[i])]
           cells[i \in 0 .. Len(Layout)] == IF i = 0 THEN <<>> ELSE cells[i - 1] \o Written(Layout[i], t[i])
           Equation(f) == f = [i \in 0 .. Len(Layout) |-> IF i = 0 THEN <<>> ELSE f[i - 1] \o Written(Layout[i], t[i])]
<1>1. Len(Layout) = 15
  BY Fields
<1>2. MarshalBinary(t) = cells[15]
  BY <1>1 DEF MarshalBinary
<1>3. W \in [1 .. 15 -> Seq(Int)] /\ \A i \in 1 .. 15 : W[i] = Written(Layout[i], t[i])
  BY Fields, WrittenCells
<1>4. PICK f \in [0 .. 15 -> Seq(Int)] : f[0] = <<>> /\ \A i \in 1 .. 15 : f[i] = f[i - 1] \o W[i]
  <2> HIDE DEF W
  <2>1. 15 \in Nat
    OBVIOUS
  <2> QED BY <1>3, <2>1, Concatenation
<1>5. Equation(f)
  <2> SUFFICES \A i \in 0 .. 15 : f[i] = IF i = 0 THEN <<>> ELSE f[i - 1] \o Written(Layout[i], t[i])
    BY <1>1
  <2> TAKE i \in 0 .. 15
  <2>1. CASE i = 0
    BY <1>4, <2>1
  <2>2. CASE i \in 1 .. 15
    <3> HIDE DEF W
    <3> QED BY <1>3, <1>4, <2>2
  <2> QED BY <2>1, <2>2
<1>6. Equation(cells)
  <2>1. \E g : Equation(g)
    BY <1>5
  <2> QED BY <2>1
<1>7. \A n \in 0 .. 15 : cells[n] = f[n]
  <2> HIDE DEF cells, W
  <2>1. cells[0] = f[0]
    BY <1>1, <1>4, <1>6
  <2>2. \A n \in 0 .. 15 - 1 : cells[n] = f[n] => cells[n + 1] = f[n + 1]
    <3> SUFFICES ASSUME NEW n \in 0 .. 15 - 1, cells[n] = f[n] PROVE cells[n + 1] = f[n + 1]
      OBVIOUS
    <3>1. PICK k \in 1 .. 15 : k = n + 1 /\ k - 1 = n /\ k \in 0 .. 15 /\ k # 0
      OBVIOUS
    <3>2. cells[k] = cells[k - 1] \o Written(Layout[k], t[k])
      BY <1>1, <1>6, <3>1
    <3>3. f[k] = f[k - 1] \o W[k]
      BY <1>4
    <3>4. W[k] = Written(Layout[k], t[k])
      BY <1>3
    <3> QED BY <3>1, <3>2, <3>3, <3>4
  <2>3. 15 \in Nat
    OBVIOUS
  <2> QED BY <2>1, <2>2, <2>3, Alike
<1>8. MarshalBinary(t) = f[15]
  <2> HIDE DEF cells
  <2> QED BY <1>2, <1>7
<1>9. \A i \in 1 .. 15 : f[i] = f[i - 1] \o Written(Layout[i], t[i])
  <2> HIDE DEF W
  <2> QED BY <1>3, <1>4
<1> HIDE DEF W
<1> QED BY <1>4, <1>8, <1>9

\* A length or a number that fits is kept.
LEMMA Kept ==
  ASSUME NEW m \in Nat \ {0}, NEW v \in Int
  PROVE  /\ 0 <= v /\ v < m => v % m = v
         /\ -m <= v /\ v < 0 => v % m = v + m
<1>1. v % m \in 0 .. m - 1 /\ v = m * (v \div m) + (v % m) /\ v \div m \in Int
  OBVIOUS
<1> DEFINE q == v \div m
           r == v % m
<1>2. q \in Int /\ r \in Int /\ v = m * q + r /\ 0 <= r /\ r < m
  BY <1>1
<1> HIDE DEF q, r
<1>3. ASSUME 0 <= v, v < m PROVE r = v
  <2>1. q < 1
    <3> SUFFICES ASSUME q >= 1 PROVE FALSE
      BY <1>2
    <3>1. m * q >= m
      BY <1>2
    <3> QED BY <1>2, <1>3, <3>1
  <2>2. q > -1
    <3> SUFFICES ASSUME q <= -1 PROVE FALSE
      BY <1>2
    <3>1. m * q <= -m
      BY <1>2
    <3> QED BY <1>2, <1>3, <3>1
  <2>3. q = 0
    BY <1>2, <2>1, <2>2
  <2> QED BY <1>2, <2>3
<1>4. ASSUME -m <= v, v < 0 PROVE r = v + m
  <2>1. q < 0
    <3> SUFFICES ASSUME q >= 0 PROVE FALSE
      BY <1>2
    <3>1. m * q >= 0
      BY <1>2
    <3> QED BY <1>2, <1>4, <3>1
  <2>2. q > -2
    <3> SUFFICES ASSUME q <= -2 PROVE FALSE
      BY <1>2
    <3>1. m * q <= -2 * m
      BY <1>2
    <3> QED BY <1>2, <1>4, <3>1
  <2>3. q = -1
    BY <1>2, <2>1, <2>2
  <2> QED BY <1>2, <2>3
<1> QED BY <1>3, <1>4 DEF r

\* A field of this kind fits.
FieldFits(kind, v) ==
  CASE kind = "string16" -> Len(v) < Length16
    [] kind = "bytes32"  -> Len(v) < Word32
    [] kind = "int32"    -> -Word32 <= 2 * v /\ 2 * v < Word32
    [] OTHER             -> TRUE

\* What follows a sequence is a sequence.
LEMMA Regroup ==
  ASSUME NEW p \in Seq(Int), NEW w \in Seq(Int), NEW b \in Seq(Int)
  PROVE  \E d \in Seq(Int) : (p \o w) \o b = p \o d
<1>1. w \o b \in Seq(Int)
  BY ConcatProperties
<1>2. (p \o w) \o b = p \o (w \o b)
  BY ConcatAssociative
<1> QED BY <1>1, <1>2

\* Each of these is the one before and something more.
Extends(f, W, N) == \A i \in 1 .. N : f[i] = f[i - 1] \o W[i]

\* What is written first stays in front.
LEMMA InFront ==
  ASSUME NEW N \in Nat, NEW W \in [1 .. N -> Seq(Int)], NEW f \in [0 .. N -> Seq(Int)],
         Extends(f, W, N), NEW at \in 0 .. N
  PROVE  \E b \in Seq(Int) : f[N] = f[at] \o b
<1> DEFINE S == {k \in 0 .. N : \E b \in Seq(Int) : f[N] = f[N - k] \o b}
<1>1. 0 \in S
  <2>1. <<>> \in Seq(Int) /\ f[N] = f[N - 0] \o <<>>
    BY ConcatEmptySeq
  <2>2. 0 \in 0 .. N
    OBVIOUS
  <2> QED BY <2>1, <2>2
<1>2. ASSUME NEW k \in 0 .. N - 1, k \in S PROVE k + 1 \in S
  <2>1. PICK b \in Seq(Int) : f[N] = f[N - k] \o b
    BY <1>2
  <2>2. PICK j \in 1 .. N : j = N - k /\ j - 1 = N - (k + 1) /\ j - 1 \in 0 .. N
    OBVIOUS
  <2>3. f[j] = f[j - 1] \o W[j] /\ f[j - 1] \in Seq(Int) /\ W[j] \in Seq(Int)
    BY <2>2 DEF Extends
  <2>4. \E d \in Seq(Int) : f[N] = f[j - 1] \o d
    <3>1. PICK p \in Seq(Int) : p = f[j - 1]
      BY <2>3
    <3>2. PICK w \in Seq(Int) : w = W[j]
      BY <2>3
    <3>3. \E d \in Seq(Int) : (p \o w) \o b = p \o d
      BY Regroup
    <3>4. f[N] = (p \o w) \o b
      BY <2>1, <2>2, <2>3, <3>1, <3>2
    <3> QED BY <3>1, <3>3, <3>4
  <2>6. k + 1 \in 0 .. N
    OBVIOUS
  <2> QED BY <2>2, <2>4, <2>6
<1>3. 0 .. N \subseteq S
  <2> HIDE DEF S
  <2> QED BY <1>1, <1>2, Induction
<1>4. PICK k \in 0 .. N : N - k = at
  <2>1. N - at \in 0 .. N /\ N - (N - at) = at
    OBVIOUS
  <2> QED BY <2>1
<1>5. k \in S
  BY <1>3
<1> QED BY <1>4, <1>5

\* A sequence after another.
LEMMA After ==
  ASSUME NEW X, NEW a \in Seq(X), NEW w \in Seq(X), NEW j \in 1 .. Len(w)
  PROVE  (a \o w)[Len(a) + j] = w[j]
<1>1. Len(a) \in Nat /\ Len(w) \in Nat
  OBVIOUS
<1>2. PICK i \in 1 .. Len(a) + Len(w) : i = Len(a) + j
  <2>1. Len(a) + j \in 1 .. Len(a) + Len(w)
    BY <1>1
  <2> QED BY <2>1
<1>3. i - Len(a) = j /\ ~(i <= Len(a))
  BY <1>1, <1>2
<1>4. (a \o w)[i] = w[i - Len(a)]
  BY <1>3, ConcatProperties
<1> QED BY <1>2, <1>3, <1>4

\* A sequence before another.
LEMMA Before ==
  ASSUME NEW X, NEW a \in Seq(X), NEW w \in Seq(X), NEW j \in 1 .. Len(a)
  PROVE  (a \o w)[j] = a[j]
<1>1. Len(a) \in Nat /\ Len(w) \in Nat
  OBVIOUS
<1>2. j \in 1 .. Len(a) + Len(w) /\ j <= Len(a)
  BY <1>1
<1> QED BY <1>2, ConcatProperties

\* What lies in the middle of the data.
LEMMA InMiddle ==
  ASSUME NEW X, NEW a \in Seq(X), NEW w \in Seq(X), NEW b \in Seq(X)
  PROVE  /\ (a \o w) \o b \in Seq(X) /\ Len((a \o w) \o b) = Len(a) + Len(w) + Len(b)
         /\ \A j \in 1 .. Len(w) : ((a \o w) \o b)[Len(a) + j] = w[j]
<1>1. PICK c \in Seq(X) : c = a \o w /\ Len(c) = Len(a) + Len(w)
  BY ConcatProperties
<1>2. Len(a) \in Nat /\ Len(w) \in Nat /\ Len(b) \in Nat
  OBVIOUS
<1>3. c \o b \in Seq(X) /\ Len(c \o b) = Len(c) + Len(b)
  BY ConcatProperties
<1>4. ASSUME NEW j \in 1 .. Len(w) PROVE (c \o b)[Len(a) + j] = w[j]
  <2>1. PICK i \in 1 .. Len(c) : i = Len(a) + j
    <3>1. Len(a) + j \in 1 .. Len(c)
      BY <1>1, <1>2
    <3> QED BY <3>1
  <2>2. (c \o b)[i] = c[i]
    BY Before
  <2>3. (a \o w)[Len(a) + j] = w[j]
    BY After
  <2> QED BY <1>1, <2>1, <2>2, <2>3
<1> QED BY <1>1, <1>2, <1>3, <1>4

\* The part of the data that repeats a sequence.
LEMMA Repeats ==
  ASSUME NEW X, NEW data \in Seq(X), NEW v \in Seq(X), NEW k \in Nat, k + Len(v) <= Len(data),
         \A j \in 1 .. Len(v) : data[k + j] = v[j]
  PROVE  SubSeq(data, k + 1, k + Len(v)) = v
<1>1. PICK m \in Int : m = k + 1
  OBVIOUS
<1>2. PICK n \in Int : n = k + Len(v)
  OBVIOUS
<1>3. \A i \in m .. n : data[i] \in X
  <2> SUFFICES ASSUME NEW i \in m .. n PROVE data[i] \in X
    OBVIOUS
  <2>0. Len(data) \in Nat /\ Len(v) \in Nat /\ i \in Int /\ m <= i /\ i <= n
    OBVIOUS
  <2>1. i \in 1 .. Len(data)
    BY <1>1, <1>2, <2>0
  <2> QED BY <2>1
<1>4. /\ SubSeq(data, m, n) \in Seq(X) /\ Len(SubSeq(data, m, n)) = IF m <= n THEN n - m + 1 ELSE 0
      /\ \A i \in 1 .. n - m + 1 : SubSeq(data, m, n)[i] = data[m + i - 1]
  BY <1>3, SubSeqProperties
<1>5. PICK s \in Seq(X) : s = SubSeq(data, m, n)
  BY <1>4
<1>6. Len(v) \in Nat
  OBVIOUS
<1>7. Len(s) = Len(v)
  BY <1>1, <1>2, <1>4, <1>5, <1>6
<1>8. ASSUME NEW j \in 1 .. Len(v) PROVE s[j] = v[j]
  <2>0. n - m + 1 = Len(v) /\ j \in Int
    BY <1>1, <1>2, <1>6
  <2>1. j \in 1 .. n - m + 1 /\ m + j - 1 = k + j
    BY <1>1, <2>0
  <2>2. s[j] = data[m + j - 1]
    BY <1>4, <1>5, <2>1
  <2> QED BY <2>1, <2>2
<1>9. s = v
  BY <1>7, <1>8, SeqEqual
<1> QED BY <1>1, <1>2, <1>5, <1>9

\* A cell by itself.
LEMMA Single ==
  ASSUME NEW n \in Int
  PROVE  \E e \in Seq(Int) : e = <<n>> /\ Len(e) = 1 /\ e[1] = n
<1>1. <<n>> \in Seq(Int) /\ Len(<<n>>) = 1 /\ <<n>>[1] = n
  OBVIOUS
<1> QED BY <1>1

\* A string behind its length is read as it was written.
LEMMA ReadLengthPrefixed ==
  ASSUME NEW data \in Seq(Int), NEW v \in Seq(Int), NEW k \in Nat, k + Len(v) <= Len(data), data[k] = Len(v),
         \A j \in 1 .. Len(v) : data[k + j] = v[j], NEW kind \in {"string16", "bytes32"}
  PROVE  Read(data, k, kind) = [ok |-> TRUE, value |-> v, at |-> k + 1 + Len(v)]
<1>1. SubSeq(data, k + 1, k + Len(v)) = v
  BY Repeats
<1>2. Len(v) \in Nat /\ Len(data) \in Nat
  OBVIOUS
<1>3. PICK n \in Int : n = Len(v)
  OBVIOUS
<1>4. ~(k > Len(data)) /\ ~(n < 0 \/ n > Len(data) - k)
  BY <1>2, <1>3
<1>5. kind # "int32" /\ kind # "int64"
  OBVIOUS
<1>6. SubSeq(data, k + 1, k + n) = v /\ data[k] = n
  BY <1>1, <1>3
<1> QED BY <1>3, <1>4, <1>5, <1>6 DEF Read

\* A string behind its length.
LEMMA LengthPrefixed ==
  ASSUME NEW v \in Seq(Int), NEW n \in Int, n = Len(v)
  PROVE  \E w \in Seq(Int) : w = <<n>> \o v /\ Len(w) = 1 + n /\ w[1] = n /\ \A j \in 1 .. n : w[1 + j] = v[j]
<1>1. PICK e \in Seq(Int) : e = <<n>> /\ Len(e) = 1 /\ e[1] = n
  BY Single
<1>2. e \o v \in Seq(Int) /\ Len(e \o v) = Len(e) + Len(v)
  BY ConcatProperties
<1>3. 1 \in 1 .. Len(e)
  BY <1>1
<1>4. (e \o v)[1] = e[1]
  BY <1>3, Before
<1>5. \A j \in 1 .. Len(v) : (e \o v)[Len(e) + j] = v[j]
  BY After
<1>6. PICK w \in Seq(Int) : w = e \o v
  BY <1>2
<1>7. Len(w) = 1 + n /\ w[1] = n /\ \A j \in 1 .. n : w[1 + j] = v[j]
  BY <1>1, <1>2, <1>4, <1>5, <1>6
<1> QED BY <1>1, <1>6, <1>7

\* A number is read as it was written.
LEMMA ReadNumber ==
  ASSUME NEW a \in Seq(Int), NEW n \in Int, NEW b \in Seq(Int), NEW data, data = (a \o <<n>>) \o b,
         NEW kind \in {"int32", "int64"}
  PROVE  /\ Read(data, Len(a) + 1, kind) =
              [ok |-> TRUE, value |-> IF kind = "int32" THEN Signed32(n) ELSE n, at |-> Len(a \o <<n>>) + 1]
         /\ Len(a) + 1 <= Len(data)
<1>1. PICK w \in Seq(Int) : w = <<n>> /\ Len(w) = 1 /\ w[1] = n
  BY Single
<1>2. /\ data \in Seq(Int) /\ Len(data) = Len(a) + Len(w) + Len(b)
      /\ \A j \in 1 .. Len(w) : data[Len(a) + j] = w[j]
  BY <1>1, InMiddle
<1>3. Len(a \o w) = Len(a) + Len(w)
  BY ConcatProperties
<1>4. Len(b) \in Nat /\ Len(a) \in Nat
  OBVIOUS
<1>5. PICK k \in Nat : k = Len(a) + 1
  OBVIOUS
<1>6. data[k] = n /\ k <= Len(data) /\ k + 1 = Len(a \o w) + 1 /\ ~(k > Len(data))
  BY <1>1, <1>2, <1>3, <1>4, <1>5
<1>7. Read(data, k, kind) = [ok |-> TRUE, value |-> IF kind = "int32" THEN Signed32(n) ELSE n, at |-> k + 1]
  <2>1. CASE kind = "int32"
    BY <1>6, <2>1 DEF Read
  <2>2. CASE kind = "int64"
    BY <1>6, <2>2 DEF Read
  <2> QED BY <2>1, <2>2
<1> QED BY <1>1, <1>5, <1>6, <1>7
\* A field that fits is read as it was written.
LEMMA ReadWritten ==
  ASSUME NEW kind \in FieldKinds, NEW v \in IF IsNumber(kind) THEN Int ELSE Seq(Int), FieldFits(kind, v),
         NEW a \in Seq(Int), NEW b \in Seq(Int), NEW data, data = (a \o Written(kind, v)) \o b
  PROVE  /\ Read(data, Len(a) + 1, kind) = [ok |-> TRUE, value |-> v, at |-> Len(a \o Written(kind, v)) + 1]
         /\ Len(a) + 1 <= Len(data)
<1>0. Length16 \in Nat \ {0} /\ Word32 \in Nat \ {0}
  BY CodecAssumption
<1>1. CASE kind \in {"string16", "bytes32"}
  <2>1. v \in Seq(Int) /\ Len(v) \in Nat
    BY <1>1 DEF IsNumber
  <2>2. Written(kind, v) = <<Len(v)>> \o v
    <3>1. CASE kind = "string16"
      <4>1. Len(v) % Length16 = Len(v)
        <5>1. 0 <= Len(v) /\ Len(v) < Length16
          BY <2>1, <3>1 DEF FieldFits
        <5> QED BY <1>0, <2>1, <5>1, Kept
      <4> QED BY <3>1, <4>1 DEF Written
    <3>2. CASE kind = "bytes32"
      <4>1. Len(v) % Word32 = Len(v)
        <5>1. 0 <= Len(v) /\ Len(v) < Word32
          BY <2>1, <3>2 DEF FieldFits
        <5> QED BY <1>0, <2>1, <5>1, Kept
      <4> QED BY <3>2, <4>1 DEF Written
    <3> QED BY <1>1, <3>1, <3>2
  <2>3. PICK u \in Seq(Int) : u = v
    BY <2>1
  <2>4. PICK n \in Int : n = Len(u) /\ n \in Nat
    OBVIOUS
  <2>5. PICK w \in Seq(Int) : w = <<n>> \o u /\ Len(w) = 1 + n /\ w[1] = n /\ \A j \in 1 .. n : w[1 + j] = u[j]
    BY <2>4, LengthPrefixed
  <2>6. w = Written(kind, v)
    BY <2>2, <2>3, <2>4, <2>5
  <2>7. PICK d \in Seq(Int) : /\ d = (a \o w) \o b /\ Len(d) = Len(a) + Len(w) + Len(b)
                              /\ \A j \in 1 .. Len(w) : d[Len(a) + j] = w[j]
    <3>1. /\ (a \o w) \o b \in Seq(Int) /\ Len((a \o w) \o b) = Len(a) + Len(w) + Len(b)
          /\ \A j \in 1 .. Len(w) : ((a \o w) \o b)[Len(a) + j] = w[j]
      BY InMiddle
    <3>2. PICK d \in Seq(Int) : d = (a \o w) \o b
      BY <3>1
    <3>3. Len(d) = Len(a) + Len(w) + Len(b) /\ \A j \in 1 .. Len(w) : d[Len(a) + j] = w[j]
      BY <3>1, <3>2
    <3> QED BY <3>2, <3>3
  <2>8. PICK k \in Nat : k = Len(a) + 1
    OBVIOUS
  <2>9. Len(a) \in Nat /\ Len(b) \in Nat
    OBVIOUS
  <2>10. d[k] = n
    BY <2>4, <2>5, <2>7, <2>8, <2>9
  <2>11. k + n <= Len(d) /\ k <= Len(d)
    BY <2>4, <2>5, <2>7, <2>8, <2>9
  <2>12. ASSUME NEW j \in 1 .. n PROVE d[k + j] = u[j]
    <3>1. PICK i \in 1 .. Len(w) : i = 1 + j /\ Len(a) + i = k + j
      <4>1. 1 + j \in 1 .. Len(w) /\ Len(a) + (1 + j) = k + j
        BY <2>4, <2>5, <2>8, <2>9
      <4> QED BY <4>1
    <3>2. d[Len(a) + i] = w[i] /\ w[1 + j] = u[j]
      BY <2>5, <2>7
    <3> QED BY <3>1, <3>2
  <2>13. Read(d, k, kind) = [ok |-> TRUE, value |-> u, at |-> k + 1 + n]
    BY <1>1, <2>4, <2>10, <2>11, <2>12, ReadLengthPrefixed, SMTT(20)
  <2>14. Len(a \o w) = Len(a) + Len(w)
    BY ConcatProperties
  <2>15. k + 1 + n = Len(a \o w) + 1
    BY <2>4, <2>5, <2>8, <2>9, <2>14
  <2>16. data = d
    BY <2>6, <2>7
  <2> QED BY <2>3, <2>6, <2>8, <2>11, <2>13, <2>15, <2>16
<1>2. CASE kind \in {"int32", "int64"}
  <2>1. v \in Int
    BY <1>2 DEF IsNumber
  <2>2. PICK n \in Int : Written(kind, v) = <<n>> /\ v = IF kind = "int32" THEN Signed32(n) ELSE n
    <3>1. CASE kind = "int32"
      <4>1. -Word32 <= 2 * v /\ 2 * v < Word32
        BY <3>1 DEF FieldFits
      <4>2. v % Word32 = IF v < 0 THEN v + Word32 ELSE v
        <5>1. /\ 0 <= v /\ v < Word32 => v % Word32 = v
              /\ -Word32 <= v /\ v < 0 => v % Word32 = v + Word32
          BY <1>0, <2>1, Kept
        <5>2. (v >= 0 => v < Word32) /\ (v < 0 => -Word32 <= v)
          BY <1>0, <2>1, <4>1
        <5> QED BY <2>1, <5>1, <5>2
      <4>3. Signed32(IF v < 0 THEN v + Word32 ELSE v) = v
        BY <1>0, <2>1, <4>1 DEF Signed32
      <4>4. v % Word32 \in Int
        BY <1>0, <2>1, <4>2
      <4>5. Written(kind, v) = <<v % Word32>>
        BY <3>1 DEF Written
      <4> QED BY <3>1, <4>2, <4>3, <4>4, <4>5
    <3>2. CASE kind = "int64"
      <4>1. Written(kind, v) = <<v>>
        BY <3>2 DEF Written
      <4> QED BY <2>1, <3>2, <4>1
    <3> QED BY <1>2, <3>1, <3>2
  <2>3. data = (a \o <<n>>) \o b
    BY <2>2
  <2>4. /\ Read(data, Len(a) + 1, kind) =
             [ok |-> TRUE, value |-> IF kind = "int32" THEN Signed32(n) ELSE n, at |-> Len(a \o <<n>>) + 1]
        /\ Len(a) + 1 <= Len(data)
    BY <1>2, <2>3, ReadNumber
  <2> QED BY <2>2, <2>4
<1> QED BY <1>1, <1>2 DEF FieldKinds
\* Fields of a task are a sequence.
LEMMA TaskFields ==
  ASSUME NEW t \in TaskValues
  PROVE  t \in Seq(Int \cup Seq(Int)) /\ Len(t) = 15 /\ \A i \in 1 .. 15 : t[i] \in Int \cup Seq(Int)
<1>1. t = <<t[1], t[2], t[3], t[4], t[5], t[6], t[7], t[8], t[9], t[10], t[11], t[12], t[13], t[14], t[15]>>
  BY DEF TaskValues
<1>2. Len(t) = 15 /\ DOMAIN t = 1 .. 15
  BY <1>1
<1>3. \A i \in 1 .. 15 : t[i] \in Int \cup Seq(Int)
  BY Fields
<1>4. t = [i \in 1 .. 15 |-> t[i]]
  BY <1>1
<1>5. t \in [1 .. 15 -> Int \cup Seq(Int)]
  BY <1>3, <1>4
<1>6. t \in Seq(Int \cup Seq(Int))
  <2>1. \E n \in Nat : t \in [1 .. n -> Int \cup Seq(Int)]
    BY <1>5
  <2> QED BY <2>1, SeqDef
<1> QED BY <1>2, <1>3, <1>6

\* One field more of the task.
LEMMA NextField ==
  ASSUME NEW t \in TaskValues, NEW i \in 1 .. 15
  PROVE  Append(SubSeq(t, 1, i - 1), t[i]) = SubSeq(t, 1, i)
<1> DEFINE X == Int \cup Seq(Int)
<1>1. t \in Seq(X) /\ Len(t) = 15 /\ \A j \in 1 .. 15 : t[j] \in X
  BY TaskFields
<1> HIDE DEF X
<1>2. 1 \in 1 .. Len(t) /\ i \in 1 .. Len(t)
  BY <1>1
<1>3. SubSeq(t, 1, i) = SubSeq(t, 1, i - 1) \o <<t[i]>>
  BY <1>1, <1>2, SubSeqRecursiveSecond
<1>4. t[i] \in X
  BY <1>1, <1>2
<1>5. SubSeq(t, 1, i - 1) \in Seq(X)
  <2>1. PICK n \in Int : n = i - 1
    OBVIOUS
  <2>2. ASSUME NEW j \in 1 .. n PROVE t[j] \in X
    <3>1. j \in 1 .. 15
      BY <2>1
    <3> QED BY <1>1, <3>1
  <2>3. SubSeq(t, 1, n) \in Seq(X)
    BY <2>2, SubSeqProperties
  <2> QED BY <2>1, <2>3
<1>6. PICK s \in Seq(X) : s = SubSeq(t, 1, i - 1)
  BY <1>5
<1>7. PICK x \in X : x = t[i]
  BY <1>4
<1>8. Append(s, x) = s \o <<x>>
  BY AppendIsConcat
<1> QED BY <1>3, <1>6, <1>7, <1>8

\* Each field is read behind the ones before it.
LEMMA ReadNext ==
  ASSUME NEW t \in TaskValues, Fits(t), NEW m \in [0 .. 15 -> Seq(Int)],
         \A i \in 1 .. 15 : m[i] = m[i - 1] \o Written(Layout[i], t[i]), NEW i \in 1 .. 15
  PROVE  ReadField(m[15], [ok |-> TRUE, at |-> Len(m[i - 1]) + 1, task |-> SubSeq(t, 1, i - 1)], i)
           = [ok |-> TRUE, at |-> Len(m[i]) + 1, task |-> SubSeq(t, 1, i)]
<1> DEFINE acc == [ok |-> TRUE, at |-> Len(m[i - 1]) + 1, task |-> SubSeq(t, 1, i - 1)]
<1>1. PICK kind \in FieldKinds : kind = Layout[i]
  BY Fields
<1>2. PICK v \in IF IsNumber(kind) THEN Int ELSE Seq(Int) : v = t[i]
  BY <1>1, Fields
<1>3. FieldFits(kind, v)
  BY <1>1, <1>2, Fields DEF Fits, FieldFits
<1>4. PICK b \in Seq(Int) : m[15] = m[i] \o b
  <2> DEFINE W == [k \in 1 .. 15 |-> Written(Layout[k], t[k])]
  <2>1. W \in [1 .. 15 -> Seq(Int)] /\ \A k \in 1 .. 15 : W[k] = Written(Layout[k], t[k])
    BY Fields, WrittenCells
  <2> HIDE DEF W
  <2>2. \A k \in 1 .. 15 : m[k] = m[k - 1] \o W[k]
    BY <2>1
  <2>3. PICK N \in Nat : N = 15
    OBVIOUS
  <2>4. PICK f \in [0 .. N -> Seq(Int)] : f = m
    BY <2>3
  <2>5. PICK w \in [1 .. N -> Seq(Int)] : w = W
    BY <2>1, <2>3
  <2>6. PICK n \in 0 .. N : n = i
    BY <2>3
  <2>7. Extends(f, w, N)
    BY <2>2, <2>3, <2>4, <2>5 DEF Extends
  <2>8. \E b \in Seq(Int) : f[N] = f[n] \o b
    BY <2>7, InFront
  <2> QED BY <2>3, <2>4, <2>6, <2>8
<1>5. PICK a \in Seq(Int) : a = m[i - 1]
  <2>1. i - 1 \in 0 .. 15
    OBVIOUS
  <2>2. m[i - 1] \in Seq(Int)
    BY <2>1
  <2> QED BY <2>2
<1>6. m[i] = a \o Written(kind, v)
  BY <1>1, <1>2, <1>5
<1>7. PICK data : data = m[15]
  OBVIOUS
<1>8. data = (a \o Written(kind, v)) \o b
  BY <1>4, <1>6, <1>7
<1>9. /\ Read(data, Len(a) + 1, kind) = [ok |-> TRUE, value |-> v, at |-> Len(a \o Written(kind, v)) + 1]
      /\ Len(a) + 1 <= Len(data)
  BY <1>3, <1>8, ReadWritten
<1>10. /\ Read(data, acc.at, Layout[i]) = [ok |-> TRUE, value |-> v, at |-> Len(m[i]) + 1]
       /\ acc.at <= Len(data)
  BY <1>1, <1>5, <1>6, <1>9
<1>11. acc.ok /\ acc.task = SubSeq(t, 1, i - 1) /\ acc.at \in Int /\ Len(data) \in Int
  BY <1>7
<1> HIDE DEF acc
<1>12. Append(acc.task, v) = SubSeq(t, 1, i)
  BY <1>2, <1>11, NextField
<1>13. PICK r : r = Read(data, acc.at, Layout[i])
  OBVIOUS
<1>14. ~(acc.at > Len(data)) /\ r.ok /\ r.at = Len(m[i]) + 1 /\ r.value = v
  <2>1. ~(acc.at > Len(data))
    <3>1. PICK x \in Int : x = acc.at
      BY <1>11
    <3>2. PICK y \in Int : y = Len(data)
      BY <1>11
    <3>3. x <= y
      BY <1>10, <3>1, <3>2
    <3>4. ~(x > y)
      BY <3>3
    <3> QED BY <3>1, <3>2, <3>4, Zenon
  <2>2. r = [ok |-> TRUE, value |-> v, at |-> Len(m[i]) + 1]
    BY <1>10, <1>13
  <2> QED BY <2>1, <2>2
<1>15. ReadField(data, acc, i) = [ok |-> TRUE, at |-> r.at, task |-> Append(acc.task, r.value)]
  BY <1>11, <1>13, <1>14 DEF ReadField
<1> QED BY <1>7, <1>12, <1>14, <1>15 DEF acc

\* F reads field after field.
Reading(data, F) ==
  F = [i \in 0 .. 15 |-> IF i = 0 THEN [ok |-> TRUE, at |-> 1, task |-> <<>>] ELSE ReadField(data, F[i - 1], i)]

\* A function that reads field after field is what UnmarshalBinary computes.
LEMMA UnmarshalFields ==
  ASSUME NEW data, NEW F, Reading(data, F)
  PROVE  UnmarshalBinary(data) = [ok |-> F[15].ok, task |-> F[15].task]
<1> DEFINE fields[i \in 0 .. Len(Layout)] ==
             IF i = 0 THEN [ok |-> TRUE, at |-> 1, task |-> <<>>] ELSE ReadField(data, fields[i - 1], i)
<1>1. Len(Layout) = 15
  BY Fields
<1>2. UnmarshalBinary(data) = [ok |-> fields[15].ok, task |-> fields[15].task]
  BY <1>1 DEF UnmarshalBinary
<1>4. Reading(data, fields)
  <2>1. \E g : Reading(data, g)
    OBVIOUS
  <2> QED BY <1>1, <2>1 DEF Reading
<1> HIDE DEF fields
<1>5. fields[0] = F[0]
  BY <1>4 DEF Reading
<1>6. ASSUME NEW k \in 1 .. 15, fields[k - 1] = F[k - 1] PROVE fields[k] = F[k]
  <2>1. k \in 0 .. 15 /\ k # 0
    OBVIOUS
  <2>2. fields[k] = ReadField(data, fields[k - 1], k)
    BY <1>4, <2>1 DEF Reading
  <2>3. F[k] = ReadField(data, F[k - 1], k)
    BY <2>1 DEF Reading
  <2> QED BY <1>6, <2>2, <2>3
<1>7. ASSUME NEW n \in 0 .. 15 - 1, fields[n] = F[n] PROVE fields[n + 1] = F[n + 1]
  <2>1. PICK k \in 1 .. 15 : k = n + 1 /\ k - 1 = n
    <3>1. n + 1 \in 1 .. 15 /\ (n + 1) - 1 = n
      OBVIOUS
    <3> QED BY <3>1
  <2> QED BY <1>6, <1>7, <2>1
<1>8. 15 \in Nat /\ 15 \in 0 .. 15
  OBVIOUS
<1>9. \A n \in 0 .. 15 : fields[n] = F[n]
  BY <1>5, <1>7, <1>8, Alike
<1>10. fields[15] = F[15]
  BY <1>8, <1>9
<1> QED BY <1>2, <1>10

\* UnmarshalBinary undoes MarshalBinary for every task whose lengths and
\* numbers fit their widths: the fields are read where they were written.
THEOREM RoundTrip ==
  ASSUME NEW t \in TaskValues, Fits(t)
  PROVE  UnmarshalBinary(MarshalBinary(t)) = [ok |-> TRUE, task |-> t]
<1>1. PICK m \in [0 .. 15 -> Seq(Int)] :
        /\ m[0] = <<>>
        /\ \A i \in 1 .. 15 : m[i] = m[i - 1] \o Written(Layout[i], t[i])
        /\ MarshalBinary(t) = m[15]
  BY MarshalCells
<1> DEFINE F == [i \in 0 .. 15 |-> [ok |-> TRUE, at |-> Len(m[i]) + 1, task |-> SubSeq(t, 1, i)]]
<1>2. ASSUME NEW i \in 0 .. 15 PROVE F[i] = [ok |-> TRUE, at |-> Len(m[i]) + 1, task |-> SubSeq(t, 1, i)]
  OBVIOUS
<1>3. F = [i \in 0 .. 15 |-> F[i]]
  OBVIOUS
<1> HIDE DEF F
<1>4. F[0] = [ok |-> TRUE, at |-> 1, task |-> <<>>]
  <2>3. PICK k \in 0 .. 15 : k = 0
    OBVIOUS
  <2>1. SubSeq(t, 1, k) = <<>>
    BY <2>3, SubSeqEmpty
  <2>2. m[k] = <<>>
    BY <1>1, <2>3
  <2>4. F[k] = [ok |-> TRUE, at |-> Len(m[k]) + 1, task |-> SubSeq(t, 1, k)]
    BY <1>2
  <2>5. Len(m[k]) + 1 = 1
    BY <2>2
  <2> QED BY <2>1, <2>3, <2>4, <2>5
<1>5. ASSUME NEW i \in 1 .. 15 PROVE F[i] = ReadField(m[15], F[i - 1], i)
  <2>1. i \in 0 .. 15
    OBVIOUS
  <2>2. i - 1 \in 0 .. 15
    OBVIOUS
  <2>3. ReadField(m[15], [ok |-> TRUE, at |-> Len(m[i - 1]) + 1, task |-> SubSeq(t, 1, i - 1)], i)
          = [ok |-> TRUE, at |-> Len(m[i]) + 1, task |-> SubSeq(t, 1, i)]
    BY <1>1, ReadNext
  <2>4. F[i - 1] = [ok |-> TRUE, at |-> Len(m[i - 1]) + 1, task |-> SubSeq(t, 1, i - 1)]
    BY <1>2, <2>2
  <2>5. F[i] = [ok |-> TRUE, at |-> Len(m[i]) + 1, task |-> SubSeq(t, 1, i)]
    BY <1>2, <2>1
  <2> QED BY <2>3, <2>4, <2>5
<1>6. Reading(m[15], F)
  <2> DEFINE G == [i \in 0 .. 15 |-> IF i = 0 THEN [ok |-> TRUE, at |-> 1, task |-> <<>>] ELSE ReadField(m[15], F[i - 1], i)]
  <2>1. ASSUME NEW i \in 0 .. 15 PROVE F[i] = G[i]
    <3>1. CASE i = 0
      BY <1>4, <3>1
    <3>2. CASE i # 0
      <4>1. i \in 1 .. 15
        BY <3>2
      <4> QED BY <1>5, <3>2, <4>1
    <3> QED BY <3>1, <3>2
  <2>2. F = G
    BY <1>3, <2>1
  <2> QED BY <2>2 DEF Reading
<1>7. UnmarshalBinary(m[15]) = [ok |-> TRUE, task |-> SubSeq(t, 1, 15)]
  <2>1. UnmarshalBinary(m[15]) = [ok |-> F[15].ok, task |-> F[15].task]
    BY <1>6, UnmarshalFields
  <2>2. PICK k \in 0 .. 15 : k = 15
    OBVIOUS
  <2>3. F[k] = [ok |-> TRUE, at |-> Len(m[k]) + 1, task |-> SubSeq(t, 1, k)]
    BY <1>2
  <2>4. F[k].ok = TRUE /\ F[k].task = SubSeq(t, 1, k)
    BY <2>3
  <2> QED BY <2>1, <2>2, <2>4
<1>8. SubSeq(t, 1, 15) = t
  BY TaskFields, SubSeqFull
<1> QED BY <1>1, <1>7, <1>8

-----------------------------------------------------------------------------
(* Submission: what a submitter is told and what a worker gets.            *)

\* The submitters, Redis and a worker by themselves.
SubmissionSpec == SubmissionInit /\ [][SubmissionNext]_submissionVars

\* The tasks of a request that wait for the checks of their queue.
Unprepared(k) == {i \in 1 .. Len(k.tasks) : k.tasks[i] # Nil /\ Queue(k.tasks[i]) \in k.todo}

\* Those that are being sent.
Sending(k) == {k.batch[j] : j \in 1 .. Len(k.batch)}

\* Those that the reply lists.
Listed(k) == k.succeeded \cup k.failed

\* The commands of the chunk that is being sent.
Part(k) == IF Len(k.batch) < ChunkSize THEN Len(k.batch) ELSE ChunkSize

\* A request and what was stored of it have the same tasks.
Formed(k, st) ==
  /\ k \in Calls
  /\ Len(k.errors) = Len(k.tasks)
  /\ st \in Seq(Nat) /\ Len(st) = Len(k.tasks)
  /\ k.phase = "idle" => k = Idle
  /\ k.phase # "sending" => k.batch = <<>>
  /\ k.sent = Len(k.results) /\ k.sent <= Part(k)

\* A task is waiting, being sent or listed, and in one place.
Apart(k) ==
  /\ Sending(k) \cup Listed(k) \subseteq 1 .. Len(k.tasks)
  /\ \A i \in Sending(k) : k.tasks[i] # Nil
  /\ \A i, j \in 1 .. Len(k.batch) : k.batch[i] = k.batch[j] => i = j
  /\ Unprepared(k) \cap Sending(k) = {} /\ Unprepared(k) \cap Listed(k) = {} /\ Sending(k) \cap Listed(k) = {}
  /\ k.stopped => k.failFast /\ k.failed # {}
  /\ k.phase \in {"grouped", "sending"} /\ ~k.stopped =>
       1 .. Len(k.tasks) \subseteq Unprepared(k) \cup Sending(k) \cup Listed(k)

\* What the reply is going to say of listed tasks is true.
ListedTrue(k, st) ==
  /\ \A i \in k.succeeded : st[i] > 0
  /\ \A i \in k.failed : k.errors[i] \in Refusals /\ ~k.broken => st[i] = 0
  /\ \A i \in 1 .. Len(k.tasks) \ k.failed : k.errors[i] = "none"
  /\ \A i \in 1 .. Len(k.tasks) \ (Sending(k) \cup Listed(k)) : st[i] = 0
  /\ ~k.broken => \A i \in 1 .. Len(k.tasks) : st[i] <= 1

\* What the commands of the batch answered, and have yet to answer, is true.
SentTrue(k, st) ==
  \A j \in 1 .. Len(k.batch) :
    /\ j <= k.sent /\ k.results[j] = "ok" => st[k.batch[j]] > 0
    /\ j <= k.sent /\ k.results[j] \in Refusals /\ ~k.broken => st[k.batch[j]] = 0
    /\ j > k.sent /\ ~k.broken => st[k.batch[j]] = 0
    /\ j > Part(k) => st[k.batch[j]] = 0

\* The reply.
Replied(k) ==
  k.phase = "done" =>
    /\ k.reply # "InvalidArgument" /\ ~k.failFast => Listed(k) = 1 .. Len(k.tasks)
    /\ k.reply = "OK" /\ k.failed = {} => Listed(k) = 1 .. Len(k.tasks)

\* A request agrees with what was stored of it.
Consistent(k, st) == Formed(k, st) /\ Apart(k) /\ ListedTrue(k, st) /\ SentTrue(k, st) /\ Replied(k)

\* Every request does.
Requested == \A c \in Clients : Consistent(call[c], stored[c])

\* An entry is a task of a request, encoded by the submitter's codec.
Genuine(e) ==
  /\ e.client \in Clients /\ call[e.client].phase # "idle"
  /\ e.index \in Indexes(e.client)
  /\ Origin(e) # Nil
  /\ e.data = Marshal(setting.clientCodec, Origin(e))

\* The entries that Redis may hold.
Entries ==
  {e \in [client : Clients, index : Nat, data : {Marshal(x, t) : x \in {"json", "binary"}, t \in TaskValues}, at : Nat] :
     Genuine(e)}

\* Redis holds no others.
Stored == stream \in Seq(Entries) /\ delayed \subseteq Entries

\* A worker has seen tasks of requests only.
Seen == \A w \in wrong : w[1] \in Clients /\ call[w[1]].phase # "idle" /\ w[2] \in Indexes(w[1])

\* A request that was not made.
LEMMA IdleConsistent == Consistent(Idle, <<>>)
<1>1. Idle \in Calls
  <2>1. <<>> \in Seq({Nil} \cup TaskValues) /\ <<>> \in Seq(Nat) /\ {} \in SUBSET Seq(Int) /\ {} \in SUBSET Nat
        /\ <<>> \in Seq(Results \cup {"redis"}) /\ <<>> \in Seq(Refusals \cup {"none", "nil", "redis"})
    OBVIOUS
  <2> QED BY <2>1 DEF Idle, Calls
<1>2. /\ Idle.tasks = <<>> /\ Idle.batch = <<>> /\ Idle.succeeded = {} /\ Idle.failed = {} /\ Idle.phase = "idle" /\ Idle.stopped = FALSE
      /\ Idle.errors = <<>> /\ Idle.sent = 0 /\ Idle.results = <<>>
  BY DEF Idle
<1>3. Part(Idle) = 0
  BY <1>2, SubmissionAssumption DEF Part
<1>4. Sending(Idle) = {} /\ Listed(Idle) = {} /\ Unprepared(Idle) = {}
  BY <1>2 DEF Sending, Listed, Unprepared
<1>5. Formed(Idle, <<>>)
  BY <1>1, <1>2, <1>3 DEF Formed
<1>6. Apart(Idle) /\ ListedTrue(Idle, <<>>) /\ SentTrue(Idle, <<>>) /\ Replied(Idle)
  BY <1>2, <1>4 DEF Apart, ListedTrue, SentTrue, Replied
<1> QED BY <1>5, <1>6 DEF Consistent

\* The chunk is a part of the batch.
LEMMA PartOfBatch ==
  ASSUME NEW k \in Calls
  PROVE  Part(k) \in 0 .. Len(k.batch) /\ Part(k) \in Nat /\ Len(k.batch) \in Nat /\ (Len(k.batch) > 0 => Part(k) > 0)
<1>1. k.batch \in Seq(Nat)
  BY DEF Calls
<1>2. ChunkSize \in Nat /\ ChunkSize > 0
  BY SubmissionAssumption
<1> QED BY <1>1, <1>2 DEF Part

\* The tasks of a request stay where they are.
LEMMA SamePlaces ==
  ASSUME NEW k, NEW k2, Apart(k), k2.tasks = k.tasks, k2.todo = k.todo, k2.batch = k.batch, k2.succeeded = k.succeeded,
         k2.failed = k.failed, k2.stopped = k.stopped, k2.failFast = k.failFast, k2.phase = k.phase
  PROVE  Apart(k2)
<1>1. Sending(k2) = Sending(k) /\ Listed(k2) = Listed(k) /\ Unprepared(k2) = Unprepared(k)
  BY DEF Sending, Listed, Unprepared
<1> QED BY <1>1 DEF Apart

\* The Redis client sends the chunk again.
LEMMA ResendConsistent ==
  ASSUME NEW k, NEW st, Consistent(k, st), k.phase = "sending", NEW k2,
         k2 = [k EXCEPT !.sent = 0, !.results = <<>>, !.broken = TRUE]
  PROVE  Consistent(k2, st)
<1>1. k \in Calls
  BY DEF Consistent, Formed
<1>2. k2 \in Calls
  <2>1. <<>> \in Seq(Results \cup {"redis"}) /\ Len(<<>>) = 0
    OBVIOUS
  <2> QED BY <1>1, <2>1 DEF Calls
<1>3. /\ k2.sent = 0 /\ k2.results = <<>> /\ k2.broken = TRUE /\ k2.phase = k.phase /\ k2.tasks = k.tasks /\ k2.todo = k.todo
      /\ k2.batch = k.batch /\ k2.errors = k.errors /\ k2.succeeded = k.succeeded /\ k2.failed = k.failed
      /\ k2.stopped = k.stopped /\ k2.failFast = k.failFast /\ k2.reply = k.reply
  BY <1>1 DEF Calls
<1> HIDE DEF Calls
<1>4. Sending(k2) = Sending(k) /\ Listed(k2) = Listed(k) /\ Unprepared(k2) = Unprepared(k) /\ Part(k2) = Part(k)
  BY <1>3 DEF Sending, Listed, Unprepared, Part
<1>5. Formed(k2, st)
  BY <1>2, <1>3, <1>4, PartOfBatch DEF Consistent, Formed
<1>6. Apart(k2)
  BY <1>3, SamePlaces DEF Consistent
<1>7. ListedTrue(k2, st)
  BY <1>3, <1>4 DEF Consistent, ListedTrue
<1>8. SentTrue(k2, st)
  <2>1. Part(k) \in Nat /\ Len(k.batch) \in Nat
    BY <1>1, PartOfBatch
  <2> QED BY <1>3, <1>4, <2>1 DEF Consistent, SentTrue
<1>9. Replied(k2)
  BY <1>3 DEF Replied
<1> QED BY <1>5, <1>6, <1>7, <1>8, <1>9 DEF Consistent

\* The connection breaks.
LEMMA BreakConsistent ==
  ASSUME NEW k, NEW st, Consistent(k, st), k.phase = "sending", NEW read \in Nat, read <= k.sent, NEW k2,
         k2 = [k EXCEPT !.sent = Part(k), !.results = [j \in 1 .. Part(k) |-> IF j <= read THEN @[j] ELSE "redis"],
                        !.broken = TRUE]
  PROVE  Consistent(k2, st)
<1>1. k \in Calls
  BY DEF Consistent, Formed
<1>2. /\ Part(k) \in Nat /\ Len(k.batch) \in Nat /\ k.results \in Seq(Results \cup {"redis"})
      /\ k.sent = Len(k.results) /\ k.sent <= Part(k) /\ k.sent \in Nat
  BY <1>1, PartOfBatch DEF Consistent, Formed, Calls
<1> DEFINE rs == [j \in 1 .. Part(k) |-> IF j <= read THEN k.results[j] ELSE "redis"]
<1>3. rs \in [1 .. Part(k) -> Results \cup {"redis"}]
  <2>1. ASSUME NEW j \in 1 .. Part(k), j <= read PROVE k.results[j] \in Results \cup {"redis"}
    <3>1. j \in 1 .. Len(k.results)
      BY <1>2, <2>1
    <3> QED BY <1>2, <3>1
  <2> QED BY <2>1
<1>4. rs \in Seq(Results \cup {"redis"}) /\ Len(rs) = Part(k)
  <2>1. rs \in Seq(Results \cup {"redis"})
    BY <1>2, <1>3, SeqDef
  <2> QED BY <1>2, <1>3, <2>1
<1>5. k2 = [k EXCEPT !.sent = Part(k), !.results = rs, !.broken = TRUE]
  BY <1>1 DEF Calls
<1>6. ASSUME NEW j \in 1 .. Part(k) PROVE rs[j] = IF j <= read THEN k.results[j] ELSE "redis"
  OBVIOUS
<1> HIDE DEF rs
<1>7. k2 \in Calls
  BY <1>1, <1>2, <1>4, <1>5 DEF Calls
<1>8. /\ k2.sent = Part(k) /\ k2.results = rs /\ k2.broken = TRUE /\ k2.phase = k.phase /\ k2.tasks = k.tasks /\ k2.todo = k.todo
      /\ k2.batch = k.batch /\ k2.errors = k.errors /\ k2.succeeded = k.succeeded /\ k2.failed = k.failed
      /\ k2.stopped = k.stopped /\ k2.failFast = k.failFast /\ k2.reply = k.reply
  BY <1>1, <1>5 DEF Calls
<1>9. Sending(k2) = Sending(k) /\ Listed(k2) = Listed(k) /\ Unprepared(k2) = Unprepared(k) /\ Part(k2) = Part(k)
  BY <1>8 DEF Sending, Listed, Unprepared, Part
<1>10. Formed(k2, st)
  BY <1>2, <1>4, <1>7, <1>8, <1>9 DEF Consistent, Formed
<1>11. Apart(k2)
  BY <1>8, SamePlaces DEF Consistent
<1>12. ListedTrue(k2, st)
  BY <1>8, <1>9 DEF Consistent, ListedTrue
<1>13. SentTrue(k2, st)
  <2> SUFFICES ASSUME NEW j \in 1 .. Len(k.batch)
               PROVE  /\ j <= Part(k) /\ rs[j] = "ok" => st[k.batch[j]] > 0
                      /\ j > Part(k) => st[k.batch[j]] = 0
    BY <1>8, <1>9 DEF SentTrue
  <2>1. j > Part(k) => st[k.batch[j]] = 0
    BY DEF Consistent, SentTrue
  <2>2. ASSUME j <= Part(k), rs[j] = "ok" PROVE st[k.batch[j]] > 0
    <3>1. j \in 1 .. Part(k)
      BY <1>2, <2>2
    <3>2. j <= read /\ k.results[j] = "ok"
      BY <1>6, <2>2, <3>1
    <3>3. j <= k.sent
      BY <1>2, <3>2
    <3> QED BY <3>2, <3>3 DEF Consistent, SentTrue
  <2> QED BY <2>1, <2>2
<1>14. Replied(k2)
  BY <1>8 DEF Replied
<1> QED BY <1>10, <1>11, <1>12, <1>13, <1>14 DEF Consistent

\* The reply.
LEMMA AnswerConsistent ==
  ASSUME NEW k, NEW st, Consistent(k, st), k.phase = "grouped", k.stopped \/ k.todo = {},
         NEW reply \in {"OK", "Internal", "MultiStatus"}, NEW k2,
         k2 = [k EXCEPT !.phase = "done", !.reply = reply]
  PROVE  Consistent(k2, st)
<1>1. k \in Calls
  BY DEF Consistent, Formed
<1>2. k2 \in Calls
  BY <1>1 DEF Calls
<1>3. /\ k2.sent = k.sent /\ k2.results = k.results /\ k2.broken = k.broken /\ k2.phase = "done" /\ k2.tasks = k.tasks /\ k2.todo = k.todo
      /\ k2.batch = k.batch /\ k2.errors = k.errors /\ k2.succeeded = k.succeeded /\ k2.failed = k.failed
      /\ k2.stopped = k.stopped /\ k2.failFast = k.failFast /\ k2.reply = reply
  BY <1>1 DEF Calls
<1>4. Sending(k2) = Sending(k) /\ Listed(k2) = Listed(k) /\ Unprepared(k2) = Unprepared(k) /\ Part(k2) = Part(k)
  BY <1>3 DEF Sending, Listed, Unprepared, Part
<1>5. Formed(k2, st)
  BY <1>2, <1>3, <1>4 DEF Consistent, Formed
<1>6. Apart(k2)
  BY <1>3, <1>4 DEF Consistent, Apart
<1>7. ListedTrue(k2, st)
  BY <1>3, <1>4 DEF Consistent, ListedTrue
<1>8. SentTrue(k2, st)
  BY <1>3, <1>4 DEF Consistent, SentTrue
<1>9. Replied(k2)
  <2>1. Sending(k) = {}
    <3>1. k.batch = <<>>
      BY DEF Consistent, Formed
    <3> QED BY <3>1 DEF Sending
  <2>2. k.failFast = FALSE \/ k.failed = {} => ~k.stopped
    BY DEF Consistent, Apart
  <2>3. ~k.stopped => Unprepared(k) = {}
    BY DEF Unprepared
  <2>4. ~k.stopped => Listed(k) = 1 .. Len(k.tasks)
    BY <2>1, <2>3 DEF Consistent, Apart
  <2>5. ~k.failFast \/ k.failed = {} => Listed(k) = 1 .. Len(k.tasks)
    BY <2>2, <2>4
  <2> QED BY <1>3, <1>4, <2>5 DEF Replied
<1> QED BY <1>5, <1>6, <1>7, <1>8, <1>9 DEF Consistent

\* What a command makes of a request: it answers, and stores task i or not.
Ran(k, st, result, i, k2, st2) ==
  /\ k.phase = "sending" /\ k.sent < Part(k) /\ result \in Results
  /\ i = k.batch[k.sent + 1]
  /\ k2 = [k EXCEPT !.sent = @ + 1, !.results = Append(@, result)]
  /\ st2 = IF result = "ok" THEN [st EXCEPT ![i] = @ + 1] ELSE st

\* Redis runs a command.
LEMMA RunConsistent ==
  ASSUME NEW k, NEW st, Consistent(k, st), NEW result, NEW i, NEW k2, NEW st2, Ran(k, st, result, i, k2, st2)
  PROVE  Consistent(k2, st2) /\ i \in 1 .. Len(k.tasks) /\ k.tasks[i] # Nil
<1>a. /\ k.phase = "sending" /\ k.sent < Part(k) /\ result \in Results
      /\ i = k.batch[k.sent + 1]
      /\ k2 = [k EXCEPT !.sent = @ + 1, !.results = Append(@, result)]
      /\ st2 = IF result = "ok" THEN [st EXCEPT ![i] = @ + 1] ELSE st
  BY DEF Ran
<1>1. k \in Calls
  BY DEF Consistent, Formed
<1>2. /\ Part(k) \in 0 .. Len(k.batch) /\ Len(k.batch) \in Nat /\ k.results \in Seq(Results \cup {"redis"})
      /\ k.sent = Len(k.results) /\ k.sent <= Part(k) /\ k.sent \in Nat
      /\ Len(k.tasks) \in Nat
  <2>1. k.results \in Seq(Results \cup {"redis"}) /\ k.sent \in Nat /\ k.tasks \in Seq({Nil} \cup TaskValues)
    BY <1>1 DEF Calls
  <2>2. Len(k.tasks) \in Nat
    BY <2>1
  <2>3. k.sent = Len(k.results) /\ k.sent <= Part(k)
    BY DEF Consistent, Formed
  <2> QED BY <1>1, <2>1, <2>2, <2>3, PartOfBatch
<1>3. PICK p \in 1 .. Len(k.batch) : p = k.sent + 1
  <2>1. k.sent + 1 \in 1 .. Len(k.batch)
    BY <1>2, <1>a
  <2> QED BY <2>1
<1>4. i = k.batch[p] /\ i \in Sending(k)
  BY <1>3, <1>a DEF Sending
<1>5. i \in 1 .. Len(k.tasks) /\ k.tasks[i] # Nil /\ i \notin Listed(k)
  BY <1>4 DEF Consistent, Apart
<1>6. PICK rs \in Seq(Results \cup {"redis"}) : rs = Append(k.results, result) /\ Len(rs) = p
        /\ rs[p] = result /\ \A j \in 1 .. Len(k.results) : rs[j] = k.results[j]
  <2>1. result \in Results \cup {"redis"}
    BY <1>a
  <2>2. PICK r \in Seq(Results \cup {"redis"}) : r = k.results
    BY <1>2
  <2>3. /\ Append(r, result) \in Seq(Results \cup {"redis"}) /\ Len(Append(r, result)) = Len(r) + 1
        /\ \A j \in 1 .. Len(r) : Append(r, result)[j] = r[j] /\ Append(r, result)[Len(r) + 1] = result
    BY <2>1, AppendProperties
  <2>4. Append(r, result)[Len(r) + 1] = result
    BY <2>1, AppendProperties
  <2> QED BY <1>2, <1>3, <2>2, <2>3, <2>4
<1>7. k2 \in Calls
  <2>1. k2 = [k EXCEPT !.sent = p, !.results = rs]
    BY <1>3, <1>6, <1>a
  <2>2. p \in Nat
    OBVIOUS
  <2> QED BY <1>1, <2>1, <2>2 DEF Calls
<1>8. /\ k2.sent = p /\ k2.results = rs /\ k2.broken = k.broken /\ k2.phase = k.phase /\ k2.tasks = k.tasks /\ k2.todo = k.todo
      /\ k2.batch = k.batch /\ k2.errors = k.errors /\ k2.succeeded = k.succeeded /\ k2.failed = k.failed
      /\ k2.stopped = k.stopped /\ k2.failFast = k.failFast /\ k2.reply = k.reply
  BY <1>1, <1>3, <1>6, <1>a DEF Calls
<1>9. Sending(k2) = Sending(k) /\ Listed(k2) = Listed(k) /\ Unprepared(k2) = Unprepared(k) /\ Part(k2) = Part(k)
  BY <1>8 DEF Sending, Listed, Unprepared, Part
<1>10. /\ st \in Seq(Nat) /\ Len(st) = Len(k.tasks)
       /\ st2 \in Seq(Nat) /\ Len(st2) = Len(st)
       /\ st2[i] = IF result = "ok" THEN st[i] + 1 ELSE st[i]
       /\ \A x \in 1 .. Len(k.tasks) : x # i => st2[x] = st[x]
       /\ \A x \in 1 .. Len(k.tasks) : st[x] \in Nat
  <2>1. st \in Seq(Nat) /\ Len(st) = Len(k.tasks)
    BY DEF Consistent, Formed
  <2>2. \A x \in 1 .. Len(k.tasks) : st[x] \in Nat
    BY <2>1
  <2>3. CASE result = "ok"
    <3>1. st2 = [st EXCEPT ![i] = st[i] + 1]
      BY <1>a, <2>3
    <3>2. st[i] + 1 \in Nat /\ i \in 1 .. Len(st)
      BY <1>5, <2>1, <2>2
    <3>3. st2 \in Seq(Nat) /\ Len(st2) = Len(st) /\ st2[i] = st[i] + 1
          /\ \A x \in 1 .. Len(st) : x # i => st2[x] = st[x]
      BY <2>1, <3>1, <3>2
    <3> QED BY <2>1, <2>2, <2>3, <3>3
  <2>4. CASE result # "ok"
    BY <1>a, <2>1, <2>2, <2>4
  <2> QED BY <2>3, <2>4
<1>11. Formed(k2, st2)
  BY <1>2, <1>3, <1>6, <1>7, <1>8, <1>9, <1>10, <1>a DEF Consistent, Formed
<1>12. Apart(k2)
  BY <1>8, SamePlaces DEF Consistent
<1>13. k.broken \/ st[i] = 0
  BY <1>2, <1>3, <1>4, <1>a DEF Consistent, SentTrue
<1>14. ListedTrue(k2, st2)
  <2>1. \A x \in k.succeeded : st2[x] > 0
    BY <1>5, <1>10 DEF Consistent, ListedTrue, Listed, Apart
  <2>2. \A x \in k.failed : k.errors[x] \in Refusals /\ ~k.broken => st2[x] = 0
    BY <1>5, <1>10 DEF Consistent, ListedTrue, Listed, Apart
  <2>3. \A x \in 1 .. Len(k.tasks) \ (Sending(k) \cup Listed(k)) : st2[x] = 0
    BY <1>4, <1>10 DEF Consistent, ListedTrue
  <2>4. ~k.broken => \A x \in 1 .. Len(k.tasks) : st2[x] <= 1
    BY <1>5, <1>10, <1>13 DEF Consistent, ListedTrue
  <2>5. \A x \in 1 .. Len(k.tasks) \ k.failed : k.errors[x] = "none"
    BY DEF Consistent, ListedTrue
  <2> QED BY <1>8, <1>9, <2>1, <2>2, <2>3, <2>4, <2>5 DEF ListedTrue
<1>15. SentTrue(k2, st2)
  <2> SUFFICES ASSUME NEW j \in 1 .. Len(k.batch)
               PROVE  /\ j <= p /\ rs[j] = "ok" => st2[k.batch[j]] > 0
                      /\ j <= p /\ rs[j] \in Refusals /\ ~k.broken => st2[k.batch[j]] = 0
                      /\ j > p /\ ~k.broken => st2[k.batch[j]] = 0
                      /\ j > Part(k) => st2[k.batch[j]] = 0
    BY <1>8, <1>9 DEF SentTrue
  <2>1. CASE j = p
    <3>1. ~(j > Part(k)) /\ ~(j > p) /\ "ok" \notin Refusals
      BY <1>2, <1>3, <1>a, <2>1 DEF Refusals
    <3>2. rs[j] = result /\ k.batch[j] = i
      BY <1>4, <1>6, <2>1
    <3>3. st[i] \in Nat
      BY <1>5, <1>10
    <3>4. (result = "ok" => st2[i] > 0) /\ (result # "ok" /\ ~k.broken => st2[i] = 0)
      BY <1>10, <1>13, <3>3
    <3> QED BY <3>1, <3>2, <3>4
  <2>2. CASE j # p
    <3>1. k.batch[j] # i /\ k.batch[j] \in 1 .. Len(k.tasks)
      BY <1>4, <2>2 DEF Consistent, Apart, Sending
    <3>2. st2[k.batch[j]] = st[k.batch[j]]
      BY <1>10, <3>1
    <3>3. j <= p => j <= k.sent /\ rs[j] = k.results[j]
      BY <1>2, <1>3, <1>6, <2>2
    <3>4. j > p => j > k.sent
      BY <1>2, <1>3
    <3> QED BY <3>2, <3>3, <3>4 DEF Consistent, SentTrue
  <2> QED BY <2>1, <2>2
<1>16. Replied(k2)
  BY <1>8, <1>a DEF Replied
<1> QED BY <1>5, <1>11, <1>12, <1>14, <1>15, <1>16 DEF Consistent

\* What collecting a chunk makes of a request: tasks G were accepted and B not.
Collected(k, good, bad, G, B, er, stop, rest, k2) ==
  /\ k.phase = "sending" /\ k.sent = Part(k)
  /\ good = {j \in 1 .. Part(k) : k.results[j] = "ok"} /\ bad = (1 .. Part(k)) \ good
  /\ G = {k.batch[j] : j \in good} /\ B = {k.batch[j] : j \in bad}
  /\ er \in Seq(Refusals \cup {"none", "nil", "redis"}) /\ Len(er) = Len(k.errors)
  /\ \A x \in (1 .. Len(k.tasks)) \ B : er[x] = k.errors[x]
  /\ \A j \in bad : er[k.batch[j]] = k.results[j]
  /\ stop \in BOOLEAN /\ (stop => k.failFast /\ bad # {})
  /\ rest \in Seq(Nat) /\ (stop => rest = <<>>) /\ (~stop => Len(rest) = Len(k.batch) - Part(k))
  /\ \A j \in 1 .. Len(rest) : rest[j] = k.batch[Part(k) + j]
  /\ k2 = [k EXCEPT !.succeeded = @ \cup G, !.failed = @ \cup B, !.errors = er, !.stopped = @ \/ stop,
                    !.batch = rest, !.sent = 0, !.results = <<>>,
                    !.phase = IF rest = <<>> THEN "grouped" ELSE "sending"]

\* The results of a chunk are noted.
LEMMA CollectConsistent ==
  ASSUME NEW k, NEW st, Consistent(k, st), NEW good, NEW bad, NEW G, NEW B, NEW er, NEW stop, NEW rest, NEW k2,
         Collected(k, good, bad, G, B, er, stop, rest, k2)
  PROVE  Consistent(k2, st)
<1>a. /\ k.phase = "sending" /\ k.sent = Part(k)
      /\ good = {j \in 1 .. Part(k) : k.results[j] = "ok"} /\ bad = (1 .. Part(k)) \ good
  BY DEF Collected
<1>b. G = {k.batch[j] : j \in good} /\ B = {k.batch[j] : j \in bad}
  BY DEF Collected
<1>c. er \in Seq(Refusals \cup {"none", "nil", "redis"}) /\ Len(er) = Len(k.errors)
  BY DEF Collected
<1>d. /\ \A x \in (1 .. Len(k.tasks)) \ B : er[x] = k.errors[x]
      /\ \A j \in bad : er[k.batch[j]] = k.results[j]
  BY DEF Collected
<1>e. /\ stop \in BOOLEAN /\ (stop => k.failFast /\ bad # {})
      /\ rest \in Seq(Nat) /\ (stop => rest = <<>>) /\ (~stop => Len(rest) = Len(k.batch) - Part(k))
  BY DEF Collected
<1>f. \A j \in 1 .. Len(rest) : rest[j] = k.batch[Part(k) + j]
  BY DEF Collected
<1>g. k2 = [k EXCEPT !.succeeded = @ \cup G, !.failed = @ \cup B, !.errors = er, !.stopped = @ \/ stop,
                    !.batch = rest, !.sent = 0, !.results = <<>>,
                    !.phase = IF rest = <<>> THEN "grouped" ELSE "sending"]
  BY DEF Collected
<1>1. k \in Calls
  BY DEF Consistent, Formed
<1>2. /\ Part(k) \in 0 .. Len(k.batch) /\ Part(k) \in Nat /\ Len(k.batch) \in Nat /\ Len(k.tasks) \in Nat
      /\ k.results \in Seq(Results \cup {"redis"}) /\ Len(k.results) = Part(k) /\ Len(rest) \in Nat
  <2>1. k.results \in Seq(Results \cup {"redis"}) /\ k.tasks \in Seq({Nil} \cup TaskValues)
    BY <1>1 DEF Calls
  <2>2. Len(k.tasks) \in Nat /\ Len(rest) \in Nat
    BY <1>e, <2>1
  <2>3. k.sent = Len(k.results)
    BY DEF Consistent, Formed
  <2> QED BY <1>1, <1>a, <2>1, <2>2, <2>3, PartOfBatch
<1>3. /\ good \subseteq 1 .. Len(k.batch) /\ bad \subseteq 1 .. Len(k.batch) /\ good \cap bad = {}
      /\ good \cup bad = 1 .. Part(k)
  BY <1>2, <1>a
<1>4. G \cup B \subseteq Sending(k)
  BY <1>3, <1>b DEF Sending
<1>5. Sending(k) \subseteq 1 .. Len(k.tasks) /\ Listed(k) \subseteq 1 .. Len(k.tasks)
  BY DEF Consistent, Apart
<1>6. G \subseteq Nat /\ B \subseteq Nat
  BY <1>4, <1>5
<1>7. k2 \in Calls
  <2>1. <<>> \in Seq(Results \cup {"redis"})
    OBVIOUS
  <2>2. k.succeeded \cup G \in SUBSET Nat /\ k.failed \cup B \in SUBSET Nat /\ (k.stopped \/ stop) \in BOOLEAN
    BY <1>1, <1>6, <1>e DEF Calls
  <2>3. PICK succeeded \in SUBSET Nat : succeeded = k.succeeded \cup G
    BY <2>2
  <2>4. PICK failed \in SUBSET Nat : failed = k.failed \cup B
    BY <2>2
  <2>5. PICK halted \in BOOLEAN : halted = (k.stopped \/ stop)
    BY <2>2
  <2>6. PICK phase \in {"grouped", "sending"} : phase = IF rest = <<>> THEN "grouped" ELSE "sending"
    OBVIOUS
  <2>7. PICK results \in Seq(Results \cup {"redis"}) : results = <<>>
    BY <2>1
  <2>8. k2 = [k EXCEPT !.succeeded = succeeded, !.failed = failed, !.errors = er, !.stopped = halted,
                       !.batch = rest, !.sent = 0, !.results = results, !.phase = phase]
    BY <1>g, <2>3, <2>4, <2>5, <2>6, <2>7
  <2>9. er \in Seq(Refusals \cup {"none", "nil", "redis"}) /\ rest \in Seq(Nat) /\ 0 \in Nat
    BY <1>c, <1>e
  <2> QED BY <1>1, <2>8, <2>9 DEF Calls
<1>8. /\ k2.sent = 0 /\ k2.results = <<>> /\ k2.broken = k.broken /\ k2.tasks = k.tasks /\ k2.todo = k.todo
      /\ k2.batch = rest /\ k2.errors = er /\ k2.succeeded = k.succeeded \cup G /\ k2.failed = k.failed \cup B
      /\ k2.stopped = (k.stopped \/ stop) /\ k2.failFast = k.failFast /\ k2.reply = k.reply
      /\ k2.phase = IF rest = <<>> THEN "grouped" ELSE "sending"
  BY <1>1, <1>g DEF Calls
<1>9. Unprepared(k2) = Unprepared(k) /\ Listed(k2) = Listed(k) \cup G \cup B
  BY <1>8 DEF Unprepared, Listed
<1>10. Sending(k2) = {rest[j] : j \in 1 .. Len(rest)}
  BY <1>8 DEF Sending
<1>11. ASSUME NEW j \in 1 .. Len(rest)
       PROVE  \E p \in 1 .. Len(k.batch) : p > Part(k) /\ rest[j] = k.batch[p] /\ rest[j] \in Sending(k) /\ p = Part(k) + j
  <2>1. stop = FALSE
    BY <1>11, <1>e
  <2>2. Part(k) + j \in 1 .. Len(k.batch) /\ Part(k) + j > Part(k)
    BY <1>2, <1>e, <2>1
  <2>3. k.batch[Part(k) + j] \in Sending(k)
    BY <2>2 DEF Sending
  <2> QED BY <1>f, <2>2, <2>3
<1>12. Sending(k2) \subseteq Sending(k) /\ Sending(k2) \cap (G \cup B) = {}
  <2>1. Sending(k2) \subseteq Sending(k)
    BY <1>10, <1>11
  <2>2. ASSUME NEW j \in 1 .. Len(rest), NEW x \in good \cup bad PROVE rest[j] # k.batch[x]
    <3>1. PICK p \in 1 .. Len(k.batch) : p > Part(k) /\ rest[j] = k.batch[p]
      BY <1>11
    <3>2. x \in 1 .. Len(k.batch) /\ x # p
      BY <1>2, <1>3, <3>1
    <3> QED BY <3>1, <3>2 DEF Consistent, Apart
  <2> QED BY <1>10, <1>b, <2>1, <2>2
<1>13. ASSUME NEW x \in Sending(k)
       PROVE  x \in G \cup B \/ \E p \in 1 .. Len(k.batch) : x = k.batch[p] /\ p > Part(k)
  <2>1. PICK p \in 1 .. Len(k.batch) : x = k.batch[p]
    BY DEF Sending
  <2>2. CASE p <= Part(k)
    <3>1. p \in good \cup bad
      BY <1>2, <1>3, <2>2
    <3> QED BY <1>b, <2>1, <3>1
  <2>3. CASE p > Part(k)
    BY <2>1, <2>3
  <2> QED BY <1>2, <2>2, <2>3
<1>14. ~stop => Sending(k) \subseteq Sending(k2) \cup G \cup B
  <2> SUFFICES ASSUME ~stop, NEW x \in Sending(k), NEW p \in 1 .. Len(k.batch), x = k.batch[p], p > Part(k)
               PROVE  x \in Sending(k2)
    BY <1>13
  <2>1. PICK j \in 1 .. Len(rest) : p = Part(k) + j
    <3>1. p - Part(k) \in 1 .. Len(rest) /\ p = Part(k) + (p - Part(k))
      BY <1>2, <1>e
    <3> QED BY <3>1
  <2> QED BY <1>10, <1>f, <2>1
<1>15. Part(k2) \in Nat /\ Part(k2) >= 0
  BY <1>7, PartOfBatch
<1>16. Formed(k2, st)
  <2>1. Len(<<>>) = 0 /\ st \in Seq(Nat) /\ Len(st) = Len(k.tasks) /\ Len(er) = Len(k.tasks)
    BY <1>c DEF Consistent, Formed
  <2> QED BY <1>7, <1>8, <1>15, <2>1 DEF Formed
<1>17. Apart(k2)
  <2>1. Sending(k2) \cup Listed(k2) \subseteq 1 .. Len(k.tasks)
    BY <1>4, <1>5, <1>9, <1>12, Zenon
  <2>2. \A i \in Sending(k2) : k.tasks[i] # Nil
    BY <1>12 DEF Consistent, Apart
  <2>3. ASSUME NEW i \in 1 .. Len(rest), NEW j \in 1 .. Len(rest), rest[i] = rest[j] PROVE i = j
    <3>1. PICK p \in 1 .. Len(k.batch) : rest[i] = k.batch[p] /\ p = Part(k) + i
      BY <1>11
    <3>2. PICK q \in 1 .. Len(k.batch) : rest[j] = k.batch[q] /\ q = Part(k) + j
      BY <1>11
    <3>3. p = q
      BY <2>3, <3>1, <3>2 DEF Consistent, Apart
    <3> QED BY <1>2, <3>1, <3>2, <3>3
  <2>4. Unprepared(k) \cap Sending(k2) = {} /\ Unprepared(k) \cap Listed(k2) = {} /\ Sending(k2) \cap Listed(k2) = {}
    BY <1>4, <1>9, <1>12 DEF Consistent, Apart
  <2>5. bad # {} => B # {}
    BY <1>b
  <2>6. k2.stopped => k2.failFast /\ k2.failed # {}
    BY <1>8, <1>e, <2>5 DEF Consistent, Apart
  <2>7. ~k2.stopped => 1 .. Len(k.tasks) \subseteq Unprepared(k2) \cup Sending(k2) \cup Listed(k2)
    BY <1>8, <1>9, <1>14, <1>a DEF Consistent, Apart
  <2> QED BY <1>8, <1>9, <2>1, <2>2, <2>3, <2>4, <2>6, <2>7 DEF Apart
<1>18. ListedTrue(k2, st)
  <2>1. ASSUME NEW x \in k.succeeded \cup G PROVE st[x] > 0
    <3>1. CASE x \in k.succeeded
      BY <3>1 DEF Consistent, ListedTrue
    <3>2. CASE x \in G
      <4>1. PICK j \in good : x = k.batch[j]
        BY <1>b, <3>2
      <4>2. j \in 1 .. Len(k.batch) /\ j <= k.sent /\ k.results[j] = "ok"
        BY <1>2, <1>3, <1>a
      <4> QED BY <4>1, <4>2 DEF Consistent, SentTrue
    <3> QED BY <3>1, <3>2
  <2>2. ASSUME NEW x \in k.failed \cup B, er[x] \in Refusals, ~k.broken PROVE st[x] = 0
    <3>1. CASE x \in B
      <4>1. PICK j \in bad : x = k.batch[j]
        BY <1>b, <3>1
      <4>2. j \in 1 .. Len(k.batch) /\ j <= k.sent /\ k.results[j] \in Refusals
        BY <1>2, <1>3, <1>a, <1>d, <2>2, <4>1
      <4> QED BY <2>2, <4>1, <4>2 DEF Consistent, SentTrue
    <3>2. CASE x \notin B
      <4>1. x \in k.failed /\ x \in 1 .. Len(k.tasks)
        BY <1>5, <3>2 DEF Listed
      <4>2. er[x] = k.errors[x]
        BY <1>d, <3>2, <4>1
      <4> QED BY <2>2, <4>1, <4>2 DEF Consistent, ListedTrue
    <3> QED BY <3>1, <3>2
  <2>3. ASSUME NEW x \in 1 .. Len(k.tasks), x \notin k.failed \cup B PROVE er[x] = "none"
    BY <1>d, <2>3 DEF Consistent, ListedTrue
  <2>4. ASSUME NEW x \in 1 .. Len(k.tasks), x \notin Sending(k2) \cup Listed(k2) PROVE st[x] = 0
    <3>1. CASE x \in Sending(k)
      <4>1. PICK p \in 1 .. Len(k.batch) : x = k.batch[p] /\ p > Part(k)
        BY <1>9, <1>13, <2>4, <3>1
      <4> QED BY <4>1 DEF Consistent, SentTrue
    <3>2. CASE x \notin Sending(k)
      BY <1>9, <2>4, <3>2 DEF Consistent, ListedTrue
    <3> QED BY <3>1, <3>2
  <2>5. ~k.broken => \A x \in 1 .. Len(k.tasks) : st[x] <= 1
    BY DEF Consistent, ListedTrue
  <2> QED BY <1>8, <2>1, <2>2, <2>3, <2>4, <2>5 DEF ListedTrue
<1>19. SentTrue(k2, st)
  <2>1. ASSUME NEW j \in 1 .. Len(rest) PROVE st[rest[j]] = 0 /\ ~(j <= 0)
    BY <1>11 DEF Consistent, SentTrue
  <2> QED BY <1>8, <2>1 DEF SentTrue
<1>20. Replied(k2)
  BY <1>8 DEF Replied
<1> QED BY <1>16, <1>17, <1>18, <1>19, <1>20 DEF Consistent

\* What preparing queue q makes of a request: the checks refuse tasks large and
\* far, and batch holds the others of the queue.
Prepared(k, q, large, far, er, stop, batch, k2) ==
  LET of == {i \in 1 .. Len(k.tasks) : k.tasks[i] # Nil /\ Queue(k.tasks[i]) = q}
      sent == {batch[j] : j \in 1 .. Len(batch)} IN
  /\ k.phase = "grouped" /\ ~k.stopped /\ q \in k.todo
  /\ large \cup far \cup sent \subseteq of /\ sent \cap (large \cup far) = {}
  /\ er \in Seq(Refusals \cup {"none", "nil", "redis"}) /\ Len(er) = Len(k.errors)
  /\ \A x \in (1 .. Len(k.tasks)) \ (large \cup far) : er[x] = k.errors[x]
  /\ stop \in BOOLEAN /\ (stop => k.failFast /\ large # {}) /\ (~stop => of \subseteq large \cup far \cup sent)
  /\ batch \in Seq(Nat)
  /\ \A i, j \in 1 .. Len(batch) : batch[i] = batch[j] => i = j
  /\ k2 = [k EXCEPT !.todo = @ \ {q}, !.errors = er, !.failed = @ \cup large \cup far, !.stopped = stop,
                    !.phase = "sending", !.batch = batch, !.sent = 0, !.results = <<>>]

\* A queue is checked.
LEMMA PrepareConsistent ==
  ASSUME NEW k, NEW st, Consistent(k, st), NEW q, NEW large, NEW far, NEW er, NEW stop, NEW batch, NEW k2,
         Prepared(k, q, large, far, er, stop, batch, k2)
  PROVE  Consistent(k2, st)
<1> DEFINE of == {i \in 1 .. Len(k.tasks) : k.tasks[i] # Nil /\ Queue(k.tasks[i]) = q}
           sent == {batch[j] : j \in 1 .. Len(batch)}
<1>a. k.phase = "grouped" /\ ~k.stopped /\ q \in k.todo
  BY DEF Prepared
<1>b. large \cup far \cup sent \subseteq of /\ sent \cap (large \cup far) = {}
  BY DEF Prepared
<1>c. er \in Seq(Refusals \cup {"none", "nil", "redis"}) /\ Len(er) = Len(k.errors)
  BY DEF Prepared
<1>d. \A x \in (1 .. Len(k.tasks)) \ (large \cup far) : er[x] = k.errors[x]
  BY DEF Prepared
<1>e. stop \in BOOLEAN /\ (stop => k.failFast /\ large # {}) /\ (~stop => of \subseteq large \cup far \cup sent)
  BY DEF Prepared
<1>f. batch \in Seq(Nat) /\ \A i, j \in 1 .. Len(batch) : batch[i] = batch[j] => i = j
  BY DEF Prepared
<1>g. k2 = [k EXCEPT !.todo = @ \ {q}, !.errors = er, !.failed = @ \cup large \cup far, !.stopped = stop,
                    !.phase = "sending", !.batch = batch, !.sent = 0, !.results = <<>>]
  BY DEF Prepared
<1>1. k \in Calls
  BY DEF Consistent, Formed
<1>2. of \subseteq 1 .. Len(k.tasks) /\ of \subseteq Unprepared(k) /\ of \subseteq Nat /\ \A i \in of : k.tasks[i] # Nil
  BY <1>a DEF Unprepared
<1>3. Unprepared(k) \cap Listed(k) = {}
  BY DEF Consistent, Apart
<1>4. Listed(k) \subseteq 1 .. Len(k.tasks)
  BY DEF Consistent, Apart
<1>5. Sending(k) = {} /\ k.batch = <<>>
  <2>1. k.batch = <<>>
    BY <1>a DEF Consistent, Formed
  <2> QED BY <2>1 DEF Sending
<1>6. k2 \in Calls
  <2>1. <<>> \in Seq(Results \cup {"redis"})
    OBVIOUS
  <2>2. k.failed \cup large \cup far \in SUBSET Nat
    <3> HIDE DEF of, sent
    <3> QED BY <1>1, <1>b, <1>2 DEF Calls
  <2>3. k.todo \ {q} \in SUBSET Seq(Int)
    BY <1>1 DEF Calls
  <2> HIDE DEF of, sent
  <2> QED BY <1>1, <1>c, <1>e, <1>f, <1>g, <2>1, <2>2, <2>3 DEF Calls
<1>7. /\ k2.sent = 0 /\ k2.results = <<>> /\ k2.broken = k.broken /\ k2.tasks = k.tasks /\ k2.todo = k.todo \ {q}
      /\ k2.batch = batch /\ k2.errors = er /\ k2.succeeded = k.succeeded /\ k2.failed = k.failed \cup large \cup far
      /\ k2.stopped = stop /\ k2.failFast = k.failFast /\ k2.reply = k.reply /\ k2.phase = "sending"
  BY <1>1, <1>g DEF Calls
<1>8. Listed(k2) = Listed(k) \cup large \cup far /\ Sending(k2) = sent
  BY <1>7 DEF Listed, Sending
<1>9. Unprepared(k2) \subseteq Unprepared(k) /\ Unprepared(k2) \cap of = {} /\ Unprepared(k) \subseteq Unprepared(k2) \cup of
  BY <1>7 DEF Unprepared
<1> HIDE DEF of
<1>10. Part(k2) \in Nat /\ Part(k2) >= 0
  BY <1>6, PartOfBatch
<1>11. Formed(k2, st)
  <2>1. Len(<<>>) = 0 /\ st \in Seq(Nat) /\ Len(st) = Len(k.tasks) /\ Len(er) = Len(k.tasks)
    BY <1>c DEF Consistent, Formed
  <2> QED BY <1>6, <1>7, <1>10, <2>1 DEF Formed
<1>12. Apart(k2)
  <2> HIDE DEF sent
  <2>1. Sending(k2) \cup Listed(k2) \subseteq 1 .. Len(k.tasks)
    BY <1>2, <1>4, <1>8, <1>b, Zenon
  <2>2. \A i \in Sending(k2) : k.tasks[i] # Nil
    BY <1>2, <1>8, <1>b
  <2>3. Unprepared(k2) \cap Sending(k2) = {} /\ Unprepared(k2) \cap Listed(k2) = {} /\ Sending(k2) \cap Listed(k2) = {}
    BY <1>2, <1>3, <1>8, <1>9, <1>b
  <2>4. k2.stopped => k2.failFast /\ k2.failed # {}
    BY <1>7, <1>e
  <2>5. ~k2.stopped => 1 .. Len(k.tasks) \subseteq Unprepared(k2) \cup Sending(k2) \cup Listed(k2)
    <3>1. 1 .. Len(k.tasks) \subseteq Unprepared(k) \cup Listed(k)
      BY <1>5, <1>a DEF Consistent, Apart
    <3>2. ~k2.stopped => of \subseteq large \cup far \cup sent
      BY <1>7, <1>e
    <3> QED BY <1>8, <1>9, <3>1, <3>2
  <2> QED BY <1>7, <1>f, <2>1, <2>2, <2>3, <2>4, <2>5 DEF Apart
<1>13. \A x \in Unprepared(k) : st[x] = 0
  BY <1>3, <1>5 DEF Consistent, ListedTrue, Unprepared
<1>14. ListedTrue(k2, st)
  <2> HIDE DEF sent
  <2>1. \A x \in k.succeeded : st[x] > 0
    BY DEF Consistent, ListedTrue
  <2>2. ASSUME NEW x \in k.failed \cup large \cup far, er[x] \in Refusals, ~k.broken PROVE st[x] = 0
    <3>1. CASE x \in large \cup far
      BY <1>2, <1>13, <1>b, <3>1
    <3>2. CASE x \notin large \cup far
      <4>1. x \in k.failed /\ x \in 1 .. Len(k.tasks)
        BY <1>4, <3>2 DEF Listed
      <4>2. er[x] = k.errors[x]
        BY <1>d, <3>2, <4>1
      <4> QED BY <2>2, <4>1, <4>2 DEF Consistent, ListedTrue
    <3> QED BY <3>1, <3>2
  <2>3. ASSUME NEW x \in 1 .. Len(k.tasks), x \notin k.failed \cup large \cup far PROVE er[x] = "none"
    BY <1>d, <2>3 DEF Consistent, ListedTrue
  <2>4. ASSUME NEW x \in 1 .. Len(k.tasks), x \notin Sending(k2) \cup Listed(k2) PROVE st[x] = 0
    BY <1>5, <1>8, <2>4 DEF Consistent, ListedTrue
  <2>5. ~k.broken => \A x \in 1 .. Len(k.tasks) : st[x] <= 1
    BY DEF Consistent, ListedTrue
  <2> QED BY <1>7, <2>1, <2>2, <2>3, <2>4, <2>5 DEF ListedTrue
<1>15. SentTrue(k2, st)
  <2>1. ASSUME NEW j \in 1 .. Len(batch) PROVE st[batch[j]] = 0 /\ ~(j <= 0)
    <3>1. batch[j] \in Unprepared(k)
      BY <1>2, <1>b
    <3> QED BY <1>13, <3>1
  <2> QED BY <1>7, <2>1 DEF SentTrue
<1>16. Replied(k2)
  BY <1>7 DEF Replied
<1> QED BY <1>11, <1>12, <1>14, <1>15, <1>16 DEF Consistent

\* What a front end makes of a request: it is refused, or tasks nils are listed.
Opened(tasks, api, bulk, failFast, at, nils, noted, k) ==
  LET o == [Idle EXCEPT !.api = api, !.bulk = bulk, !.failFast = failFast, !.at = at, !.tasks = tasks,
                        !.errors = [i \in DOMAIN tasks |-> "none"]] IN
  /\ tasks \in Seq({Nil} \cup TaskValues) /\ api \in {"grpc", "http", "go"} /\ bulk \in BOOLEAN /\ failFast \in BOOLEAN
  /\ at \in Nat
  /\ nils = {i \in DOMAIN tasks : tasks[i] = Nil} /\ noted \subseteq nils
  /\ failFast /\ nils # {} => noted # {}
  /\ ~failFast => noted = nils
  /\ \/ k = [o EXCEPT !.phase = "done", !.reply = "InvalidArgument"]
     \/ k = [o EXCEPT
               !.phase = "grouped",
               !.errors = [i \in DOMAIN tasks |-> IF i \in noted THEN "nil" ELSE "none"],
               !.failed = noted,
               !.stopped = failFast /\ nils # {},
               !.todo = {Queue(tasks[i]) : i \in DOMAIN tasks \ nils}]

\* A request is taken.
LEMMA OpenConsistent ==
  ASSUME NEW tasks, NEW api, NEW bulk, NEW failFast, NEW at, NEW nils, NEW noted, NEW k, NEW st,
         Opened(tasks, api, bulk, failFast, at, nils, noted, k), st = [i \in DOMAIN tasks |-> 0]
  PROVE  /\ Consistent(k, st) /\ k.phase # "idle" /\ k.tasks = tasks
         /\ \A i \in 1 .. Len(tasks) : k.errors[i] \in {"none", "nil"}
<1>a. /\ tasks \in Seq({Nil} \cup TaskValues) /\ api \in {"grpc", "http", "go"} /\ bulk \in BOOLEAN /\ failFast \in BOOLEAN
      /\ at \in Nat
  BY DEF Opened
<1>b. /\ nils = {i \in DOMAIN tasks : tasks[i] = Nil} /\ noted \subseteq nils
      /\ (failFast /\ nils # {} => noted # {}) /\ (~failFast => noted = nils)
  BY DEF Opened
<1>c. PICK n \in Nat : n = Len(tasks) /\ DOMAIN tasks = 1 .. n
  BY <1>a
<1>d. st \in [1 .. n -> Nat] /\ \A i \in 1 .. n : st[i] = 0
  BY <1>c
<1>e. st \in Seq(Nat) /\ Len(st) = n
  <2>1. st \in Seq(Nat)
    BY <1>d, SeqDef
  <2> QED BY <1>d, <2>1
<1>f. nils \subseteq 1 .. n /\ noted \subseteq 1 .. n
  BY <1>b, <1>c
<1> DEFINE none == [i \in 1 .. n |-> "none"]
           some == [i \in 1 .. n |-> IF i \in noted THEN "nil" ELSE "none"]
           queues == {Queue(tasks[i]) : i \in (1 .. n) \ nils}
           o == [Idle EXCEPT !.api = api, !.bulk = bulk, !.failFast = failFast, !.at = at, !.tasks = tasks, !.errors = none]
           E == Refusals \cup {"none", "nil", "redis"}
<1>1. none \in Seq(E) /\ Len(none) = n /\ \A i \in 1 .. n : none[i] = "none"
  <2>1. none \in [1 .. n -> E]
    OBVIOUS
  <2>2. none \in Seq(E)
    <3> HIDE DEF none, E
    <3> QED BY <2>1, SeqDef
  <2> QED BY <2>1, <2>2
<1>2. some \in Seq(E) /\ Len(some) = n /\ \A i \in 1 .. n : some[i] = IF i \in noted THEN "nil" ELSE "none"
  <2>1. some \in [1 .. n -> E]
    OBVIOUS
  <2>2. some \in Seq(E)
    <3> HIDE DEF some, E
    <3> QED BY <2>1, SeqDef
  <2> QED BY <2>1, <2>2
<1>3. queues \in SUBSET Seq(Int)
  <2>1. ASSUME NEW i \in (1 .. n) \ nils PROVE Queue(tasks[i]) \in Seq(Int)
    <3>1. tasks[i] \in {Nil} \cup TaskValues /\ tasks[i] # Nil
      BY <1>a, <1>b, <1>c
    <3>2. tasks[i][2] \in Seq(Int)
      BY <3>1 DEF TaskValues
    <3> QED BY <3>2 DEF Queue
  <2> QED BY <2>1
<1>4. o \in Calls
  <2>1. Idle \in Calls
    BY IdleConsistent DEF Consistent, Formed
  <2> HIDE DEF none
  <2> QED BY <1>1, <1>a, <2>1 DEF Calls
<1>5. /\ o.sent = 0 /\ o.results = <<>> /\ o.broken = FALSE /\ o.tasks = tasks /\ o.todo = {} /\ o.batch = <<>> /\ o.errors = none
      /\ o.succeeded = {} /\ o.failed = {} /\ o.stopped = FALSE /\ o.failFast = failFast
  <2> HIDE DEF none
  <2> QED BY DEF Idle
<1>6. \/ k = [o EXCEPT !.phase = "done", !.reply = "InvalidArgument"]
      \/ k = [o EXCEPT !.phase = "grouped", !.errors = some, !.failed = noted, !.stopped = failFast /\ nils # {}, !.todo = queues]
  BY <1>c DEF Opened
<1> HIDE DEF none, some, queues, o
<1>7. Len(<<>>) = 0
  OBVIOUS
<1>8. CASE k = [o EXCEPT !.phase = "done", !.reply = "InvalidArgument"]
  <2>1. k \in Calls
    BY <1>4, <1>8 DEF Calls
  <2>2. /\ k.sent = 0 /\ k.results = <<>> /\ k.tasks = tasks /\ k.batch = <<>> /\ k.errors = none /\ k.succeeded = {} /\ k.failed = {}
        /\ k.stopped = FALSE /\ k.phase = "done" /\ k.reply = "InvalidArgument" /\ k.todo = {}
    BY <1>4, <1>5, <1>8 DEF Calls
  <2>3. Sending(k) = {} /\ Listed(k) = {} /\ Unprepared(k) = {} /\ Part(k) \in Nat
    BY <2>1, <2>2, PartOfBatch DEF Sending, Listed, Unprepared
  <2>4. Formed(k, st)
    BY <1>1, <1>7, <1>c, <1>e, <2>1, <2>2, <2>3 DEF Formed
  <2>5. Apart(k) /\ SentTrue(k, st) /\ Replied(k)
    BY <2>2, <2>3 DEF Apart, SentTrue, Replied
  <2>6. ListedTrue(k, st)
    BY <1>1, <1>c, <1>d, <2>2, <2>3 DEF ListedTrue
  <2> QED BY <1>1, <1>c, <2>2, <2>4, <2>5, <2>6 DEF Consistent
<1>9. CASE k = [o EXCEPT !.phase = "grouped", !.errors = some, !.failed = noted, !.stopped = failFast /\ nils # {}, !.todo = queues]
  <2>1. k \in Calls
    <3>1. noted \in SUBSET Nat
      BY <1>f
    <3>2. (failFast /\ nils # {}) \in BOOLEAN
      BY <1>a
    <3> QED BY <1>2, <1>3, <1>4, <1>9, <3>1, <3>2 DEF Calls
  <2>2. /\ k.sent = 0 /\ k.results = <<>> /\ k.tasks = tasks /\ k.batch = <<>> /\ k.errors = some /\ k.succeeded = {} /\ k.failed = noted
        /\ k.stopped = (failFast /\ nils # {}) /\ k.phase = "grouped" /\ k.todo = queues /\ k.failFast = failFast
    BY <1>4, <1>5, <1>9 DEF Calls
  <2>3. Sending(k) = {} /\ Listed(k) = noted /\ Part(k) \in Nat
    BY <2>1, <2>2, PartOfBatch DEF Sending, Listed
  <2>4. Unprepared(k) = (1 .. n) \ nils
    BY <1>b, <1>c, <2>2 DEF Unprepared, queues
  <2>5. Formed(k, st)
    BY <1>2, <1>7, <1>c, <1>e, <2>1, <2>2, <2>3 DEF Formed
  <2>6. SentTrue(k, st) /\ Replied(k)
    BY <2>2 DEF SentTrue, Replied
  <2>7. Apart(k)
    <3>1. ~k.stopped => 1 .. n \subseteq Unprepared(k) \cup Listed(k)
      BY <1>b, <2>2, <2>3, <2>4
    <3>2. k.stopped => k.failFast /\ k.failed # {}
      BY <1>b, <2>2
    <3>3. Unprepared(k) \cap Listed(k) = {} /\ Listed(k) \subseteq 1 .. n
      BY <1>b, <1>f, <2>3, <2>4
    <3> QED BY <1>c, <2>2, <2>3, <3>1, <3>2, <3>3 DEF Apart
  <2>8. ListedTrue(k, st)
    <3>1. \A i \in 1 .. n : st[i] = 0 /\ st[i] <= 1
      BY <1>d
    <3>2. \A i \in (1 .. n) \ noted : k.errors[i] = "none"
      BY <1>2, <2>2
    <3>3. \A i \in noted : st[i] = 0
      BY <1>d, <1>f
    <3> QED BY <1>c, <2>2, <3>1, <3>2, <3>3 DEF ListedTrue
  <2> QED BY <1>2, <1>c, <2>2, <2>5, <2>6, <2>7, <2>8 DEF Consistent
<1> QED BY <1>6, <1>8, <1>9

\* The first of some tasks.
LEMMA First ==
  ASSUME NEW S \in SUBSET Nat, S # {}
  PROVE  \E x \in S : \A y \in S : x <= y
<1>1. IsWellFoundedOn(OpToRel(<, Nat), Nat)
  BY NatLessThanWellFounded
<1>2. PICK x \in S : \A y \in S : ~ (<<y, x>> \in OpToRel(<, Nat))
  BY <1>1, WFMin
<1>3. ASSUME NEW y \in S PROVE x <= y
  <2>1. x \in Nat /\ y \in Nat
    OBVIOUS
  <2>2. ~(<<y, x>> \in {ss \in Nat \X Nat : ss[1] < ss[2]})
    BY <1>2 DEF OpToRel
  <2>3. <<y, x>> \in Nat \X Nat /\ <<y, x>>[1] = y /\ <<y, x>>[2] = x
    BY <2>1
  <2>4. ~(y < x)
    BY <2>2, <2>3
  <2> QED BY <2>1, <2>4
<1> QED BY <1>3

\* Fifteen fields make a task.
LEMMA Fifteen ==
  ASSUME NEW a1 \in Seq(Int), NEW a2 \in Seq(Int), NEW a3 \in Seq(Int), NEW a4 \in Seq(Int), NEW a5 \in Int,
         NEW a6 \in Int, NEW a7 \in Int, NEW a8 \in Seq(Int), NEW a9 \in Int, NEW a10 \in Seq(Int),
         NEW a11 \in Seq(Int), NEW a12 \in Int, NEW a13 \in Int, NEW a14 \in Seq(Int), NEW a15 \in Int
  PROVE  <<a1, a2, a3, a4, a5, a6, a7, a8, a9, a10, a11, a12, a13, a14, a15>> \in TaskValues
BY DEF TaskValues

\* NewTask makes a task that can be marshalled.
LEMMA NewTaskValue ==
  ASSUME NEW p \in Items, NEW time \in Int
  PROVE  NewTask(p, time) \in TaskValues
<1>1. /\ p.id \in Seq(Int) /\ p.queue \in Seq(Int) /\ p.name \in Seq(Int) /\ p.payload \in Seq(Int) /\ p.maxRetry \in Int
      /\ p.timeout \in Int /\ p.unique \in Seq(Int) /\ p.ttl \in Int /\ p.cron \in Seq(Int)
  BY DEF Items
<1>2. <<0, time>> \in Seq(Int) /\ DefaultQueue \in Seq(Int) /\ DefaultTimeout \in Int /\ <<>> \in Seq(Int)
  BY DEF DefaultQueue, DefaultTimeout
<1>3. PICK id \in Seq(Int) : id = IF Some(p.id) THEN p.id ELSE <<0, time>>
  BY <1>1, <1>2
<1>4. PICK queue \in Seq(Int) : queue = IF Some(p.queue) THEN p.queue ELSE DefaultQueue
  BY <1>1, <1>2
<1>5. PICK timeout \in Int : timeout = IF p.timeout > 0 THEN p.timeout ELSE DefaultTimeout
  BY <1>1, <1>2
<1>6. PICK ttl \in Int : ttl = IF Some(p.unique) THEN p.ttl ELSE 0
  <2>1. CASE Some(p.unique)
    BY <1>1, <2>1
  <2>2. CASE ~Some(p.unique)
    <3>1. 0 \in Int /\ 0 = IF Some(p.unique) THEN p.ttl ELSE 0
      BY <2>2
    <3> QED BY <3>1
  <2> QED BY <2>1, <2>2
<1>7. NewTask(p, time) = <<id, queue, p.name, p.payload, 0, p.maxRetry, timeout, p.unique, ttl, <<>>, p.cron, time, 0, <<>>, 0>>
  BY <1>3, <1>4, <1>5, <1>6 DEF NewTask
<1>8. PICK empty \in Seq(Int) : empty = <<>>
  BY <1>2
<1>9. PICK zero \in Int : zero = 0
  OBVIOUS
<1>10. PICK name \in Seq(Int) : name = p.name
  BY <1>1
<1>11. PICK payload \in Seq(Int) : payload = p.payload
  BY <1>1
<1>12. PICK unique \in Seq(Int) : unique = p.unique
  BY <1>1
<1>13. PICK spec \in Seq(Int) : spec = p.cron
  BY <1>1
<1>14. PICK maxRetry \in Int : maxRetry = p.maxRetry
  BY <1>1
<1>15. <<id, queue, name, payload, zero, maxRetry, timeout, unique, ttl, empty, spec, time, zero, empty, zero>> \in TaskValues
  BY Fifteen
<1> QED BY <1>7, <1>8, <1>9, <1>10, <1>11, <1>12, <1>13, <1>14, <1>15

\* What a front end makes of an item of a request.
LEMMA TaskOfValue ==
  ASSUME NEW r, IsRequest(r), NEW i \in 1 .. Len(r.items)
  PROVE  TaskOf(r, i) \in {Nil} \cup TaskValues
<1> DEFINE made == {c \in Clients : call[c].phase # "idle"}
           time == 10 * Cardinality(made) + i
<1>1. time \in Int
  <2>1. IsFiniteSet(made)
    BY SubmissionAssumption, FS_Subset
  <2>2. Cardinality(made) \in Nat
    <3> HIDE DEF made
    <3> QED BY <2>1, FS_CardinalityType
  <2>3. i \in Int
    OBVIOUS
  <2> HIDE DEF made
  <2> QED BY <2>2, <2>3
<1> HIDE DEF time
<1>2. CASE r.api = "http"
  <2>1. r.items[i] \in Items
    BY <1>2 DEF IsRequest
  <2> DEFINE p == r.items[i]
             h == [p EXCEPT !.name = IF Some(@) THEN @ ELSE DefaultName, !.maxRetry = DefaultMaxRetry,
                            !.timeout = 0, !.unique = <<>>, !.cron = <<>>]
  <2>2. h \in Items
    <3>1. DefaultName \in Seq(Int) /\ DefaultMaxRetry \in Int /\ <<>> \in Seq(Int)
      BY DEF DefaultName, DefaultMaxRetry
    <3>2. PICK name \in Seq(Int) : name = IF Some(p.name) THEN p.name ELSE DefaultName
      BY <2>1, <3>1 DEF Items
    <3>3. PICK x \in Items : x = p
      BY <2>1
    <3>4. [x EXCEPT !.name = name, !.maxRetry = DefaultMaxRetry, !.timeout = 0, !.unique = <<>>, !.cron = <<>>] \in Items
      <4>1. PICK empty \in Seq(Int) : empty = <<>>
        BY <3>1
      <4>2. PICK zero \in Int : zero = 0
        OBVIOUS
      <4>3. PICK three \in Int : three = DefaultMaxRetry
        BY <3>1
      <4>4. [x EXCEPT !.name = name, !.maxRetry = three, !.timeout = zero, !.unique = empty, !.cron = empty] \in Items
        BY DEF Items
      <4> QED BY <4>1, <4>2, <4>3, <4>4
    <3>5. h = [x EXCEPT !.name = name, !.maxRetry = DefaultMaxRetry, !.timeout = 0, !.unique = <<>>, !.cron = <<>>]
      BY <3>2, <3>3
    <3> HIDE DEF h
    <3> QED BY <3>4, <3>5
  <2>3. TaskOf(r, i) = NewTask(h, time)
    BY <1>2 DEF TaskOf, HttpTask, time
  <2> HIDE DEF h
  <2> QED BY <1>1, <2>2, <2>3, NewTaskValue
<1>3. CASE r.api # "http"
  <2>1. r.items[i] \in Items \cup {Nil}
    BY DEF IsRequest
  <2>2. TaskOf(r, i) = ToTaskmqTask(r.items[i], time)
    BY <1>3 DEF TaskOf, time
  <2> QED BY <1>1, <2>1, <2>2, NewTaskValue DEF ToTaskmqTask
<1> QED BY <1>2, <1>3

\* A request that is taken.
LEMMA OpenStep ==
  ASSUME NEW c \in Clients, NEW r \in Requests[c], Open(c, r)
  PROVE  \E k, st : /\ Consistent(k, st) /\ k.phase # "idle"
                    /\ \A i \in 1 .. Len(k.tasks) : k.errors[i] \in {"none", "nil"}
                    /\ call' = [call EXCEPT ![c] = k] /\ stored' = [stored EXCEPT ![c] = st]
<1>1. IsRequest(r)
  BY SubmissionAssumption
<1> DEFINE tasks == [i \in 1 .. Len(r.items) |-> TaskOf(r, i)]
           nils == {i \in DOMAIN tasks : tasks[i] = Nil}
           noted == IF r.failFast THEN {i \in nils : \A j \in nils : i <= j} ELSE nils
           o == [Idle EXCEPT !.api = r.api, !.bulk = r.bulk, !.failFast = r.failFast, !.at = r.at, !.tasks = tasks,
                             !.errors = [i \in DOMAIN tasks |-> "none"]]
           rejected == [o EXCEPT !.phase = "done", !.reply = "InvalidArgument"]
           grouped == [o EXCEPT
               !.phase = "grouped",
               !.errors = [i \in DOMAIN tasks |-> IF i \in noted THEN "nil" ELSE "none"],
               !.failed = noted,
               !.stopped = r.failFast /\ nils # {},
               !.todo = {Queue(tasks[i]) : i \in DOMAIN tasks \ nils}]
           st == [i \in DOMAIN tasks |-> 0]
<1>2. Len(r.items) \in Nat
  BY <1>1 DEF IsRequest
<1>3. tasks \in Seq({Nil} \cup TaskValues) /\ DOMAIN tasks = 1 .. Len(r.items)
  <2>1. tasks \in [1 .. Len(r.items) -> {Nil} \cup TaskValues]
    BY <1>1, TaskOfValue
  <2> HIDE DEF tasks
  <2> QED BY <1>2, <2>1, SeqDef
<1>4. nils \subseteq Nat
  BY <1>2, <1>3
<1>5. noted \subseteq nils /\ (r.failFast /\ nils # {} => noted # {}) /\ (~r.failFast => noted = nils)
  <2> HIDE DEF nils
  <2> QED BY <1>4, First
<1>6. stored' = [stored EXCEPT ![c] = st]
  BY DEF Open
<1>7. PICK k \in {rejected, grouped} : call' = [call EXCEPT ![c] = k]
  BY DEF Open
<1>8. Opened(tasks, r.api, r.bulk, r.failFast, r.at, nils, noted, k)
  <2>1. r.api \in {"grpc", "http", "go"} /\ r.bulk \in BOOLEAN /\ r.failFast \in BOOLEAN /\ r.at \in Nat
    BY <1>1 DEF IsRequest
  <2>2. k = rejected \/ k = grouped
    BY <1>7
  <2> HIDE DEF tasks, noted
  <2> QED BY <1>3, <1>5, <2>1, <2>2 DEF Opened
<1> HIDE DEF nils, noted, tasks
<1>9. Consistent(k, st) /\ k.phase # "idle" /\ k.tasks = tasks /\ \A i \in 1 .. Len(tasks) : k.errors[i] \in {"none", "nil"}
  BY <1>8, OpenConsistent
<1> QED BY <1>6, <1>7, <1>9

\* The batch of a set of tasks holds each of them once.
LEMMA OrderedBatch ==
  ASSUME NEW S \in SUBSET Nat, IsFiniteSet(S), NEW b \in InOrder(S)
  PROVE  /\ b \in Seq(Nat) /\ {b[j] : j \in 1 .. Len(b)} = S
         /\ \A i, j \in 1 .. Len(b) : b[i] = b[j] => i = j
<1>1. PICK n \in Nat : n = Cardinality(S)
  BY FS_CardinalityType
<1>2. b \in [1 .. n -> S] /\ \A i, j \in 1 .. n : i < j => b[i] < b[j]
  BY <1>1 DEF InOrder
<1>3. b \in Seq(Nat) /\ Len(b) = n
  <2>1. b \in [1 .. n -> Nat]
    BY <1>2
  <2>2. b \in Seq(Nat)
    BY <2>1, SeqDef
  <2> QED BY <2>1, <2>2
<1>4. ASSUME NEW i \in 1 .. n, NEW j \in 1 .. n, b[i] = b[j] PROVE i = j
  <2>1. b[i] \in Nat /\ b[j] \in Nat
    BY <1>2
  <2>2. ~(i < j) /\ ~(j < i)
    BY <1>2, <1>4, <2>1
  <2> QED BY <2>2
<1>5. IsFiniteSet(1 .. n) /\ Cardinality(1 .. n) = n
  BY FS_Interval
<1>6. b \in Injection(1 .. n, S)
  BY <1>2, <1>4 DEF Injection, IsInjective
<1>7. b \in Surjection(1 .. n, S)
  BY <1>1, <1>5, <1>6, FS_Injection
<1>8. {b[j] : j \in 1 .. n} = S
  BY <1>2, <1>7 DEF Surjection
<1> QED BY <1>3, <1>4, <1>8

\* The counters.
Counters == [enqueueRejected : Nat, delayedRejected : Nat, payloadRejected : Nat, softLimitHits : Nat]

\* The checks of a queue count.
LEMMA CountedUp ==
  ASSUME NEW n \in Counters, NEW p \in Nat, NEW d \in Nat, NEW s \in Nat
  PROVE  LET m == [n EXCEPT !.payloadRejected = @ + p, !.delayedRejected = @ + d, !.softLimitHits = s]
         IN  /\ m.payloadRejected = n.payloadRejected + p /\ m.delayedRejected = n.delayedRejected + d
             /\ m.enqueueRejected = n.enqueueRejected /\ m \in Counters
<1>1. n.payloadRejected \in Nat /\ n.delayedRejected \in Nat
  BY DEF Counters
<1>2. n.payloadRejected + p \in Nat /\ n.delayedRejected + d \in Nat
  BY <1>1
<1> QED BY <1>2 DEF Counters

\* The state of every request.
Tables == call \in [Clients -> Calls] /\ stored \in [Clients -> Seq(Nat)]

\* A finite set of tasks.
LEMMA FiniteTasks ==
  ASSUME NEW n \in Nat, NEW S \in SUBSET (1 .. n)
  PROVE  IsFiniteSet(S) /\ Cardinality(S) \in Nat
<1>1. IsFiniteSet(1 .. n)
  BY FS_Interval
<1>2. IsFiniteSet(S)
  BY <1>1, FS_Subset
<1> QED BY <1>2, FS_CardinalityType

\* What the checks of a queue change.
LEMMA PrepareStep ==
  ASSUME Tables, counter \in Counters, Requested, NEW c \in Clients, NEW q \in call[c].todo, Prepare(c, q)
  PROVE  \E large, far, er, stop, batch, k :
           /\ Prepared(call[c], q, large, far, er, stop, batch, k)
           /\ call' = [call EXCEPT ![c] = k] /\ stored' = stored
           /\ large \cap far = {} /\ (\A x \in large : er[x] = "payload") /\ (\A x \in far : er[x] = "tooFar")
           /\ counter'.payloadRejected = counter.payloadRejected + Cardinality(large)
           /\ counter'.delayedRejected = counter.delayedRejected + Cardinality(far)
           /\ counter'.enqueueRejected = counter.enqueueRejected
           /\ counter' \in Counters
<1> DEFINE checked == Checked(c, q)
           large == {i \in checked : TooLarge(call[c].tasks[i])}
           far == {i \in checked \ large : call[c].at > 0 /\ TooFar(call[c].at)}
           stop == call[c].failFast /\ large # {}
           T == IF stop THEN {} ELSE checked \ (large \cup far)
           er == [i \in DOMAIN call[c].errors |-> IF i \in large THEN "payload" ELSE IF i \in far THEN "tooFar" ELSE call[c].errors[i]]
           E == Refusals \cup {"none", "nil", "redis"}
<1>1. PICK k0 \in Calls : k0 = call[c]
  BY DEF Tables
<1>2. Consistent(k0, stored[c])
  BY <1>1 DEF Requested
<1>3. PICK n \in Nat : n = Len(k0.tasks) /\ DOMAIN k0.tasks = 1 .. n /\ DOMAIN k0.errors = 1 .. n
  <2>1. k0.tasks \in Seq({Nil} \cup TaskValues) /\ k0.errors \in Seq(E)
    BY DEF Calls
  <2>2. Len(k0.errors) = Len(k0.tasks)
    BY <1>2 DEF Consistent, Formed
  <2> QED BY <2>1, <2>2
<1>4. OfQueue(c, q) = {i \in 1 .. n : k0.tasks[i] # Nil /\ Queue(k0.tasks[i]) = q}
  BY <1>1, <1>3 DEF OfQueue, Indexes
<1>5. checked \subseteq OfQueue(c, q)
  BY DEF Checked
<1>6. ~stop => checked = OfQueue(c, q)
  <2> SUFFICES ASSUME call[c].failFast, large = {} PROVE checked = OfQueue(c, q)
    BY DEF Checked
  <2> DEFINE L == {i \in OfQueue(c, q) : TooLarge(call[c].tasks[i])}
  <2>1. L \subseteq Nat
    BY <1>4
  <2>2. L = {}
    <3> SUFFICES ASSUME L # {} PROVE FALSE
      OBVIOUS
    <3>1. PICK x \in L : \A y \in L : x <= y
      <4> HIDE DEF L
      <4> QED BY <2>1, First
    <3>2. x \in checked
      BY <3>1 DEF Checked
    <3> QED BY <3>2
  <2> QED BY <2>2 DEF Checked
<1>7. checked \subseteq 1 .. n /\ large \subseteq 1 .. n /\ far \subseteq 1 .. n /\ large \cap far = {}
  BY <1>4, <1>5
<1>8. T \subseteq 1 .. n
  BY <1>7
<1>9. PICK batch \in InOrder(T) :
        call' = [call EXCEPT ![c] =
         [call[c] EXCEPT !.todo = @ \ {q},
                   !.errors = [i \in DOMAIN @ |-> IF i \in large THEN "payload" ELSE IF i \in far THEN "tooFar" ELSE @[i]],
                   !.failed = @ \cup large \cup far,
                   !.stopped = stop,
                   !.phase = "sending",
                   !.batch = batch,
                   !.sent = 0,
                   !.results = <<>>]]
  BY DEF Prepare
<1> DEFINE k == [call[c] EXCEPT !.todo = @ \ {q}, !.errors = er, !.failed = @ \cup large \cup far, !.stopped = stop,
                           !.phase = "sending", !.batch = batch, !.sent = 0, !.results = <<>>]
<1>10. call' = [call EXCEPT ![c] = k]
  BY <1>9
<1>11. /\ batch \in Seq(Nat) /\ {batch[j] : j \in 1 .. Len(batch)} = T
       /\ \A i, j \in 1 .. Len(batch) : batch[i] = batch[j] => i = j
  <2>1. IsFiniteSet(T) /\ T \in SUBSET Nat
    <3>1. PICK U \in SUBSET (1 .. n) : U = T
      BY <1>8
    <3>2. U \in SUBSET Nat
      OBVIOUS
    <3> HIDE DEF checked, large, far, stop, er, E, T
    <3>3. IsFiniteSet(U)
      BY FiniteTasks
    <3> QED BY <3>1, <3>2, <3>3
  <2> HIDE DEF T
  <2> QED BY <2>1, OrderedBatch
<1>12. /\ er \in Seq(E) /\ Len(er) = Len(k0.errors)
       /\ \A x \in (1 .. n) \ (large \cup far) : er[x] = k0.errors[x]
       /\ \A x \in large : er[x] = "payload"
       /\ \A x \in far : er[x] = "tooFar"
  <2> HIDE DEF large, far
  <2>1. \A i \in 1 .. n : k0.errors[i] \in E
    <3>1. k0.errors \in Seq(E)
      BY DEF Calls
    <3> HIDE DEF E
    <3> QED BY <1>3, <3>1
  <2>2. DOMAIN er = 1 .. n /\ \A i \in 1 .. n : er[i] = IF i \in large THEN "payload" ELSE IF i \in far THEN "tooFar" ELSE k0.errors[i]
    BY <1>1, <1>3
  <2>3. er \in [1 .. n -> E]
    <3>1. "payload" \in E /\ "tooFar" \in E
      BY DEF Refusals
    <3>2. er = [i \in 1 .. n |-> er[i]]
      BY <1>1, <1>3
    <3> HIDE DEF er, E
    <3> QED BY <2>1, <2>2, <3>1, <3>2
  <2>4. er \in Seq(E) /\ Len(er) = n
    <3> HIDE DEF er, E
    <3>1. er \in Seq(E)
      BY <2>3, SeqDef
    <3> QED BY <2>3, <3>1
  <2>5. Len(k0.errors) = n
    BY <1>2, <1>3 DEF Consistent, Formed
  <2> HIDE DEF er, E
  <2> QED BY <1>7, <2>2, <2>4, <2>5
<1>13. stop \in BOOLEAN /\ (stop => k0.failFast /\ large # {})
  <2>1. k0.failFast \in BOOLEAN
    BY DEF Calls
  <2> QED BY <1>1, <2>1
<1>14. k0.phase = "grouped" /\ ~k0.stopped /\ q \in k0.todo
  BY <1>1 DEF Prepare
<1>15. /\ large \cup far \cup T \subseteq OfQueue(c, q) /\ T \cap (large \cup far) = {}
       /\ (~stop => OfQueue(c, q) \subseteq large \cup far \cup T)
  BY <1>5, <1>6
<1>16. stored' = stored
  BY DEF Prepare
<1>17. /\ counter'.payloadRejected = counter.payloadRejected + Cardinality(large)
       /\ counter'.delayedRejected = counter.delayedRejected + Cardinality(far)
       /\ counter'.enqueueRejected = counter.enqueueRejected
       /\ counter' \in Counters
  <2>1. PICK p \in Nat : p = Cardinality(large)
    <3> HIDE DEF large, far
    <3> QED BY <1>7, FiniteTasks
  <2>2. PICK d \in Nat : d = Cardinality(far)
    <3> HIDE DEF large, far
    <3> QED BY <1>7, FiniteTasks
  <2>3. PICK s \in Nat : s = IF call[c].at > 0 \/ (~call[c].bulk /\ large # {}) THEN counter.softLimitHits ELSE SoftLimitHits(q)
    <3> HIDE DEF large
    <3>1. counter.softLimitHits \in Nat /\ counter.softLimitHits + 1 \in Nat
      BY DEF Counters
    <3> QED BY <3>1 DEF SoftLimitHits
  <2>4. counter' = [counter EXCEPT !.payloadRejected = @ + p, !.delayedRejected = @ + d, !.softLimitHits = s]
    BY <2>1, <2>2, <2>3 DEF Prepare
  <2> HIDE DEF large, far
  <2>5. /\ counter'.payloadRejected = counter.payloadRejected + p /\ counter'.delayedRejected = counter.delayedRejected + d
        /\ counter'.enqueueRejected = counter.enqueueRejected /\ counter' \in Counters
    <3>1. PICK n1 \in Counters : n1 = counter
      OBVIOUS
    <3> DEFINE m == [n1 EXCEPT !.payloadRejected = @ + p, !.delayedRejected = @ + d, !.softLimitHits = s]
    <3>2. counter' = m
      BY <2>4, <3>1
    <3>3. /\ m.payloadRejected = n1.payloadRejected + p /\ m.delayedRejected = n1.delayedRejected + d
          /\ m.enqueueRejected = n1.enqueueRejected /\ m \in Counters
      BY CountedUp
    <3> HIDE DEF m
    <3> QED BY <3>1, <3>2, <3>3
  <2> QED BY <2>1, <2>2, <2>5
<1> HIDE DEF checked, large, far, stop, T, er, k
<1>18. Prepared(k0, q, large, far, er, stop, batch, k)
  BY <1>1, <1>3, <1>4, <1>11, <1>12, <1>13, <1>14, <1>15 DEF Prepared, k
<1>19. Prepared(call[c], q, large, far, er, stop, batch, k)
  BY <1>1, <1>18
<1> WITNESS large, far, er, stop, batch, k
<1> QED BY <1>7, <1>10, <1>12, <1>16, <1>17, <1>19

\* A step of client c that leaves request k, of which st is stored.
Moves(c, k, st) ==
  /\ call' = [call EXCEPT ![c] = k] /\ stored' = [stored EXCEPT ![c] = st]
  /\ Consistent(k, st) /\ k.phase # "idle"
  /\ call[c].phase # "idle" => k.tasks = call[c].tasks

\* The chunk is the beginning of the batch.
LEMMA ChunkOf ==
  ASSUME Tables, NEW c \in Clients
  PROVE  /\ Len(Chunk(c)) = Part(call[c]) /\ Part(call[c]) \in Nat
         /\ \A j \in 1 .. Part(call[c]) : Chunk(c)[j] = call[c].batch[j] /\ j \in 1 .. Len(call[c].batch)
<1>1. call[c] \in Calls
  BY DEF Tables
<1>2. PICK b \in Seq(Nat) : b = call[c].batch
  BY <1>1 DEF Calls
<1>3. PICK p \in 0 .. Len(b) : p = Part(call[c])
  BY <1>1, <1>2, PartOfBatch
<1>4. Chunk(c) = SubSeq(b, 1, p)
  BY <1>2, <1>3 DEF Chunk, Part
<1>5. Len(SubSeq(b, 1, p)) = p /\ \A j \in 1 .. p : SubSeq(b, 1, p)[j] = b[j]
  <2>1. Len(b) \in Nat
    OBVIOUS
  <2> QED BY <2>1
<1>6. p \in Nat /\ \A j \in 1 .. p : j \in 1 .. Len(b)
  <2>1. Len(b) \in Nat
    OBVIOUS
  <2> QED BY <2>1
<1> QED BY <1>2, <1>3, <1>4, <1>5, <1>6

\* The chunk is sent again.
LEMMA ResendStep ==
  ASSUME Tables, Requested, NEW c \in Clients, Resend(c)
  PROVE  \E k : Moves(c, k, stored[c]) /\ k.errors = call[c].errors
<1> DEFINE k == [call[c] EXCEPT !.sent = 0, !.results = <<>>, !.broken = TRUE]
<1>1. call[c] \in Calls /\ call[c].phase = "sending"
  BY DEF Tables, Resend
<1>2. call' = [call EXCEPT ![c] = k] /\ stored' = [stored EXCEPT ![c] = stored[c]]
  BY DEF Tables, Resend
<1>3. Consistent(k, stored[c])
  BY <1>1, ResendConsistent DEF Requested
<1>4. k.phase = "sending" /\ k.tasks = call[c].tasks /\ k.errors = call[c].errors
  BY <1>1 DEF Calls
<1> HIDE DEF k
<1>5. Moves(c, k, stored[c])
  BY <1>2, <1>3, <1>4 DEF Moves
<1> QED BY <1>4, <1>5

\* The connection breaks.
LEMMA BreakStep ==
  ASSUME Tables, Requested, NEW c \in Clients, NEW read \in 0 .. call[c].sent, Break(c, read)
  PROVE  \E k : Moves(c, k, stored[c]) /\ k.errors = call[c].errors
<1> DEFINE p == Part(call[c])
           k == [call[c] EXCEPT !.sent = p, !.results = [j \in 1 .. p |-> IF j <= read THEN @[j] ELSE "redis"], !.broken = TRUE]
<1>1. call[c] \in Calls /\ call[c].phase = "sending" /\ Len(Chunk(c)) = p
  BY ChunkOf DEF Tables, Break
<1>2. call' = [call EXCEPT ![c] = k] /\ stored' = [stored EXCEPT ![c] = stored[c]]
  <2>1. stored' = [stored EXCEPT ![c] = stored[c]]
    BY DEF Tables, Break
  <2>2. call' = [call EXCEPT ![c] = [call[c] EXCEPT !.sent = Len(Chunk(c)),
           !.results = [j \in 1 .. Len(Chunk(c)) |-> IF j <= read THEN @[j] ELSE "redis"], !.broken = TRUE]]
    BY <1>1 DEF Tables, Break, Calls
  <2> QED BY <1>1, <2>1, <2>2
<1>3. Consistent(k, stored[c])
  <2>1. Consistent(call[c], stored[c])
    BY DEF Requested
  <2>2. read \in Nat /\ read <= call[c].sent
    <3>1. call[c].sent \in Nat
      BY <1>1 DEF Calls
    <3> QED BY <3>1
  <2> QED BY <1>1, <2>1, <2>2, BreakConsistent
<1>4. k.phase = "sending" /\ k.tasks = call[c].tasks /\ k.errors = call[c].errors
  BY <1>1 DEF Calls
<1> HIDE DEF k
<1>5. Moves(c, k, stored[c])
  BY <1>2, <1>3, <1>4 DEF Moves
<1> QED BY <1>4, <1>5

\* The reply.
LEMMA AnswerStep ==
  ASSUME Tables, Requested, NEW c \in Clients, Answer(c)
  PROVE  \E k : Moves(c, k, stored[c]) /\ k.errors = call[c].errors
<1> DEFINE k == [call[c] EXCEPT !.phase = "done", !.reply = ReplyOf(c)]
<1>1. call[c] \in Calls /\ call[c].phase = "grouped" /\ (call[c].stopped \/ call[c].todo = {})
  BY DEF Tables, Answer
<1>2. call' = [call EXCEPT ![c] = k] /\ stored' = [stored EXCEPT ![c] = stored[c]]
  BY DEF Tables, Answer
<1>3. Consistent(k, stored[c])
  <2>1. ReplyOf(c) \in {"OK", "Internal", "MultiStatus"}
    BY DEF ReplyOf
  <2>2. Consistent(call[c], stored[c])
    BY DEF Requested
  <2> QED BY <1>1, <2>1, <2>2, AnswerConsistent
<1>4. k.phase = "done" /\ k.tasks = call[c].tasks /\ k.errors = call[c].errors
  BY <1>1 DEF Calls
<1> HIDE DEF k
<1>5. Moves(c, k, stored[c])
  BY <1>1, <1>2, <1>3, <1>4 DEF Moves
<1> QED BY <1>4, <1>5

\* A command answers, and stores its task if it answers ok.
LEMMA RunStep ==
  ASSUME Tables, Requested, NEW c \in Clients, Run(c)
  PROVE  \E k, st, i : /\ Moves(c, k, st) /\ k.errors = call[c].errors
                       /\ i \in 1 .. Len(call[c].tasks) /\ call[c].tasks[i] # Nil /\ call[c].phase # "idle"
                       /\ \E result \in Results : EnqueueDelayed(c, i, result) \/ EnqueueStream(c, i, result)
<1>1. call[c] \in Calls /\ call[c].phase = "sending" /\ call[c].sent < Part(call[c])
  BY ChunkOf DEF Tables, Run
<1>2. PICK i : i = call[c].batch[call[c].sent + 1] /\ i = Chunk(c)[call[c].sent + 1]
  <2>1. call[c].sent \in Nat
    BY <1>1 DEF Calls
  <2>2. PICK j \in 1 .. Part(call[c]) : j = call[c].sent + 1
    BY <1>1, <2>1, ChunkOf
  <2> QED BY <2>2, ChunkOf
<1>3. PICK result \in Results :
        /\ IF call[c].at > 0 THEN EnqueueDelayed(c, i, result) ELSE EnqueueStream(c, i, result)
        /\ call' = [call EXCEPT ![c].sent = @ + 1, ![c].results = Append(@, result)]
  BY <1>2 DEF Run
<1> DEFINE k == [call[c] EXCEPT !.sent = @ + 1, !.results = Append(@, result)]
           st == IF result = "ok" THEN [stored[c] EXCEPT ![i] = @ + 1] ELSE stored[c]
<1>4. call' = [call EXCEPT ![c] = k]
  BY <1>1, <1>3 DEF Tables, Calls
<1>5. EnqueueDelayed(c, i, result) \/ EnqueueStream(c, i, result)
  BY <1>3
<1>6. stored' = [stored EXCEPT ![c] = st]
  <2>1. CASE result = "ok"
    <3>1. stored' = [stored EXCEPT ![c][i] = @ + 1]
      BY <1>5, <2>1 DEF EnqueueDelayed, EnqueueStream
    <3> QED BY <2>1, <3>1 DEF Tables
  <2>2. CASE result # "ok"
    <3>1. stored' = stored
      BY <1>5, <2>2 DEF EnqueueDelayed, EnqueueStream
    <3> QED BY <2>2, <3>1 DEF Tables
  <2> QED BY <2>1, <2>2
<1>7. Consistent(k, st) /\ i \in 1 .. Len(call[c].tasks) /\ call[c].tasks[i] # Nil
  <2>1. Consistent(call[c], stored[c])
    BY DEF Requested
  <2>2. Ran(call[c], stored[c], result, i, k, st)
    BY <1>1, <1>2 DEF Ran
  <2> HIDE DEF k, st
  <2> QED BY <2>1, <2>2, RunConsistent
<1>8. k.phase = "sending" /\ k.tasks = call[c].tasks /\ k.errors = call[c].errors
  BY <1>1 DEF Calls
<1> HIDE DEF k, st
<1>9. Moves(c, k, st)
  BY <1>4, <1>6, <1>7, <1>8 DEF Moves
<1> WITNESS k, st, i
<1> QED BY <1>1, <1>5, <1>7, <1>8, <1>9

\* The commands of a chunk that were answered with r.
Answered(k, r) == {j \in 1 .. Part(k) : k.results[j] = r}

\* What collecting a chunk changes.
LEMMA CollectStep ==
  ASSUME Tables, Requested, NEW c \in Clients, Collect(c)
  PROVE  \E good, bad, G, B, er, stop, rest, k :
           /\ Collected(call[c], good, bad, G, B, er, stop, rest, k)
           /\ call' = [call EXCEPT ![c] = k] /\ stored' = stored
           /\ counter' = MapEnqueueScriptResult(call[c].results) /\ DOMAIN call[c].results = 1 .. Part(call[c])
<1> DEFINE E == Refusals \cup {"none", "nil", "redis"}
<1>1. PICK k0 \in Calls : k0 = call[c]
  BY DEF Tables
<1>2. Consistent(k0, stored[c])
  BY <1>1 DEF Requested
<1>3. PICK p \in Nat : p = Part(k0)
  BY PartOfBatch
<1>4. Len(Chunk(c)) = p /\ \A j \in 1 .. p : Chunk(c)[j] = k0.batch[j] /\ j \in 1 .. Len(k0.batch)
  BY <1>1, <1>3, ChunkOf
<1>5. k0.phase = "sending" /\ k0.sent = p
  BY <1>1, <1>4 DEF Collect
<1>6. DOMAIN k0.results = 1 .. p /\ \A j \in 1 .. p : k0.results[j] \in E \cup {"ok"}
  <2>1. k0.results \in Seq(Results \cup {"redis"}) /\ Len(k0.results) = p
    BY <1>2, <1>5 DEF Consistent, Formed, Calls
  <2>2. DOMAIN k0.results = 1 .. p /\ \A j \in 1 .. p : k0.results[j] \in Results \cup {"redis"}
    BY <2>1
  <2>3. Results \cup {"redis"} \subseteq E \cup {"ok"}
    BY DEF Results, Refusals
  <2> QED BY <2>2, <2>3
<1> DEFINE good == {j \in 1 .. p : k0.results[j] = "ok"}
           bad == (1 .. p) \ good
           G == {k0.batch[j] : j \in good}
           B == {k0.batch[j] : j \in bad}
           stop == k0.failFast /\ bad # {}
           tail == SubSeq(k0.batch, p + 1, Len(k0.batch))
           rest == IF stop THEN <<>> ELSE tail
           er == [i \in DOMAIN k0.errors |-> IF \E j \in bad : Chunk(c)[j] = i
                                            THEN k0.results[CHOOSE j \in bad : Chunk(c)[j] = i] ELSE k0.errors[i]]
           k == [k0 EXCEPT !.succeeded = @ \cup G, !.failed = @ \cup B, !.errors = er, !.stopped = @ \/ stop,
                    !.batch = rest, !.sent = 0, !.results = <<>>,
                    !.phase = IF rest = <<>> THEN "grouped" ELSE "sending"]
<1>7. good = {j \in Noted(c) : call[c].results[j] = "ok"} /\ bad = Noted(c) \ good
  BY <1>1, <1>6 DEF Noted
<1>8. {Chunk(c)[j] : j \in good} = G /\ {Chunk(c)[j] : j \in bad} = B
  <2>1. \A j \in good : Chunk(c)[j] = k0.batch[j]
    BY <1>4
  <2>2. \A j \in bad : Chunk(c)[j] = k0.batch[j]
    BY <1>4
  <2> HIDE DEF good, bad
  <2> QED BY <2>1, <2>2
<1>9. SubSeq(call[c].batch, Len(Chunk(c)) + 1, Len(call[c].batch)) = tail
  BY <1>1, <1>4
<1>10. (stop \/ tail = <<>>) <=> rest = <<>>
  OBVIOUS
<1>11. call' = [call EXCEPT ![c] = k]
  <2> DEFINE e1 == [k0 EXCEPT !.succeeded = @ \cup {Chunk(c)[j] : j \in good}, !.failed = @ \cup {Chunk(c)[j] : j \in bad},
                    !.errors = er, !.stopped = @ \/ stop, !.batch = rest, !.sent = 0, !.results = <<>>,
                    !.phase = IF stop \/ tail = <<>> THEN "grouped" ELSE "sending"]
  <2> DEFINE good2 == {j \in Noted(c) : call[c].results[j] = "ok"}
             bad2 == Noted(c) \ good2
             stop2 == call[c].failFast /\ bad2 # {}
             tail2 == SubSeq(call[c].batch, Len(Chunk(c)) + 1, Len(call[c].batch))
             er2 == [i \in DOMAIN call[c].errors |-> IF \E j \in bad2 : Chunk(c)[j] = i
                                 THEN call[c].results[CHOOSE j \in bad2 : Chunk(c)[j] = i] ELSE call[c].errors[i]]
             e2 == [call[c] EXCEPT !.succeeded = @ \cup {Chunk(c)[j] : j \in good2}, !.failed = @ \cup {Chunk(c)[j] : j \in bad2},
                    !.errors = er2, !.stopped = @ \/ stop2, !.batch = IF stop2 THEN <<>> ELSE tail2, !.sent = 0, !.results = <<>>,
                    !.phase = IF stop2 \/ tail2 = <<>> THEN "grouped" ELSE "sending"]
  <2>1. call' = [call EXCEPT ![c] = e2]
    BY DEF Collect
  <2>2. good2 = good /\ bad2 = bad /\ tail2 = tail
    BY <1>7, <1>9
  <2> HIDE DEF good, bad, good2, bad2, tail, tail2
  <2>3. stop2 = stop /\ er2 = er
    BY <1>1, <2>2
  <2> HIDE DEF stop, stop2, er, er2
  <2>4. e1 = e2
    BY <1>1, <2>2, <2>3
  <2>5. call' = [call EXCEPT ![c] = e1]
    <3> HIDE DEF e1, e2
    <3> QED BY <2>1, <2>4
  <2> HIDE DEF good, bad, tail, stop, rest, er, G, B
  <2> QED BY <1>8, <1>10, <2>5
<1>12. stored' = stored /\ counter' = MapEnqueueScriptResult(call[c].results)
  BY DEF Collect
<1>13. PICK n \in Nat : n = Len(k0.tasks) /\ DOMAIN k0.errors = 1 .. n /\ Len(k0.errors) = n /\ k0.errors \in Seq(E)
  <2>1. k0.tasks \in Seq({Nil} \cup TaskValues) /\ k0.errors \in Seq(E)
    BY DEF Calls
  <2>2. Len(k0.errors) = Len(k0.tasks)
    BY <1>2 DEF Consistent, Formed
  <2> QED BY <2>1, <2>2
<1>14. \A j \in 1 .. p : k0.batch[j] \in 1 .. n
  <2>1. \A j \in 1 .. p : k0.batch[j] \in Sending(k0)
    BY <1>4 DEF Sending
  <2> QED BY <1>2, <1>13, <2>1 DEF Consistent, Apart
<1>15. \A i, j \in 1 .. p : k0.batch[i] = k0.batch[j] => i = j
  BY <1>2, <1>4 DEF Consistent, Apart
<1>16. ASSUME NEW j \in bad PROVE er[k0.batch[j]] = k0.results[j]
  <2>1. j \in 1 .. p /\ k0.batch[j] \in DOMAIN k0.errors
    BY <1>13, <1>14
  <2>2. \E j1 \in bad : Chunk(c)[j1] = k0.batch[j]
    BY <1>4, <2>1
  <2>3. PICK j2 : j2 = CHOOSE j1 \in bad : Chunk(c)[j1] = k0.batch[j]
    OBVIOUS
  <2>4. j2 \in bad /\ Chunk(c)[j2] = k0.batch[j]
    <3> HIDE DEF bad
    <3> QED BY <2>2, <2>3
  <2>5. j2 = j
    BY <1>4, <1>15, <2>1, <2>4
  <2>6. er[k0.batch[j]] = k0.results[j2]
    <3> HIDE DEF bad
    <3> QED BY <2>1, <2>2, <2>3
  <2> QED BY <2>5, <2>6
<1>17. ASSUME NEW x \in (1 .. n) \ B PROVE er[x] = k0.errors[x]
  <2>1. ~ \E j \in bad : Chunk(c)[j] = x
    BY <1>4
  <2> HIDE DEF bad, B
  <2> QED BY <1>13, <2>1
<1>18. er \in Seq(E) /\ Len(er) = n
  <2>1. ASSUME NEW x \in 1 .. n PROVE er[x] \in E
    <3>1. CASE x \in B
      <4>1. PICK j \in bad : x = k0.batch[j]
        BY <3>1
      <4>2. k0.results[j] \in E
        <5>1. k0.results[j] \in E \cup {"ok"} /\ k0.results[j] # "ok"
          <6> HIDE DEF E
          <6> QED BY <1>6
        <5> HIDE DEF E
        <5> QED BY <5>1
      <4> HIDE DEF er, E, bad
      <4> QED BY <1>16, <4>1, <4>2
    <3>2. CASE x \notin B
      <4> HIDE DEF er, E, B
      <4>1. er[x] = k0.errors[x] /\ x \in DOMAIN k0.errors
        BY <1>13, <1>17, <3>2
      <4> QED BY <1>13, <4>1
    <3> QED BY <3>1, <3>2
  <2>2. er = [x \in 1 .. n |-> er[x]]
    BY <1>13
  <2>3. er \in [1 .. n -> E]
    <3> HIDE DEF er, E
    <3> QED BY <2>1, <2>2
  <2> HIDE DEF er, E
  <2>4. er \in Seq(E)
    BY <2>3, SeqDef
  <2> QED BY <2>3, <2>4
<1>19. stop \in BOOLEAN /\ (stop => k0.failFast /\ bad # {})
  <2>1. k0.failFast \in BOOLEAN
    BY DEF Calls
  <2> HIDE DEF bad
  <2> QED BY <2>1
<1>20. /\ rest \in Seq(Nat) /\ (stop => rest = <<>>) /\ (~stop => Len(rest) = Len(k0.batch) - p)
       /\ \A j \in 1 .. Len(rest) : rest[j] = k0.batch[p + j]
  <2>1. PICK b \in Seq(Nat) : b = k0.batch
    BY DEF Calls
  <2>2. p <= Len(b)
    BY <1>3, <2>1, PartOfBatch
  <2>3. /\ SubSeq(b, p + 1, Len(b)) \in Seq(Nat) /\ Len(SubSeq(b, p + 1, Len(b))) = Len(b) - p
        /\ \A j \in 1 .. Len(b) - p : SubSeq(b, p + 1, Len(b))[j] = b[p + j]
    <3>1. p + 1 \in 1 .. Len(b) + 1 /\ Len(b) \in Nat
      BY <2>2
    <3>2. PICK m \in 1 .. Len(b) + 1 : m = p + 1
      BY <3>1
    <3>3. /\ SubSeq(b, m, Len(b)) \in Seq(Nat) /\ Len(SubSeq(b, m, Len(b))) = Len(b) - m + 1
          /\ \A j \in 1 .. Len(b) - m + 1 : SubSeq(b, m, Len(b))[j] = b[m + j - 1]
      BY <3>1
    <3> QED BY <3>1, <3>2, <3>3
  <2>4. CASE stop
    <3>1. rest = <<>>
      BY <2>4
    <3> HIDE DEF rest
    <3> QED BY <2>4, <3>1
  <2>5. CASE ~stop
    <3>1. rest = SubSeq(b, p + 1, Len(b))
      BY <2>1, <2>5
    <3> HIDE DEF rest, stop
    <3> QED BY <2>1, <2>3, <2>5, <3>1
  <2> QED BY <2>4, <2>5
<1>21. Collected(k0, good, bad, G, B, er, stop, rest, k)
  <2> HIDE DEF E, er, stop, rest
  <2>1. \A j \in bad : er[k0.batch[j]] = k0.results[j]
    BY <1>16
  <2>2. \A x \in (1 .. Len(k0.tasks)) \ B : er[x] = k0.errors[x]
    <3> HIDE DEF B
    <3> QED BY <1>13, <1>17
  <2>3. good = {j \in 1 .. Part(k0) : k0.results[j] = "ok"} /\ bad = (1 .. Part(k0)) \ good
    BY <1>3
  <2>4. G = {k0.batch[j] : j \in good} /\ B = {k0.batch[j] : j \in bad}
    OBVIOUS
  <2>5. er \in Seq(Refusals \cup {"none", "nil", "redis"}) /\ Len(er) = Len(k0.errors)
    BY <1>13, <1>18 DEF E
  <2>6. /\ rest \in Seq(Nat) /\ (stop => rest = <<>>) /\ (~stop => Len(rest) = Len(k0.batch) - Part(k0))
        /\ \A j \in 1 .. Len(rest) : rest[j] = k0.batch[Part(k0) + j]
    BY <1>3, <1>20
  <2> HIDE DEF good, bad, G, B
  <2>7. k = [k0 EXCEPT !.succeeded = @ \cup G, !.failed = @ \cup B, !.errors = er, !.stopped = @ \/ stop,
                    !.batch = rest, !.sent = 0, !.results = <<>>,
                    !.phase = IF rest = <<>> THEN "grouped" ELSE "sending"]
    OBVIOUS
  <2> HIDE DEF k
  <2> QED BY <1>3, <1>5, <1>19, <2>1, <2>2, <2>3, <2>4, <2>5, <2>6, <2>7 DEF Collected
<1> HIDE DEF good, bad, G, B, er, stop, rest, k
<1>22. Collected(call[c], good, bad, G, B, er, stop, rest, k)
  BY <1>1, <1>21
<1> WITNESS good, bad, G, B, er, stop, rest, k
<1> QED BY <1>1, <1>3, <1>6, <1>11, <1>12, <1>22

\* The tasks of a request whose error is one of errs.
ToldBy(k, errs) == {i \in 1 .. Len(k.tasks) : k.errors[i] \in errs}

\* From k to k2 they grow by A.
Grows(k, k2, errs, A) ==
  /\ IsFiniteSet(A)
  /\ ToldBy(k2, errs) = ToldBy(k, errs) \cup A
  /\ A \cap ToldBy(k, errs) = {}

\* What is told to all is what is told to each.
LEMMA ToldToEach ==
  ASSUME call \in [Clients -> Calls], NEW errs
  PROVE  Told(errs) = UNION {{d} \X ToldBy(call[d], errs) : d \in Clients}
<1>1. ASSUME NEW d \in Clients PROVE {i \in Indexes(d) : call[d].errors[i] \in errs} = ToldBy(call[d], errs)
  <2>1. call[d].tasks \in Seq({Nil} \cup TaskValues)
    BY DEF Calls
  <2>2. DOMAIN call[d].tasks = 1 .. Len(call[d].tasks)
    BY <2>1
  <2> QED BY <2>2 DEF Indexes, ToldBy
<1> QED BY <1>1 DEF Told

\* A finite number of tasks is told.
LEMMA ToldFinite ==
  ASSUME call \in [Clients -> Calls], NEW errs
  PROVE  IsFiniteSet(Told(errs))
<1> DEFINE R(d) == {d} \X ToldBy(call[d], errs)
           S == {R(d) : d \in Clients}
<1>1. IsFiniteSet(S)
  <2>1. IsFiniteSet(Clients)
    BY SubmissionAssumption
  <2>2. PICK f : f = [d \in Clients |-> R(d)]
    OBVIOUS
  <2>3. f \in Surjection(Clients, S)
    <3> HIDE DEF R
    <3> QED BY <2>2 DEF Surjection
  <2> QED BY <2>1, <2>3, FS_Surjection
<1>2. ASSUME NEW d \in Clients PROVE IsFiniteSet(R(d))
  <2>1. PICK n \in Nat : n = Len(call[d].tasks)
    <3>1. call[d].tasks \in Seq({Nil} \cup TaskValues)
      BY DEF Calls
    <3> QED BY <3>1
  <2>2. ToldBy(call[d], errs) \in SUBSET (1 .. n)
    BY <2>1 DEF ToldBy
  <2>3. IsFiniteSet(ToldBy(call[d], errs))
    BY <2>2, FiniteTasks
  <2>4. IsFiniteSet({d})
    BY FS_Singleton
  <2> QED BY <2>3, <2>4, FS_Product
<1>3. IsFiniteSet(UNION S)
  <2>1. \A T \in S : IsFiniteSet(T)
    <3> HIDE DEF R
    <3> QED BY <1>2
  <2> HIDE DEF S
  <2> QED BY <1>1, <2>1, FS_UNION
<1> QED BY <1>3, ToldToEach

\* When a client is told more, so many more are told.
LEMMA ToldGrows ==
  ASSUME call \in [Clients -> Calls], NEW c \in Clients, NEW k \in Calls, call' = [call EXCEPT ![c] = k],
         NEW errs, NEW A, Grows(call[c], k, errs, A)
  PROVE  Cardinality(Told(errs)') = Cardinality(Told(errs)) + Cardinality(A)
<1>1. Told(errs) = UNION {{d} \X ToldBy(call[d], errs) : d \in Clients}
  BY ToldToEach
<1>2. call' \in [Clients -> Calls]
  OBVIOUS
<1>3. Told(errs)' = UNION {{d} \X ToldBy(call'[d], errs) : d \in Clients}
  <2>1. ASSUME NEW d \in Clients PROVE {i \in Indexes(d)' : call'[d].errors[i] \in errs} = ToldBy(call'[d], errs)
    <3>1. call'[d].tasks \in Seq({Nil} \cup TaskValues)
      BY <1>2 DEF Calls
    <3>2. DOMAIN call'[d].tasks = 1 .. Len(call'[d].tasks)
      BY <3>1
    <3> QED BY <3>2 DEF Indexes, ToldBy
  <2> QED BY <2>1 DEF Told
<1>4. call'[c] = k /\ \A d \in Clients \ {c} : call'[d] = call[d]
  OBVIOUS
<1> DEFINE old == Told(errs)
           more == {c} \X A
<1>5. Told(errs)' = old \cup more
  <2>1. \A d \in Clients : {d} \X ToldBy(call'[d], errs)
          = IF d = c THEN ({d} \X ToldBy(call[d], errs)) \cup more ELSE {d} \X ToldBy(call[d], errs)
    <3>1. {c} \X ToldBy(call'[c], errs) = ({c} \X ToldBy(call[c], errs)) \cup ({c} \X A)
      <4>1. ToldBy(call'[c], errs) = ToldBy(call[c], errs) \cup A
        BY <1>4 DEF Grows
      <4> QED BY <4>1
    <3> QED BY <1>4, <3>1
  <2>2. UNION {{d} \X ToldBy(call'[d], errs) : d \in Clients}
          = (UNION {{d} \X ToldBy(call[d], errs) : d \in Clients}) \cup more
    <3> DEFINE P(d) == {d} \X ToldBy(call'[d], errs)
               Q(d) == {d} \X ToldBy(call[d], errs)
    <3>1. \A d \in Clients : P(d) = IF d = c THEN Q(d) \cup more ELSE Q(d)
      BY <2>1
    <3>2. UNION {P(d) : d \in Clients} = (UNION {Q(d) : d \in Clients}) \cup more
      <4> HIDE DEF P, Q, more
      <4> QED BY <3>1
    <3> QED BY <3>2
  <2> QED BY <1>1, <1>3, <2>2
<1>6. old \cap more = {}
  <2> SUFFICES ASSUME NEW w \in old, w \in more PROVE FALSE
    OBVIOUS
  <2>1. PICK d \in Clients : w \in {d} \X ToldBy(call[d], errs)
    BY <1>1
  <2>2. w[1] = d /\ w[2] \in ToldBy(call[d], errs) /\ w[1] = c /\ w[2] \in A
    BY <2>1
  <2> QED BY <2>2 DEF Grows
<1>7. IsFiniteSet(old)
  BY ToldFinite
<1>8. IsFiniteSet(more) /\ Cardinality(more) = Cardinality(A)
  <2>1. IsFiniteSet(A) /\ IsFiniteSet({c}) /\ Cardinality({c}) = 1
    BY FS_Singleton DEF Grows
  <2>2. Cardinality(A) \in Nat
    BY <2>1, FS_CardinalityType
  <2>3. IsFiniteSet(more) /\ Cardinality(more) = 1 * Cardinality(A)
    BY <2>1, FS_Product
  <2> QED BY <2>2, <2>3
<1>9. Cardinality(old \cup more) = Cardinality(old) + Cardinality(more) - Cardinality({})
  <2> HIDE DEF old, more
  <2> QED BY <1>6, <1>7, <1>8, FS_Union
<1>10. Cardinality({}) = 0 /\ Cardinality(old) \in Nat /\ Cardinality(more) \in Nat
  BY <1>7, <1>8, FS_EmptySet, FS_CardinalityType
<1> HIDE DEF old, more
<1>11. Cardinality(old \cup more) = Cardinality(old) + Cardinality(A)
  BY <1>8, <1>9, <1>10
<1> QED BY <1>5, <1>11 DEF old

\* The counters follow what a client is told.
LEMMA CountersFollow ==
  ASSUME call \in [Clients -> Calls], CountersAgree, NEW c \in Clients, NEW k \in Calls, call' = [call EXCEPT ![c] = k],
         NEW p, NEW f, NEW d,
         Grows(call[c], k, {"payload"}, p), Grows(call[c], k, {"full"}, f), Grows(call[c], k, {"tooFar", "delayedFull"}, d),
         counter'.payloadRejected = counter.payloadRejected + Cardinality(p),
         counter'.enqueueRejected = counter.enqueueRejected + Cardinality(f),
         counter'.delayedRejected = counter.delayedRejected + Cardinality(d)
  PROVE  CountersAgree'
<1>1. \A errs, A : Grows(call[c], k, errs, A) => Cardinality(Told(errs)') = Cardinality(Told(errs)) + Cardinality(A)
  BY ToldGrows
<1>2. Cardinality(Told({"payload"})') = Cardinality(Told({"payload"})) + Cardinality(p)
  BY <1>1
<1>3. Cardinality(Told({"full"})') = Cardinality(Told({"full"})) + Cardinality(f)
  BY <1>1
<1>4. Cardinality(Told({"tooFar", "delayedFull"})') = Cardinality(Told({"tooFar", "delayedFull"})) + Cardinality(d)
  BY <1>1
<1> QED BY <1>2, <1>3, <1>4 DEF CountersAgree

\* A step after which a client has been told the same.
LEMMA ToldTheSame ==
  ASSUME NEW k, NEW k2, k2.tasks = k.tasks, k2.errors = k.errors, NEW errs
  PROVE  Grows(k, k2, errs, {}) /\ Cardinality({}) = 0
BY FS_EmptySet DEF Grows, ToldBy

\* A request that is taken has been told of nil tasks only.
LEMMA ToldAtFirst ==
  ASSUME NEW k, k.tasks = <<>>, NEW k2, \A i \in 1 .. Len(k2.tasks) : k2.errors[i] \in {"none", "nil"},
         NEW errs, "none" \notin errs, "nil" \notin errs
  PROVE  Grows(k, k2, errs, {})
<1>1. ToldBy(k, errs) = {}
  BY DEF ToldBy
<1>2. ToldBy(k2, errs) = {}
  BY DEF ToldBy
<1> QED BY <1>1, <1>2, FS_EmptySet DEF Grows

\* Replacing the errors of tasks A, of which nothing was told, by errors of errs
\* tells A more; those of other tasks stay outside errs.
LEMMA ToldMore ==
  ASSUME NEW k, NEW k2, k2.tasks = k.tasks, NEW errs, NEW A \in SUBSET (1 .. Len(k.tasks)), Len(k.tasks) \in Nat,
         \A x \in A : k2.errors[x] \in errs /\ k.errors[x] \notin errs,
         \A x \in (1 .. Len(k.tasks)) \ A : k2.errors[x] \in errs <=> k.errors[x] \in errs
  PROVE  Grows(k, k2, errs, A)
<1>1. IsFiniteSet(A)
  BY FiniteTasks
<1>2. ToldBy(k2, errs) = ToldBy(k, errs) \cup A
  BY DEF ToldBy
<1>3. A \cap ToldBy(k, errs) = {}
  BY DEF ToldBy
<1> QED BY <1>1, <1>2, <1>3 DEF Grows

\* The checks of a queue tell of the tasks that are too large or too far.
LEMMA ToldByChecks ==
  ASSUME NEW k, NEW st, Consistent(k, st), NEW q, NEW large, NEW far, NEW er, NEW stop, NEW batch, NEW k2,
         Prepared(k, q, large, far, er, stop, batch, k2),
         large \cap far = {}, \A x \in large : er[x] = "payload", \A x \in far : er[x] = "tooFar"
  PROVE  /\ Grows(k, k2, {"payload"}, large) /\ Grows(k, k2, {"full"}, {}) /\ Grows(k, k2, {"tooFar", "delayedFull"}, far)
<1>1. k \in Calls /\ Len(k.tasks) \in Nat
  <2>1. k \in Calls
    BY DEF Consistent, Formed
  <2>2. k.tasks \in Seq({Nil} \cup TaskValues)
    BY <2>1 DEF Calls
  <2> QED BY <2>1, <2>2
<1>2. k2.tasks = k.tasks /\ k2.errors = er
  <2>1. k2 = [k EXCEPT !.todo = @ \ {q}, !.errors = er, !.failed = @ \cup large \cup far, !.stopped = stop,
                    !.phase = "sending", !.batch = batch, !.sent = 0, !.results = <<>>]
    BY DEF Prepared
  <2> QED BY <1>1, <2>1 DEF Calls
<1>3. large \cup far \subseteq Unprepared(k)
  BY DEF Prepared, Unprepared
<1>4. \A x \in large \cup far : x \in 1 .. Len(k.tasks) /\ k.errors[x] = "none"
  <2>1. Unprepared(k) \cap k.failed = {}
    BY DEF Consistent, Apart, Listed
  <2>2. Unprepared(k) \subseteq 1 .. Len(k.tasks)
    BY DEF Unprepared
  <2> QED BY <1>3, <2>1, <2>2 DEF Consistent, ListedTrue
<1>5. \A x \in (1 .. Len(k.tasks)) \ (large \cup far) : er[x] = k.errors[x]
  BY DEF Prepared
<1>6. PICK all \in SUBSET Nat : all = 1 .. Len(k.tasks)
  OBVIOUS
<1>7. Grows(k, k2, {"payload"}, large)
  <2>1. \A x \in all \ large : k2.errors[x] \in {"payload"} <=> k.errors[x] \in {"payload"}
    BY <1>2, <1>4, <1>5, <1>6
  <2>2. \A x \in large : k2.errors[x] \in {"payload"} /\ k.errors[x] \notin {"payload"}
    BY <1>2, <1>4
  <2> QED BY <1>1, <1>2, <1>4, <1>6, <2>1, <2>2, ToldMore
<1>8. Grows(k, k2, {"full"}, {})
  <2>1. \A x \in all \ {} : k2.errors[x] \in {"full"} <=> k.errors[x] \in {"full"}
    BY <1>2, <1>4, <1>5, <1>6
  <2> QED BY <1>1, <1>2, <1>6, <2>1, ToldMore
<1>9. Grows(k, k2, {"tooFar", "delayedFull"}, far)
  <2>1. \A x \in all \ far : k2.errors[x] \in {"tooFar", "delayedFull"} <=> k.errors[x] \in {"tooFar", "delayedFull"}
    BY <1>2, <1>4, <1>5, <1>6
  <2>2. \A x \in far : k2.errors[x] \in {"tooFar", "delayedFull"} /\ k.errors[x] \notin {"tooFar", "delayedFull"}
    BY <1>2, <1>4
  <2> QED BY <1>1, <1>2, <1>4, <1>6, <2>1, <2>2, ToldMore
<1> QED BY <1>7, <1>8, <1>9

\* The tasks of commands J of batch b.
TasksOf(b, J) == {b[j] : j \in J}

\* As many tasks as commands.
LEMMA AsMany ==
  ASSUME NEW n \in Nat, NEW J \in SUBSET (1 .. n), NEW b, \A i, j \in J : b[i] = b[j] => i = j
  PROVE  IsFiniteSet(TasksOf(b, J)) /\ Cardinality(TasksOf(b, J)) = Cardinality(J)
<1> DEFINE T == {b[j] : j \in J}
<1>1. IsFiniteSet(J)
  BY FiniteTasks
<1>2. PICK f : f = [j \in J |-> b[j]]
  OBVIOUS
<1>3. f \in Surjection(J, T) /\ f \in Injection(J, T)
  BY <1>2 DEF Surjection, Injection, IsInjective
<1> HIDE DEF T
<1>4. IsFiniteSet(T) /\ Cardinality(T) = Cardinality(J)
  BY <1>1, <1>3, FS_Surjection
<1> QED BY <1>4 DEF T, TasksOf

\* Collecting a chunk tells of the tasks that the scripts refused.
LEMMA ToldByScripts ==
  ASSUME NEW k, NEW st, Consistent(k, st), NEW good, NEW bad, NEW G, NEW B, NEW er, NEW stop, NEW rest, NEW k2,
         Collected(k, good, bad, G, B, er, stop, rest, k2)
  PROVE  \E f, d :
           /\ Grows(k, k2, {"payload"}, {}) /\ Grows(k, k2, {"full"}, f) /\ Grows(k, k2, {"tooFar", "delayedFull"}, d)
           /\ Cardinality(f) = Cardinality(Answered(k, "full"))
           /\ Cardinality(d) = Cardinality(Answered(k, "delayedFull"))
<1>1. k \in Calls /\ Len(k.tasks) \in Nat /\ Part(k) \in Nat
  <2>1. k \in Calls
    BY DEF Consistent, Formed
  <2>2. k.tasks \in Seq({Nil} \cup TaskValues)
    BY <2>1 DEF Calls
  <2> QED BY <2>1, <2>2, PartOfBatch
<1>2. k2.tasks = k.tasks /\ k2.errors = er
  <2>1. k2 = [k EXCEPT !.succeeded = @ \cup G, !.failed = @ \cup B, !.errors = er, !.stopped = @ \/ stop,
                    !.batch = rest, !.sent = 0, !.results = <<>>,
                    !.phase = IF rest = <<>> THEN "grouped" ELSE "sending"]
    BY DEF Collected
  <2> QED BY <1>1, <2>1 DEF Calls
<1>3. /\ good = {j \in 1 .. Part(k) : k.results[j] = "ok"} /\ bad = (1 .. Part(k)) \ good
      /\ B = {k.batch[j] : j \in bad}
  BY DEF Collected
<1>4. /\ \A x \in (1 .. Len(k.tasks)) \ B : er[x] = k.errors[x]
      /\ \A j \in bad : er[k.batch[j]] = k.results[j]
  BY DEF Collected
<1>5. \A j \in 1 .. Part(k) : j \in 1 .. Len(k.batch)
  BY <1>1, PartOfBatch
<1>6. \A j \in 1 .. Part(k) : k.batch[j] \in 1 .. Len(k.tasks) /\ k.errors[k.batch[j]] = "none"
  <2>1. \A j \in 1 .. Part(k) : k.batch[j] \in Sending(k)
    BY <1>5 DEF Sending
  <2>2. Sending(k) \cap k.failed = {} /\ Sending(k) \subseteq 1 .. Len(k.tasks)
    BY DEF Consistent, Apart, Listed
  <2> QED BY <2>1, <2>2 DEF Consistent, ListedTrue
<1>7. \A i, j \in 1 .. Part(k) : k.batch[i] = k.batch[j] => i = j
  BY <1>5 DEF Consistent, Apart
<1>8. \A j \in 1 .. Part(k) : k.results[j] \in {"ok", "duplicate", "full", "delayedFull", "redis"}
  <2>1. k.results \in Seq(Results \cup {"redis"}) /\ Len(k.results) = Part(k)
    BY <1>1 DEF Consistent, Formed, Calls, Collected
  <2>2. \A j \in 1 .. Part(k) : k.results[j] \in Results \cup {"redis"}
    BY <2>1
  <2> QED BY <2>2 DEF Results
<1> DEFINE F == Answered(k, "full")
           D == Answered(k, "delayedFull")
           f == {k.batch[j] : j \in F}
           d == {k.batch[j] : j \in D}
<1>9. F \subseteq bad /\ D \subseteq bad /\ F \subseteq 1 .. Part(k) /\ D \subseteq 1 .. Part(k)
  BY <1>3 DEF Answered
<1>10. Cardinality(f) = Cardinality(F) /\ Cardinality(d) = Cardinality(D)
  <2>1. (\A i, j \in F : k.batch[i] = k.batch[j] => i = j) /\ (\A i, j \in D : k.batch[i] = k.batch[j] => i = j)
    BY <1>7, <1>9
  <2> HIDE DEF F, D
  <2>2. PICK n \in Nat : n = Part(k)
    BY <1>1
  <2>3. PICK b : b = k.batch
    OBVIOUS
  <2>4. F \in SUBSET (1 .. n) /\ D \in SUBSET (1 .. n)
    BY <1>9, <2>2
  <2>5. Cardinality(TasksOf(b, F)) = Cardinality(F)
    BY <2>1, <2>3, <2>4, AsMany
  <2>6. Cardinality(TasksOf(b, D)) = Cardinality(D)
    BY <2>1, <2>3, <2>4, AsMany
  <2> QED BY <2>3, <2>5, <2>6 DEF TasksOf
<1>11. PICK all \in SUBSET Nat : all = 1 .. Len(k.tasks)
  OBVIOUS
<1>12. f \subseteq all /\ d \subseteq all
  BY <1>6, <1>9, <1>11
<1>13. /\ \A x \in f : er[x] = "full" /\ k.errors[x] = "none"
       /\ \A x \in d : er[x] = "delayedFull" /\ k.errors[x] = "none"
  BY <1>4, <1>6, <1>9 DEF Answered
<1>14. ASSUME NEW x \in B
       PROVE  /\ k.errors[x] = "none" /\ er[x] # "payload" /\ er[x] # "tooFar"
              /\ (er[x] = "full" => x \in f) /\ (er[x] = "delayedFull" => x \in d)
  <2>1. PICK j \in bad : x = k.batch[j]
    BY <1>3
  <2>2. er[x] = k.results[j] /\ j \in 1 .. Part(k)
    BY <1>3, <1>4, <2>1
  <2>3. (k.results[j] = "full" => j \in F) /\ (k.results[j] = "delayedFull" => j \in D)
    BY <2>2 DEF Answered
  <2>4. k.errors[x] = "none"
    BY <1>6, <2>1, <2>2
  <2>5. er[x] # "payload" /\ er[x] # "tooFar"
    BY <1>8, <2>2
  <2> HIDE DEF F, D
  <2> QED BY <2>1, <2>2, <2>3, <2>4, <2>5
<1>15. \A x \in all \ B : er[x] = k.errors[x]
  BY <1>4, <1>11
<1> HIDE DEF f, d
<1>16. Grows(k, k2, {"payload"}, {})
  <2>1. \A x \in all \ {} : k2.errors[x] \in {"payload"} <=> k.errors[x] \in {"payload"}
    BY <1>2, <1>14, <1>15
  <2> QED BY <1>1, <1>2, <1>11, <2>1, ToldMore
<1>17. Grows(k, k2, {"full"}, f)
  <2>1. \A x \in all \ f : k2.errors[x] \in {"full"} <=> k.errors[x] \in {"full"}
    BY <1>2, <1>14, <1>15
  <2>2. \A x \in f : k2.errors[x] \in {"full"} /\ k.errors[x] \notin {"full"}
    BY <1>2, <1>13
  <2> QED BY <1>1, <1>2, <1>11, <1>12, <2>1, <2>2, ToldMore
<1>18. Grows(k, k2, {"tooFar", "delayedFull"}, d)
  <2>1. \A x \in all \ d : k2.errors[x] \in {"tooFar", "delayedFull"} <=> k.errors[x] \in {"tooFar", "delayedFull"}
    BY <1>2, <1>14, <1>15
  <2>2. \A x \in d : k2.errors[x] \in {"tooFar", "delayedFull"} /\ k.errors[x] \notin {"tooFar", "delayedFull"}
    BY <1>2, <1>13
  <2> QED BY <1>1, <1>2, <1>11, <1>12, <2>1, <2>2, ToldMore
<1> QED BY <1>10, <1>16, <1>17, <1>18

\* A request after a step.
LEMMA OneRequest ==
  ASSUME Tables, Requested, NEW c \in Clients, NEW k, NEW st, Moves(c, k, st)
  PROVE  Tables' /\ Requested' /\ k \in Calls
<1>1. k \in Calls /\ st \in Seq(Nat)
  BY DEF Moves, Consistent, Formed
<1>2. call' = [call EXCEPT ![c] = k] /\ stored' = [stored EXCEPT ![c] = st] /\ Consistent(k, st)
  BY DEF Moves
<1>3. Tables'
  BY <1>1, <1>2 DEF Tables
<1>4. ASSUME NEW d \in Clients PROVE Consistent(call'[d], stored'[d])
  <2>1. CASE d = c
    BY <1>2, <2>1 DEF Tables
  <2>2. CASE d # c
    BY <1>2, <2>2 DEF Tables, Requested
  <2> QED BY <2>1, <2>2
<1> QED BY <1>1, <1>3, <1>4 DEF Requested

\* A request of which nothing more is told and nothing is counted.
LEMMA NothingTold ==
  ASSUME Tables, counter \in Counters, CountersAgree, NEW c \in Clients, NEW k \in Calls, call' = [call EXCEPT ![c] = k],
         counter' = counter,
         \A errs \in {{"payload"}, {"full"}, {"tooFar", "delayedFull"}} : Grows(call[c], k, errs, {})
  PROVE  CountersAgree'
<1>1. Cardinality({}) = 0
  BY FS_EmptySet
<1>2. counter.payloadRejected \in Nat /\ counter.enqueueRejected \in Nat /\ counter.delayedRejected \in Nat
  BY DEF Counters
<1>3. /\ counter'.payloadRejected = counter.payloadRejected + Cardinality({})
      /\ counter'.enqueueRejected = counter.enqueueRejected + Cardinality({})
      /\ counter'.delayedRejected = counter.delayedRejected + Cardinality({})
  BY <1>1, <1>2
<1>4. Grows(call[c], k, {"payload"}, {}) /\ Grows(call[c], k, {"full"}, {}) /\ Grows(call[c], k, {"tooFar", "delayedFull"}, {})
  OBVIOUS
<1> QED BY <1>3, <1>4, CountersFollow DEF Tables

\* The inductive invariant: the counters count what the requests were told, and
\* each request agrees, at every moment on its way, with what was stored of it.
ReportsInv == Tables /\ counter \in Counters /\ Requested /\ CountersAgree

\* Nobody has been told anything.
LEMMA ReportsInit == SubmissionInit => ReportsInv
<1> SUFFICES ASSUME SubmissionInit PROVE ReportsInv
  OBVIOUS
<1>1. Idle \in Calls /\ <<>> \in Seq(Nat) /\ Idle.tasks = <<>>
  BY IdleConsistent DEF Consistent, Formed, Idle
<1>2. Tables
  BY <1>1 DEF SubmissionInit, Tables
<1>3. counter \in Counters
  BY DEF SubmissionInit, Counters
<1>4. Requested
  BY IdleConsistent DEF SubmissionInit, Requested
<1>5. ASSUME NEW errs PROVE Cardinality(Told(errs)) = 0
  <2>1. \A d \in Clients : ToldBy(call[d], errs) = {}
    BY <1>1 DEF SubmissionInit, ToldBy
  <2>2. Told(errs) = {}
    BY <1>2, <2>1, ToldToEach DEF Tables
  <2> QED BY <2>2, FS_EmptySet
<1>6. CountersAgree
  BY <1>5 DEF SubmissionInit, CountersAgree
<1> QED BY <1>2, <1>3, <1>4, <1>6 DEF ReportsInv

\* The checks of a queue.
LEMMA ReportsPrepare ==
  ASSUME ReportsInv, NEW c \in Clients, NEW q \in call[c].todo, Prepare(c, q)
  PROVE  ReportsInv' /\ \E k, st : Moves(c, k, st)
<1>1. Tables /\ counter \in Counters /\ Requested /\ CountersAgree
  BY DEF ReportsInv
<1>2. PICK large, far, er, stop, batch, k :
           /\ Prepared(call[c], q, large, far, er, stop, batch, k)
           /\ call' = [call EXCEPT ![c] = k] /\ stored' = stored
           /\ large \cap far = {} /\ (\A x \in large : er[x] = "payload") /\ (\A x \in far : er[x] = "tooFar")
           /\ counter'.payloadRejected = counter.payloadRejected + Cardinality(large)
           /\ counter'.delayedRejected = counter.delayedRejected + Cardinality(far)
           /\ counter'.enqueueRejected = counter.enqueueRejected
           /\ counter' \in Counters
  BY <1>1, PrepareStep
<1>3. Consistent(call[c], stored[c]) /\ call[c] \in Calls
  BY <1>1 DEF Requested, Tables
<1>4. Consistent(k, stored[c])
  BY <1>2, <1>3, PrepareConsistent
<1>5. k.phase = "sending" /\ k.tasks = call[c].tasks
  <2>1. k = [call[c] EXCEPT !.todo = @ \ {q}, !.errors = er, !.failed = @ \cup large \cup far, !.stopped = stop,
                    !.phase = "sending", !.batch = batch, !.sent = 0, !.results = <<>>]
    BY <1>2 DEF Prepared
  <2> QED BY <1>3, <2>1 DEF Calls
<1>6. Moves(c, k, stored[c])
  <2>1. stored' = [stored EXCEPT ![c] = stored[c]]
    BY <1>1, <1>2 DEF Tables
  <2> QED BY <1>2, <1>4, <1>5, <2>1 DEF Moves
<1>7. Tables' /\ Requested' /\ k \in Calls
  BY <1>1, <1>6, OneRequest
<1>8. Grows(call[c], k, {"payload"}, large) /\ Grows(call[c], k, {"full"}, {}) /\ Grows(call[c], k, {"tooFar", "delayedFull"}, far)
  BY <1>2, <1>3, ToldByChecks
<1>9. counter'.enqueueRejected = counter.enqueueRejected + Cardinality({})
  <2>1. counter.enqueueRejected \in Nat /\ Cardinality({}) = 0
    BY <1>1, FS_EmptySet DEF Counters
  <2> QED BY <1>2, <2>1
<1>10. CountersAgree'
  BY <1>1, <1>2, <1>7, <1>8, <1>9, CountersFollow DEF Tables
<1> QED BY <1>2, <1>6, <1>7, <1>10 DEF ReportsInv

\* The results of a chunk.
LEMMA ReportsCollect ==
  ASSUME ReportsInv, NEW c \in Clients, Collect(c)
  PROVE  ReportsInv' /\ \E k, st : Moves(c, k, st)
<1>1. Tables /\ counter \in Counters /\ Requested /\ CountersAgree
  BY DEF ReportsInv
<1>2. PICK good, bad, G, B, er, stop, rest, k :
           /\ Collected(call[c], good, bad, G, B, er, stop, rest, k)
           /\ call' = [call EXCEPT ![c] = k] /\ stored' = stored
           /\ counter' = MapEnqueueScriptResult(call[c].results) /\ DOMAIN call[c].results = 1 .. Part(call[c])
  BY <1>1, CollectStep
<1>3. Consistent(call[c], stored[c]) /\ call[c] \in Calls
  BY <1>1 DEF Requested, Tables
<1>4. Consistent(k, stored[c])
  BY <1>2, <1>3, CollectConsistent
<1>5. k.phase # "idle" /\ k.tasks = call[c].tasks
  <2>1. k = [call[c] EXCEPT !.succeeded = @ \cup G, !.failed = @ \cup B, !.errors = er, !.stopped = @ \/ stop,
                    !.batch = rest, !.sent = 0, !.results = <<>>,
                    !.phase = IF rest = <<>> THEN "grouped" ELSE "sending"]
    BY <1>2 DEF Collected
  <2> QED BY <1>3, <2>1 DEF Calls
<1>6. Moves(c, k, stored[c])
  <2>1. stored' = [stored EXCEPT ![c] = stored[c]]
    BY <1>1, <1>2 DEF Tables
  <2> QED BY <1>2, <1>4, <1>5, <2>1 DEF Moves
<1>7. Tables' /\ Requested' /\ k \in Calls
  BY <1>1, <1>6, OneRequest
<1>8. PICK f, d :
           /\ Grows(call[c], k, {"payload"}, {}) /\ Grows(call[c], k, {"full"}, f) /\ Grows(call[c], k, {"tooFar", "delayedFull"}, d)
           /\ Cardinality(f) = Cardinality(Answered(call[c], "full"))
           /\ Cardinality(d) = Cardinality(Answered(call[c], "delayedFull"))
  BY <1>2, <1>3, ToldByScripts
<1>9. Cardinality(f) \in Nat /\ Cardinality(d) \in Nat /\ Cardinality({}) = 0
  BY <1>8, FS_CardinalityType, FS_EmptySet DEF Grows
<1>10. /\ counter'.payloadRejected = counter.payloadRejected + Cardinality({})
       /\ counter'.enqueueRejected = counter.enqueueRejected + Cardinality(f)
       /\ counter'.delayedRejected = counter.delayedRejected + Cardinality(d)
       /\ counter' \in Counters
  <2>1. Answered(call[c], "full") = {j \in DOMAIN call[c].results : call[c].results[j] = "full"}
        /\ Answered(call[c], "delayedFull") = {j \in DOMAIN call[c].results : call[c].results[j] = "delayedFull"}
    BY <1>2 DEF Answered
  <2>2. PICK nf \in Nat : nf = Cardinality(f)
    BY <1>9
  <2>3. PICK nd \in Nat : nd = Cardinality(d)
    BY <1>9
  <2>4. counter' = [counter EXCEPT !.enqueueRejected = @ + nf, !.delayedRejected = @ + nd]
    BY <1>2, <1>8, <2>1, <2>2, <2>3 DEF MapEnqueueScriptResult
  <2>5. counter.payloadRejected \in Nat /\ counter.enqueueRejected + nf \in Nat /\ counter.delayedRejected + nd \in Nat
    BY <1>1 DEF Counters
  <2>6. counter' \in Counters
    BY <1>1, <2>4, <2>5 DEF Counters
  <2>7. /\ counter'.payloadRejected = counter.payloadRejected /\ counter'.enqueueRejected = counter.enqueueRejected + nf
        /\ counter'.delayedRejected = counter.delayedRejected + nd
    BY <1>1, <2>4 DEF Counters
  <2> QED BY <1>9, <2>2, <2>3, <2>5, <2>6, <2>7
<1>11. CountersAgree'
  BY <1>1, <1>2, <1>7, <1>8, <1>10, CountersFollow DEF Tables
<1> QED BY <1>6, <1>7, <1>10, <1>11 DEF ReportsInv

\* A step of a client that neither tells nor counts.
LEMMA ReportsQuiet ==
  ASSUME ReportsInv, NEW c \in Clients, NEW k, NEW st, Moves(c, k, st), counter' = counter,
         \A errs \in {{"payload"}, {"full"}, {"tooFar", "delayedFull"}} : Grows(call[c], k, errs, {})
  PROVE  ReportsInv'
<1>1. Tables /\ counter \in Counters /\ Requested /\ CountersAgree
  BY DEF ReportsInv
<1>2. Tables' /\ Requested' /\ k \in Calls /\ call' = [call EXCEPT ![c] = k]
  BY <1>1, OneRequest DEF Moves
<1>3. CountersAgree'
  BY <1>1, <1>2, NothingTold
<1> QED BY <1>1, <1>2, <1>3 DEF ReportsInv

\* Every step of a client.
LEMMA ReportsClient ==
  ASSUME ReportsInv, NEW c \in Clients,
         \/ \E r \in Requests[c] : Open(c, r)
         \/ \E q \in call[c].todo : Prepare(c, q)
         \/ Run(c) \/ Resend(c) \/ Collect(c) \/ Answer(c)
         \/ \E read \in 0 .. call[c].sent : Break(c, read)
  PROVE  ReportsInv' /\ \E k, st : Moves(c, k, st)
<1>1. Tables /\ Requested
  BY DEF ReportsInv
<1>2. ASSUME NEW k, NEW st, Moves(c, k, st), k.errors = call[c].errors, call[c].phase # "idle", counter' = counter
      PROVE  ReportsInv'
  <2>1. k.tasks = call[c].tasks
    BY <1>2 DEF Moves
  <2>2. \A errs \in {{"payload"}, {"full"}, {"tooFar", "delayedFull"}} : Grows(call[c], k, errs, {})
    BY <1>2, <2>1, ToldTheSame
  <2> QED BY <1>2, <2>2, ReportsQuiet
<1>3. CASE \E r \in Requests[c] : Open(c, r)
  <2>1. PICK r \in Requests[c] : Open(c, r)
    BY <1>3
  <2>2. PICK k, st : /\ Consistent(k, st) /\ k.phase # "idle"
                     /\ \A i \in 1 .. Len(k.tasks) : k.errors[i] \in {"none", "nil"}
                     /\ call' = [call EXCEPT ![c] = k] /\ stored' = [stored EXCEPT ![c] = st]
    BY <2>1, OpenStep
  <2>3. call[c].phase = "idle" /\ counter' = counter
    BY <2>1 DEF Open
  <2>4. Moves(c, k, st)
    BY <2>2, <2>3 DEF Moves
  <2>5. call[c].tasks = <<>>
    <3>1. call[c] = Idle
      BY <1>1, <2>3 DEF Requested, Consistent, Formed
    <3>2. Idle.tasks = <<>>
      BY DEF Idle
    <3> QED BY <3>1, <3>2
  <2>6. \A errs \in {{"payload"}, {"full"}, {"tooFar", "delayedFull"}} : Grows(call[c], k, errs, {})
    BY <2>2, <2>5, ToldAtFirst
  <2> QED BY <2>3, <2>4, <2>6, ReportsQuiet
<1>4. CASE \E q \in call[c].todo : Prepare(c, q)
  BY <1>4, ReportsPrepare
<1>5. CASE Run(c)
  <2>1. call[c].phase # "idle" /\ counter' = counter
    BY <1>5 DEF Run
  <2>2. PICK k, st : Moves(c, k, st) /\ k.errors = call[c].errors
    BY <1>1, <1>5, RunStep
  <2> QED BY <1>2, <2>1, <2>2
<1>6. CASE Resend(c)
  <2>1. call[c].phase # "idle" /\ counter' = counter
    BY <1>6 DEF Resend
  <2>2. PICK k : Moves(c, k, stored[c]) /\ k.errors = call[c].errors
    BY <1>1, <1>6, ResendStep
  <2> QED BY <1>2, <2>1, <2>2
<1>7. CASE Collect(c)
  BY <1>7, ReportsCollect
<1>8. CASE Answer(c)
  <2>1. call[c].phase # "idle" /\ counter' = counter
    BY <1>8 DEF Answer
  <2>2. PICK k : Moves(c, k, stored[c]) /\ k.errors = call[c].errors
    BY <1>1, <1>8, AnswerStep
  <2> QED BY <1>2, <2>1, <2>2
<1>9. CASE \E read \in 0 .. call[c].sent : Break(c, read)
  <2>1. PICK read \in 0 .. call[c].sent : Break(c, read)
    BY <1>9
  <2>2. call[c].phase # "idle" /\ counter' = counter
    BY <2>1 DEF Break
  <2>3. PICK k : Moves(c, k, stored[c]) /\ k.errors = call[c].errors
    BY <1>1, <2>1, BreakStep
  <2> QED BY <1>2, <2>2, <2>3
<1> QED BY <1>3, <1>4, <1>5, <1>6, <1>7, <1>8, <1>9

\* Every step.
LEMMA ReportsStep == ReportsInv /\ [SubmissionNext]_submissionVars => ReportsInv'
<1> SUFFICES ASSUME ReportsInv, [SubmissionNext]_submissionVars PROVE ReportsInv'
  OBVIOUS
<1>1. ASSUME call' = call, counter' = counter, stored' = stored PROVE ReportsInv'
  BY <1>1 DEF ReportsInv, Tables, Requested, CountersAgree, Told, Indexes
<1>2. CASE UNCHANGED submissionVars
  BY <1>1, <1>2 DEF submissionVars
<1>3. CASE \E i \in DOMAIN stream : Process(i)
  BY <1>1, <1>3 DEF Process
<1>4. CASE \E m \in delayed : ProcessDelayed(m)
  BY <1>1, <1>4 DEF ProcessDelayed
<1> QED BY <1>2, <1>3, <1>4, ReportsClient DEF SubmissionNext

\* The invariant says what the reply has to say.
LEMMA ReportsImply == ReportsInv => ReportsTruthful
<1> SUFFICES ASSUME ReportsInv PROVE ReportsTruthful
  OBVIOUS
<1>1. Tables /\ Requested /\ CountersAgree
  BY DEF ReportsInv
<1>2. ASSUME NEW c \in Clients, Done(c)
      PROVE  LET listed == call[c].succeeded \cup call[c].failed IN
             /\ \A i \in call[c].succeeded : stored[c][i] > 0
             /\ \A i \in call[c].failed : call[c].errors[i] \in Refusals /\ ~call[c].broken => stored[c][i] = 0
             /\ \A i \in Indexes(c) \ listed : stored[c][i] = 0
             /\ call[c].reply # "InvalidArgument" /\ ~call[c].failFast => listed = Indexes(c)
             /\ call[c].reply = "OK" /\ call[c].failed = {} => \A i \in Indexes(c) : stored[c][i] > 0
             /\ ~call[c].broken => \A i \in Indexes(c) : stored[c][i] <= 1
  <2>1. PICK k : k = call[c]
    OBVIOUS
  <2>2. PICK st : st = stored[c]
    OBVIOUS
  <2>3. Consistent(k, st) /\ k \in Calls /\ k.phase = "done"
    BY <1>1, <1>2, <2>1, <2>2 DEF Requested, Tables, Done
  <2>4. Indexes(c) = 1 .. Len(k.tasks)
    <3>1. k.tasks \in Seq({Nil} \cup TaskValues)
      BY <2>3 DEF Calls
    <3> QED BY <2>1, <3>1 DEF Indexes
  <2>5. Sending(k) = {}
    <3>1. k.batch = <<>>
      BY <2>3 DEF Consistent, Formed
    <3> QED BY <3>1 DEF Sending
  <2>6. ListedTrue(k, st) /\ Replied(k)
    BY <2>3 DEF Consistent
  <2> QED BY <2>1, <2>2, <2>3, <2>4, <2>5, <2>6 DEF ListedTrue, Replied, Listed
<1> QED BY <1>1, <1>2 DEF ReportsTruthful, ReplyAgrees

\* Whatever the requests, limits, queues and chunks, however submitters
\* interleave and wherever a connection breaks or a chunk is sent again: the
\* reply of EnqueueBulk and of the front ends tells what is in Redis, and the
\* rejection counters count each refusal that a submitter was told of once.
THEOREM RepliesAreTruthful == SubmissionSpec => []ReportsTruthful
BY ReportsInit, ReportsStep, ReportsImply, PTL DEF SubmissionSpec

\* The inductive invariant: besides, Redis holds encodings of submitted tasks
\* and a worker has seen nothing else.
DeliveryInv == ReportsInv /\ setting \in Settings /\ Stored /\ Seen /\ DeliveredAsSubmitted /\ breaks \in 0 .. MaxBreaks

\* The codecs of a configuration.
LEMMA Codecs ==
  ASSUME setting \in Settings
  PROVE  setting.clientCodec \in {"json", "binary"} /\ setting.workerCodec \in {"json", "binary"}
BY SubmissionAssumption DEF IsSetting

\* JSON keeps text.
LEMMA TextKept ==
  ASSUME NEW v \in Seq(Int), \A j \in DOMAIN v : v[j] \notin NotUTF8
  PROVE  JSONString(v) = v
<1>1. v = [j \in DOMAIN v |-> v[j]]
  OBVIOUS
<1> QED BY <1>1 DEF JSONString

\* JSON keeps every field of a task whose strings are text.
LEMMA JSONKept ==
  ASSUME NEW t \in TaskValues, IsText(t)
  PROVE  MarshalJSON(t) = t
<1>1. t \in Seq(Int \cup Seq(Int)) /\ Len(t) = 15
  BY TaskFields
<1>2. t = [i \in 1 .. 15 |-> t[i]]
  BY <1>1
<1>3. ASSUME NEW i \in 1 .. 15 PROVE (IF i \in Strings THEN JSONString(t[i]) ELSE t[i]) = t[i]
  <2>1. CASE i \in Strings
    <3>1. t[i] \in Seq(Int)
      BY <2>1, Fields DEF Strings
    <3> QED BY <2>1, <3>1, TextKept DEF IsText
  <2> QED BY <2>1
<1>4. MarshalJSON(t) = [i \in 1 .. 15 |-> IF i \in Strings THEN JSONString(t[i]) ELSE t[i]]
  BY Fields DEF MarshalJSON
<1> QED BY <1>2, <1>3, <1>4

\* A worker with the submitter's codec decodes the task that was encoded.
LEMMA Decoded ==
  ASSUME NEW x \in {"json", "binary"}, NEW t \in TaskValues, Encodable(x, t)
  PROVE  Unmarshal(x, Marshal(x, t)) = [ok |-> TRUE, task |-> t]
<1>1. CASE x = "binary"
  <2>1. UnmarshalBinary(MarshalBinary(t)) = [ok |-> TRUE, task |-> t]
    BY <1>1, RoundTrip DEF Encodable
  <2>2. Marshal(x, t).codec = x /\ Marshal(x, t).cells = MarshalBinary(t)
    BY <1>1 DEF Marshal
  <2> QED BY <1>1, <2>1, <2>2 DEF Unmarshal
<1>2. CASE x = "json"
  <2>1. MarshalJSON(t) = t
    BY <1>2, JSONKept DEF Encodable
  <2>2. Marshal(x, t).codec = x /\ Marshal(x, t).cells = t
    BY <1>2, <2>1 DEF Marshal
  <2> QED BY <1>2, <2>2 DEF Unmarshal
<1> QED BY <1>1, <1>2

\* What a step of client c leaves of the requests.
LEMMA TasksKept ==
  ASSUME Tables, NEW c \in Clients, NEW k, NEW st, Moves(c, k, st), NEW d \in Clients, call[d].phase # "idle"
  PROVE  call'[d].phase # "idle" /\ call'[d].tasks = call[d].tasks
<1>1. call' = [call EXCEPT ![c] = k]
  BY DEF Moves
<1>2. CASE d = c
  BY <1>1, <1>2 DEF Moves, Tables
<1>3. CASE d # c
  BY <1>1, <1>3 DEF Tables
<1> QED BY <1>2, <1>3

\* Entries stay genuine.
LEMMA EntriesKept ==
  ASSUME Tables, NEW c \in Clients, NEW k, NEW st, Moves(c, k, st), setting' = setting
  PROVE  Entries \subseteq Entries'
<1> SUFFICES ASSUME NEW e \in Entries PROVE e \in Entries'
  OBVIOUS
<1>1. e.client \in Clients /\ call[e.client].phase # "idle"
  BY DEF Entries, Genuine
<1>2. call'[e.client].phase # "idle" /\ call'[e.client].tasks = call[e.client].tasks
  BY <1>1, TasksKept
<1> QED BY <1>1, <1>2 DEF Entries, Genuine, Origin, Indexes

\* The entry of a task that a request is sending.
LEMMA EntryGenuine ==
  ASSUME Tables, setting \in Settings, NEW c \in Clients, NEW i \in 1 .. Len(call[c].tasks), call[c].tasks[i] # Nil,
         call[c].phase # "idle"
  PROVE  EntryOf(c, i) \in Entries
<1>1. call[c] \in Calls
  BY DEF Tables
<1>2. call[c].tasks \in Seq({Nil} \cup TaskValues) /\ call[c].at \in Nat
  BY <1>1 DEF Calls
<1>3. PICK t \in TaskValues : t = call[c].tasks[i]
  BY <1>2
<1>4. i \in Nat /\ i \in Indexes(c)
  BY <1>2 DEF Indexes
<1>5. PICK x \in {"json", "binary"} : x = setting.clientCodec
  BY Codecs
<1>6. PICK m : m = Marshal(x, t)
  OBVIOUS
<1>7. EntryOf(c, i) = [client |-> c, index |-> i, data |-> m, at |-> call[c].at]
  BY <1>3, <1>5, <1>6 DEF EntryOf
<1>8. m \in {Marshal(y, u) : y \in {"json", "binary"}, u \in TaskValues}
  BY <1>6
<1>9. PICK e : e = EntryOf(c, i)
  OBVIOUS
<1>10. e.client = c /\ e.index = i /\ e.data = m
  BY <1>7, <1>9
<1>11. Genuine(e)
  BY <1>3, <1>4, <1>5, <1>6, <1>10 DEF Genuine, Origin
<1>12. e \in [client : Clients, index : Nat, data : {Marshal(y, u) : y \in {"json", "binary"}, u \in TaskValues}, at : Nat]
  BY <1>2, <1>4, <1>7, <1>8, <1>9
<1> QED BY <1>9, <1>11, <1>12 DEF Entries

\* What a worker takes is the submitted task, or its encoding could not hold it.
LEMMA DecodeStep ==
  ASSUME Tables, setting \in Settings, Seen, DeliveredAsSubmitted, NEW e \in Entries, Decode(e), call' = call, setting' = setting
  PROVE  Seen' /\ DeliveredAsSubmitted'
<1>1. e.client \in Clients /\ call[e.client].phase # "idle" /\ e.index \in Indexes(e.client) /\ Origin(e) # Nil
      /\ e.data = Marshal(setting.clientCodec, Origin(e))
  BY DEF Entries, Genuine
<1>2. PICK t \in TaskValues : t = Origin(e)
  <2>1. call[e.client].tasks \in Seq({Nil} \cup TaskValues)
    BY <1>1 DEF Tables, Calls
  <2> QED BY <1>1, <2>1 DEF Origin, Indexes
<1>3. wrong' = wrong \/ (wrong' = wrong \cup {<<e.client, e.index>>}
                          /\ Unmarshal(setting.workerCodec, e.data) # [ok |-> TRUE, task |-> t])
  <2>1. PICK d : d = Unmarshal(setting.workerCodec, e.data)
    OBVIOUS
  <2>2. wrong' = IF d.ok /\ d.task = t THEN wrong ELSE wrong \cup {<<e.client, e.index>>}
    BY <1>2, <2>1 DEF Decode
  <2>3. d = [ok |-> TRUE, task |-> t] => d.ok /\ d.task = t
    OBVIOUS
  <2> QED BY <2>1, <2>2, <2>3
<1>4. ASSUME NEW w \in wrong'
      PROVE  /\ w[1] \in Clients /\ call[w[1]].phase # "idle" /\ w[2] \in Indexes(w[1])
             /\ \/ setting.clientCodec # setting.workerCodec
                \/ ~Encodable(setting.clientCodec, call[w[1]].tasks[w[2]])
  <2>1. CASE w \in wrong
    BY <2>1 DEF Seen, DeliveredAsSubmitted
  <2>2. CASE w \notin wrong
    <3>1. w = <<e.client, e.index>> /\ Unmarshal(setting.workerCodec, e.data) # [ok |-> TRUE, task |-> t]
      BY <1>3, <2>2
    <3>2. call[w[1]].tasks[w[2]] = t
      BY <1>2, <3>1 DEF Origin
    <3>3. ASSUME setting.clientCodec = setting.workerCodec, Encodable(setting.clientCodec, t) PROVE FALSE
      <4>1. PICK x \in {"json", "binary"} : x = setting.clientCodec
        BY Codecs
      <4>2. Unmarshal(x, Marshal(x, t)) = [ok |-> TRUE, task |-> t]
        BY <3>3, <4>1, Decoded
      <4> QED BY <1>1, <1>2, <3>1, <3>3, <4>1, <4>2
    <3> QED BY <1>1, <3>1, <3>2, <3>3
  <2> QED BY <2>1, <2>2
<1>5. Seen'
  BY <1>4 DEF Seen, Indexes
<1>6. DeliveredAsSubmitted'
  BY <1>4 DEF DeliveredAsSubmitted
<1> QED BY <1>5, <1>6

\* Removing an entry leaves entries.
LEMMA RemovedEntry ==
  ASSUME NEW S, NEW s \in Seq(S), NEW i \in DOMAIN s
  PROVE  RemoveAt(s, i) \in Seq(S)
<1>1. Len(s) \in Nat /\ i \in 1 .. Len(s)
  OBVIOUS
<1>2. SubSeq(s, 1, i - 1) \in Seq(S) /\ SubSeq(s, i + 1, Len(s)) \in Seq(S)
  <2>1. SubSeq(s, 1, i - 1) \in Seq(S)
    BY <1>1, SubSeqProperties
  <2>2. SubSeq(s, i + 1, Len(s)) \in Seq(S)
    BY <1>1, SubSeqProperties
  <2> QED BY <2>1, <2>2
<1> QED BY <1>2, ConcatProperties DEF RemoveAt

\* Nothing was stored or decoded.
LEMMA DeliveryInit == SubmissionInit => DeliveryInv
<1> SUFFICES ASSUME SubmissionInit PROVE DeliveryInv
  OBVIOUS
<1>1. ReportsInv
  BY ReportsInit
<1>2. Stored /\ Seen /\ DeliveredAsSubmitted
  <2>1. stream = <<>> /\ delayed = {} /\ wrong = {}
    BY DEF SubmissionInit
  <2>2. <<>> \in Seq(Entries)
    OBVIOUS
  <2> QED BY <2>1, <2>2 DEF Stored, Seen, DeliveredAsSubmitted
<1>3. setting \in Settings /\ breaks \in 0 .. MaxBreaks
  BY SubmissionAssumption DEF SubmissionInit
<1> QED BY <1>1, <1>2, <1>3 DEF DeliveryInv

\* A step of a client keeps what was stored and decoded.
LEMMA DeliveryKept ==
  ASSUME DeliveryInv, NEW c \in Clients, NEW k, NEW st, Moves(c, k, st), setting' = setting, wrong' = wrong
  PROVE  /\ stream' = stream /\ delayed' = delayed => Stored'
         /\ Seen' /\ DeliveredAsSubmitted'
<1>1. Tables /\ Stored /\ Seen /\ DeliveredAsSubmitted
  BY DEF DeliveryInv, ReportsInv
<1>2. Entries \subseteq Entries'
  BY <1>1, EntriesKept
<1>3. stream' = stream /\ delayed' = delayed => Stored'
  BY <1>1, <1>2 DEF Stored
<1>4. \A w \in wrong : call'[w[1]].phase # "idle" /\ call'[w[1]].tasks = call[w[1]].tasks
  BY <1>1, TasksKept DEF Seen
<1>5. Seen'
  BY <1>1, <1>4 DEF Seen, Indexes
<1>6. DeliveredAsSubmitted'
  BY <1>1, <1>4 DEF DeliveredAsSubmitted
<1> QED BY <1>3, <1>5, <1>6

\* A command stores a genuine entry or nothing.
LEMMA DeliveryRun ==
  ASSUME DeliveryInv, NEW c \in Clients, Run(c)
  PROVE  Stored'
<1>1. Tables /\ Requested /\ Stored /\ setting \in Settings
  BY DEF DeliveryInv, ReportsInv
<1>2. PICK k, st, i : /\ Moves(c, k, st)
                      /\ i \in 1 .. Len(call[c].tasks) /\ call[c].tasks[i] # Nil /\ call[c].phase # "idle"
                      /\ \E result \in Results : EnqueueDelayed(c, i, result) \/ EnqueueStream(c, i, result)
  BY <1>1, RunStep
<1>3. setting' = setting
  BY DEF Run
<1>4. Entries \subseteq Entries'
  BY <1>1, <1>2, <1>3, EntriesKept
<1>5. EntryOf(c, i) \in Entries'
  BY <1>1, <1>2, <1>4, EntryGenuine
<1>6. stream' \in {stream, Append(stream, EntryOf(c, i))} /\ delayed' \subseteq delayed \cup {EntryOf(c, i)}
  <2>1. PICK result \in Results : EnqueueDelayed(c, i, result) \/ EnqueueStream(c, i, result)
    BY <1>2
  <2>2. CASE EnqueueDelayed(c, i, result)
    BY <2>2 DEF EnqueueDelayed
  <2>3. CASE EnqueueStream(c, i, result)
    BY <2>3 DEF EnqueueStream
  <2> QED BY <2>1, <2>2, <2>3
<1>7. stream \in Seq(Entries') /\ delayed \subseteq Entries'
  BY <1>1, <1>4 DEF Stored
<1>8. Append(stream, EntryOf(c, i)) \in Seq(Entries')
  BY <1>5, <1>7, AppendProperties
<1> QED BY <1>5, <1>6, <1>7, <1>8 DEF Stored

\* Every step.
LEMMA DeliveryStep == DeliveryInv /\ [SubmissionNext]_submissionVars => DeliveryInv'
<1> SUFFICES ASSUME DeliveryInv, [SubmissionNext]_submissionVars PROVE DeliveryInv'
  OBVIOUS
<1>1. ReportsInv'
  BY ReportsStep DEF DeliveryInv
<1>2. /\ ReportsInv /\ Tables /\ setting \in Settings /\ Stored /\ Seen /\ DeliveredAsSubmitted /\ breaks \in 0 .. MaxBreaks
      /\ MaxBreaks \in Nat
  BY SubmissionAssumption DEF DeliveryInv, ReportsInv
<1>3. CASE UNCHANGED submissionVars
  <2>1. Entries' = Entries
    BY <1>3 DEF submissionVars, Entries, Genuine, Origin, Indexes
  <2>2. Stored'
    BY <1>2, <1>3, <2>1 DEF submissionVars, Stored
  <2>3. Seen' /\ DeliveredAsSubmitted' /\ setting' \in Settings /\ breaks' \in 0 .. MaxBreaks
    BY <1>2, <1>3 DEF submissionVars, Seen, DeliveredAsSubmitted, Indexes
  <2> QED BY <1>1, <2>2, <2>3 DEF DeliveryInv
<1>4. ASSUME NEW c \in Clients,
             \/ \E r \in Requests[c] : Open(c, r)
             \/ \E q \in call[c].todo : Prepare(c, q)
             \/ Run(c) \/ Resend(c) \/ Collect(c) \/ Answer(c)
             \/ \E read \in 0 .. call[c].sent : Break(c, read)
      PROVE  DeliveryInv'
  <2>1. PICK k, st : Moves(c, k, st)
    BY <1>2, <1>4, ReportsClient
  <2>2. setting' = setting /\ wrong' = wrong
    BY <1>4 DEF Open, Prepare, Run, Resend, Collect, Answer, Break
  <2>3. Run(c) \/ (stream' = stream /\ delayed' = delayed)
    BY <1>4 DEF Open, Prepare, Resend, Collect, Answer, Break
  <2>4. Stored' /\ Seen' /\ DeliveredAsSubmitted'
    BY <2>1, <2>2, <2>3, DeliveryKept, DeliveryRun
  <2>5. breaks' \in 0 .. MaxBreaks
    <3>1. breaks' = breaks \/ (breaks < MaxBreaks /\ breaks' = breaks + 1)
      BY <1>4 DEF Open, Prepare, Run, Resend, Collect, Answer, Break
    <3> QED BY <1>2, <3>1
  <2> QED BY <1>1, <1>2, <2>2, <2>4, <2>5 DEF DeliveryInv
<1>5. ASSUME NEW e \in Entries, Decode(e), stream' \in Seq(Entries), delayed' \subseteq Entries,
             UNCHANGED <<setting, call, counter, stored, breaks>>
      PROVE  DeliveryInv'
  <2>1. Seen' /\ DeliveredAsSubmitted'
    BY <1>2, <1>5, DecodeStep
  <2>2. Entries' = Entries
    BY <1>5 DEF Entries, Genuine, Origin, Indexes
  <2>3. Stored'
    BY <1>5, <2>2 DEF Stored
  <2> QED BY <1>1, <1>2, <1>5, <2>1, <2>3 DEF DeliveryInv
<1>6. CASE \E i \in DOMAIN stream : Process(i)
  <2>1. PICK i \in DOMAIN stream : Process(i)
    BY <1>6
  <2>2. stream[i] \in Entries
    BY <1>2 DEF Stored
  <2>3. stream' \in Seq(Entries)
    BY <1>2, <2>1, RemovedEntry DEF Stored, Process
  <2> QED BY <1>2, <1>5, <2>1, <2>2, <2>3 DEF Stored, Process
<1>7. CASE \E m \in delayed : ProcessDelayed(m)
  BY <1>2, <1>5, <1>7 DEF Stored, ProcessDelayed
<1> QED BY <1>3, <1>4, <1>6, <1>7 DEF SubmissionNext

\* The invariant implies the type.
LEMMA DeliveryTyped == DeliveryInv => SubmissionTypeOK
<1> SUFFICES ASSUME DeliveryInv PROVE SubmissionTypeOK
  OBVIOUS
<1>1. /\ Tables /\ Requested /\ counter \in Counters /\ setting \in Settings /\ Stored /\ Seen /\ breaks \in 0 .. MaxBreaks
  BY DEF DeliveryInv, ReportsInv
<1>2. \A c \in Clients : Len(call[c].errors) = Len(call[c].tasks) /\ Len(stored[c]) = Len(call[c].tasks)
  BY <1>1 DEF Requested, Consistent, Formed
<1>3. Range(stream) \cup delayed \subseteq Entries
  <2>1. Range(stream) \subseteq Entries
    BY <1>1 DEF Stored, Range
  <2> QED BY <1>1, <2>1 DEF Stored
<1>4. \A e \in Entries : e.client \in Clients /\ e.index \in Indexes(e.client)
  BY DEF Entries, Genuine
<1> QED BY <1>1, <1>2, <1>3, <1>4 DEF SubmissionTypeOK, Tables, Counters, Seen

\* Whatever is submitted, stored twice, dropped or taken in between: a worker
\* with the submitter's codec decodes the task that was submitted, unless the
\* binary format has no room for it or JSON is given a string that is no text.
THEOREM TasksAreDelivered == SubmissionSpec => []DeliveredAsSubmitted
<1>1. DeliveryInv => DeliveredAsSubmitted
  BY DEF DeliveryInv
<1> QED BY <1>1, DeliveryInit, DeliveryStep, PTL DEF SubmissionSpec

\* Requests, entries, counters and the history stay in their types: what is
\* stored, or was seen by a worker, belongs to a task of a request.
THEOREM SubmissionTyped == SubmissionSpec => []SubmissionTypeOK
BY DeliveryInit, DeliveryStep, DeliveryTyped, PTL DEF SubmissionSpec

=============================================================================
