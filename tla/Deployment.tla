------------------------------ MODULE Deployment ------------------------------
(***************************************************************************)
(* Processes of one configuration: which maintenance loops each role runs, *)
(* for which consumer group and with which collaborators, how the loops of *)
(* several processes cover for each other when one stops, dies or panics,  *)
(* and the heartbeat key they share.                                       *)
(*                                                                         *)
(* A queue holds at most one stream entry and one cron job at a time.      *)
(***************************************************************************)
EXTENDS Naturals, Sequences, FiniteSets

CONSTANTS
  Queues,        \* configured queues
  Procs,         \* processes
  QueueConfigs,  \* the configurations a queue may have
  NoProc,        \* an entry nobody holds
  MaxStarts,     \* bound: process starts
  MaxBeatFaults  \* bound: failed heartbeat writes

Kinds == {"scheduler", "janitor", "retention", "cron"}

ASSUME DeploymentAssumption ==
  /\ NoProc \notin Procs
  /\ QueueConfigs \subseteq [group : Seq(STRING), priority : BOOLEAN, disabled : SUBSET Kinds]
  /\ {MaxStarts, MaxBeatFaults} \subseteq Nat

VARIABLES
  cfg,        \* config.TaskMQ.Queues
  role,       \* "down", or the role of the running process
  created,    \* queues whose consumer group exists
  entry,      \* the stream entry of each queue
  holder,     \* the process that executes it
  chain,      \* the cron job of each queue: "none", "armed", or "lost" when no member is left
  beat,       \* heartbeat intervals until the key expires, 0 when it is gone
  due,        \* intervals until each process writes it again
  missed,     \* history: writes of the process that failed since the last one that did not
  written,    \* history: processes that have written the key since they started
  unlisted,   \* history: intervals a consuming process has ended without the key
  erased,     \* history: a stopping process deleted the key since the last write
  silent,     \* history: intervals since a consuming process was up
  panicked,   \* history: queues whose scheduler met a cron task without a cron manager
  starts,     \* history: process starts
  beatFaults  \* history: failed heartbeat writes

queueVars == <<entry, holder, chain, panicked>>
beatVars  == <<beat, due, missed, written, unlisted, erased, silent, beatFaults>>
deploymentVars == <<cfg, role, created, starts, queueVars, beatVars>>

Roles == {"all", "worker", "daemon"}
EntryStates == {"none", "unseen", "undelivered", "held", "orphan"}

\* The heartbeat key lives 30 s and is written every 10 s.
Lifetime == 3
Interval == 1

DeploymentTypeOK ==
  /\ cfg \in [Queues -> QueueConfigs]
  /\ role \in [Procs -> Roles \cup {"down"}]
  /\ created \subseteq Queues
  /\ entry \in [Queues -> EntryStates]
  /\ holder \in [Queues -> Procs \cup {NoProc}]
  /\ chain \in [Queues -> {"none", "armed", "lost"}]
  /\ beat \in 0 .. Lifetime
  /\ due \in [Procs -> 0 .. Interval]
  /\ missed \in [Procs -> 0 .. MaxBeatFaults]
  /\ written \subseteq Procs
  /\ unlisted \in [Procs -> 0 .. MaxBeatFaults + 1]
  /\ erased \in BOOLEAN
  /\ silent \in 0 .. Lifetime + 1
  /\ panicked \subseteq Queues
  /\ starts \in 0 .. MaxStarts
  /\ beatFaults \in 0 .. MaxBeatFaults

DeploymentInit ==
  /\ cfg \in [Queues -> QueueConfigs]
  /\ role = [p \in Procs |-> "down"]
  /\ created = {}
  /\ entry = [q \in Queues |-> "none"]
  /\ holder = [q \in Queues |-> NoProc]
  /\ chain = [q \in Queues |-> "none"]
  /\ beat = 0
  /\ due = [p \in Procs |-> 0]
  /\ missed = [p \in Procs |-> 0]
  /\ written = {}
  /\ unlisted = [p \in Procs |-> 0]
  /\ erased = FALSE
  /\ silent = Lifetime + 1
  /\ panicked = {}
  /\ starts = 0
  /\ beatFaults = 0

-----------------------------------------------------------------------------
(* Wiring: what a role runs for a queue. *)

WorkerGroup(q) ==
  IF cfg[q].priority THEN <<"taskmq-priority-group">>
  ELSE IF cfg[q].group # <<>> THEN cfg[q].group
  ELSE <<"taskmq-group-", q>>

DaemonGroup(q) ==
  IF cfg[q].group # <<>> THEN cfg[q].group ELSE <<"taskmq-daemon-group">>

\* One loop of kind k; a scheduler reschedules cron tasks only if it was built
\* with a cron manager.
Runner(k, q, group, processes, off) ==
  [kind |-> k, queue |-> q, group |-> group, processes |-> processes, reschedules |-> "cron" \notin off]

\* Mutant: a pure consumer keeps its scheduler.
PureConsumerWithScheduler == Kinds \ {"scheduler"}

\* WithPureConsumer.
PureConsumer == Kinds

\* NewWorkerPool: the janitor processes what it reclaims.
WorkerPool(q, pure) ==
  LET off == cfg[q].disabled \cup (IF pure THEN PureConsumer ELSE {})
  IN  {Runner(k, q, WorkerGroup(q), TRUE, off) : k \in Kinds \ off}

\* NewPriorityWorker: the queue's own switches are not looked at.
PriorityWorker(q, pure) ==
  LET off == IF pure THEN PureConsumer ELSE {}
  IN  {Runner(k, q, WorkerGroup(q), TRUE, off) : k \in Kinds \ off}

\* BuildWorkerTopologyWithLifecycle.
BuildWorkerTopology(r) ==
  UNION {IF cfg[q].priority THEN PriorityWorker(q, r = "worker") ELSE WorkerPool(q, r = "worker") : q \in Queues}

\* BuildQueueDaemons: no processor is registered with the janitor.
BuildQueueDaemons(q) ==
  {Runner(k, q, DaemonGroup(q), FALSE, cfg[q].disabled) : k \in Kinds \ cfg[q].disabled}

\* What process p runs, by its role; only a daemon starts the daemon set.
Runners(p) ==
  CASE role[p] = "down"   -> {}
    [] role[p] = "daemon" -> UNION {BuildQueueDaemons(q) : q \in Queues}
    [] OTHER              -> BuildWorkerTopology(role[p])

Consumes(p) == role[p] \in {"all", "worker"}

-----------------------------------------------------------------------------
(* Heartbeat of a consuming process. *)

BeatFault == beatFaults < MaxBeatFaults /\ beatFaults' = beatFaults + 1

\* Mutant: the key expires before the next write.
BeatBriefly(p) ==
  /\ beat' = Interval
  /\ missed' = [missed EXCEPT ![p] = 0]
  /\ written' = written \cup {p}
  /\ unlisted' = [d \in Procs |-> 0]
  /\ erased' = FALSE
  /\ UNCHANGED beatFaults

\* Reporter.beat: SET with the lifetime.
Beat(p) ==
  /\ beat' = Lifetime
  /\ missed' = [missed EXCEPT ![p] = 0]
  /\ written' = written \cup {p}
  /\ unlisted' = [d \in Procs |-> 0]
  /\ erased' = FALSE
  /\ UNCHANGED beatFaults

\* The error is ignored.
BeatFails(p) ==
  /\ BeatFault
  /\ missed' = [missed EXCEPT ![p] = @ + 1]
  /\ UNCHANGED <<beat, written, unlisted, erased>>

\* Mutant: the ticker only renews the key (EXPIRE).
ReportRenews(p) ==
  /\ Consumes(p)
  /\ due[p] = 0
  /\ due' = [due EXCEPT ![p] = Interval]
  /\ \/ beat > 0 /\ Beat(p)
     \/ beat = 0 /\ missed' = [missed EXCEPT ![p] = 0]
        /\ UNCHANGED <<beat, written, unlisted, erased, beatFaults>>
     \/ BeatFails(p)
  /\ UNCHANGED <<cfg, role, created, starts, queueVars, silent>>

\* Reporter.Run, at every tick.
Report(p) ==
  /\ Consumes(p)
  /\ due[p] = 0
  /\ due' = [due EXCEPT ![p] = Interval]
  /\ Beat(p) \/ BeatFails(p)
  /\ UNCHANGED <<cfg, role, created, starts, queueVars, silent>>

Expire == beat' = IF beat > 0 THEN beat - 1 ELSE 0

\* One interval passes; no process is late with its write.
Elapse ==
  /\ \A p \in Procs : Consumes(p) => due[p] > 0
  /\ Expire
  /\ due' = [p \in Procs |-> IF due[p] > 0 THEN due[p] - 1 ELSE 0]
  /\ unlisted' = [p \in Procs |-> IF Consumes(p) /\ beat' = 0 THEN unlisted[p] + 1 ELSE unlisted[p]]
  /\ silent' = IF \E p \in Procs : Consumes(p) THEN 0
               ELSE IF silent <= Lifetime THEN silent + 1 ELSE silent
  /\ UNCHANGED <<cfg, role, created, starts, queueVars, missed, written, erased, beatFaults>>

-----------------------------------------------------------------------------
(* Processes. *)

\* The Fx hooks start the workers, or the daemon set if the role is daemon.
\* Every worker creates the group of its queues at the end of the stream, and
\* its reporter makes a first beat.
StartProc(p, r) ==
  /\ role[p] = "down"
  /\ starts < MaxStarts
  /\ starts' = starts + 1
  /\ role' = [role EXCEPT ![p] = r]
  /\ created' = IF r = "daemon" THEN created ELSE Queues
  /\ IF r = "daemon"
     THEN UNCHANGED beatVars
     ELSE /\ Beat(p) \/ BeatFails(p)
          /\ due' = [due EXCEPT ![p] = Interval]
          /\ silent' = 0
  /\ UNCHANGED <<cfg, queueVars>>

\* XGROUP CREATE fails for some queue: the hook fails and the process exits.
\* Workers start in map order: those of any other queues may run by then, have
\* made their group and a beat, and have fetched, or settled, an entry.
StartProcFails(p, Q) ==
  /\ role[p] = "down"
  /\ starts < MaxStarts
  /\ starts' = starts + 1
  /\ Q # Queues
  /\ created' = created \cup Q
  /\ entry' \in [Queues -> EntryStates]
  /\ \A q \in Queues :
       \/ entry'[q] = entry[q]
       \/ q \in Q /\ entry[q] = "undelivered" /\ entry'[q] \in {"none", "orphan"}
  /\ \/ UNCHANGED beatVars
     \/ /\ Q # {}
        /\ beat' = Lifetime /\ erased' = FALSE /\ silent' = 0
        /\ unlisted' = [d \in Procs |-> 0]
        /\ UNCHANGED <<due, missed, written, beatFaults>>
  /\ UNCHANGED <<cfg, role, holder, chain, panicked>>

Leave(p) ==
  /\ role' = [role EXCEPT ![p] = "down"]
  /\ due' = [due EXCEPT ![p] = 0]
  /\ missed' = [missed EXCEPT ![p] = 0]
  /\ written' = written \ {p}
  /\ unlisted' = [unlisted EXCEPT ![p] = 0]

\* multiWorker.Stop waits for the executions; the reporter deletes the key,
\* which other processes of the same configuration share.  A failed DEL is
\* ignored.
StopProc(p) ==
  /\ role[p] # "down"
  /\ \A q \in Queues : holder[q] # p
  /\ Leave(p)
  /\ \/ Consumes(p) /\ beat' = 0 /\ erased' = TRUE /\ UNCHANGED beatFaults
     \/ Consumes(p) /\ BeatFault /\ UNCHANGED <<beat, erased>>
     \/ ~Consumes(p) /\ UNCHANGED <<beat, erased, beatFaults>>
  /\ UNCHANGED <<cfg, created, starts, queueVars, silent>>

\* What p executes stays pending for nobody.
Orphan(p) ==
  /\ entry' = [q \in Queues |-> IF holder[q] = p THEN "orphan" ELSE entry[q]]
  /\ holder' = [q \in Queues |-> IF holder[q] = p THEN NoProc ELSE holder[q]]

CrashProc(p) ==
  /\ role[p] # "down"
  /\ Leave(p)
  /\ Orphan(p)
  /\ UNCHANGED <<cfg, created, starts, chain, panicked, beat, erased, silent, beatFaults>>

-----------------------------------------------------------------------------
(* Entries and cron jobs. *)

\* A group created later starts behind the entry.
Add(q) ==
  /\ entry[q] = "none"
  /\ entry' = [entry EXCEPT ![q] = IF q \in created THEN "undelivered" ELSE "unseen"]
  /\ UNCHANGED <<cfg, role, created, starts, holder, chain, panicked, beatVars>>

Take(p, q) ==
  /\ Consumes(p)
  /\ entry[q] = "undelivered"
  /\ entry' = [entry EXCEPT ![q] = "held"]
  /\ holder' = [holder EXCEPT ![q] = p]
  /\ UNCHANGED <<cfg, role, created, starts, chain, panicked, beatVars>>

Settle(q) ==
  /\ entry[q] = "held"
  /\ entry' = [entry EXCEPT ![q] = "none"]
  /\ holder' = [holder EXCEPT ![q] = NoProc]
  /\ UNCHANGED <<cfg, role, created, starts, chain, panicked, beatVars>>

\* XAUTOCLAIM in another group finds no group; without a processor the claimed
\* entry is announced as stalled and stays pending.
CanReclaim(p, q) ==
  \E r \in Runners(p) :
    r.kind = "janitor" /\ r.queue = q /\ r.group = WorkerGroup(q) /\ r.processes

ReclaimEntry(p, q) ==
  /\ entry[q] = "orphan"
  /\ CanReclaim(p, q)
  /\ entry' = [entry EXCEPT ![q] = "held"]
  /\ holder' = [holder EXCEPT ![q] = p]
  /\ UNCHANGED <<cfg, role, created, starts, chain, panicked, beatVars>>

RegisterJob(q) ==
  /\ chain[q] = "none"
  /\ chain' = [chain EXCEPT ![q] = "armed"]
  /\ UNCHANGED <<cfg, role, created, starts, entry, holder, panicked, beatVars>>

\* The scheduler has taken the job's member off the delayed set and calls
\* Reschedule on a nil cron manager: the panic ends the process.
PromoteJobPanics(p, q) ==
  /\ chain[q] = "armed"
  /\ \E r \in Runners(p) : r.kind = "scheduler" /\ r.queue = q /\ ~r.reschedules
  /\ chain' = [chain EXCEPT ![q] = "lost"]
  /\ panicked' = panicked \cup {q}
  /\ Leave(p)
  /\ Orphan(p)
  /\ UNCHANGED <<cfg, created, starts, beat, erased, silent, beatFaults>>

\* The self-healing loop of a cron manager writes a new member.
HealJob(p, q) ==
  /\ chain[q] = "lost"
  /\ \E r \in Runners(p) : r.kind = "cron" /\ r.queue = q
  /\ chain' = [chain EXCEPT ![q] = "armed"]
  /\ UNCHANGED <<cfg, role, created, starts, entry, holder, panicked, beatVars>>

DeploymentNext ==
  \/ \E p \in Procs :
       \/ \E r \in Roles : StartProc(p, r)
       \/ \E Q \in SUBSET Queues : StartProcFails(p, Q)
       \/ StopProc(p) \/ CrashProc(p) \/ Report(p)
       \/ \E q \in Queues : Take(p, q) \/ ReclaimEntry(p, q) \/ PromoteJobPanics(p, q) \/ HealJob(p, q)
  \/ \E q \in Queues : Add(q) \/ Settle(q) \/ RegisterJob(q)
  \/ Elapse

-----------------------------------------------------------------------------
(* Properties. *)

\* A process dies of a missing cron manager only where the configuration keeps
\* the scheduler of that queue without its cron manager; no role does by itself.
PanicConfigured ==
  \A q \in panicked : "cron" \in cfg[q].disabled /\ "scheduler" \notin cfg[q].disabled

LiveListed ==
  \A p \in Procs : Consumes(p) /\ p \in written /\ missed[p] <= 1 /\ ~erased => beat > 0

DeadUnlisted == silent > Lifetime => beat = 0

\* A consuming process that has written its heartbeat is listed as alive, even if
\* one write has failed since, unless a process that shares its name has just
\* deleted the key by stopping; and the heartbeat of processes that died without
\* deleting it disappears within its lifetime.
HeartbeatTruthful == LiveListed /\ DeadUnlisted

\* However the key went away, by the DEL of a process that shares its name, by
\* expiry or because the first write failed, a consuming process is without it
\* for one interval more, at most, than its own last writes in a row have failed.
ListedAgain == \A p \in Procs : Consumes(p) => unlisted[p] <= missed[p] + 1

=============================================================================
