------------------------------- MODULE CronJobs -------------------------------
(***************************************************************************)
(* Cron jobs of a queue: their configuration, the chain of occurrences in  *)
(* the delayed ZSET, the scheduler that promotes an occurrence and adds    *)
(* the next one, and the healers that restart broken chains.               *)
(*                                                                         *)
(* A Redis command or script is one step.  A delayed member is the         *)
(* serialized task: "first" is the configuration itself, which             *)
(* RegisterCron schedules; "run" is made by Reschedule or a healer and     *)
(* carries the time it was created at, so that two of them differ; "retry" *)
(* is a run that failed and was scheduled again.                           *)
(***************************************************************************)
EXTENDS Naturals, FiniteSets

CONSTANTS
  Jobs,         \* job names
  Versions,     \* configurations that may be registered under a name
  None,         \* no configuration
  Admins,       \* callers of RunCronJob and DeleteCronJob
  Healers,      \* nodes whose cron manager runs
  HardLimit,    \* EnqueueHardLimit, 0 is off
  MaxDelayed,   \* DelayedMaxCount, 0 is unlimited
  DropFarthest, \* DelayedOverflow of the client
  MaxCopies,    \* bound: runs of a configuration that exist at once
  MaxPromoted,  \* bound: members the schedulers have moved and not rescheduled
  MaxCalls,     \* bound: calls of the client
  MaxRetries,   \* bound: failed runs
  MaxFaults     \* bound: crashes and failed calls

ASSUME CronAssumption ==
  /\ None \notin Versions
  /\ {HardLimit, MaxDelayed} \subseteq Nat
  /\ {MaxCopies, MaxPromoted, MaxCalls, MaxRetries, MaxFaults} \subseteq Nat
  /\ DropFarthest \in BOOLEAN

VARIABLES
  config,    \* the configs hash
  delayed,   \* cron members of the delayed ZSET
  stream,    \* cron tasks enqueued and not settled
  promoted,  \* members the scheduler has moved and still has to reschedule
  lock,      \* CronSelfHealingLock
  hpc,       \* where each healer is
  hconf,     \* the configs it has read
  missing,   \* jobs it still has to heal
  dpc,       \* where each RunCronJob or DeleteCronJob is
  djob,      \* its job
  dver,      \* the configuration it has read
  calls,     \* history: calls of the client
  retries,   \* history: failed runs
  faults,    \* history: crashes and failed calls
  dropped    \* history: the capacity has dropped a member

healVars == <<lock, hpc, hconf, missing>>
delVars  == <<dpc, djob, dver>>
histVars == <<calls, retries, faults, dropped>>
vars == <<config, delayed, stream, promoted, healVars, delVars, histVars>>

Member == [job : Jobs, ver : Versions, kind : {"first", "run", "retry"}, copy : 0 .. MaxCopies]

TypeOK ==
  /\ config \in [Jobs -> Versions \cup {None}]
  /\ delayed \subseteq Member /\ stream \subseteq Member /\ promoted \subseteq Member
  /\ lock \in BOOLEAN
  /\ hpc \in [Healers -> {"idle", "configs", "scan", "heal"}]
  /\ hconf \in [Healers -> [Jobs -> Versions \cup {None}]]
  /\ missing \in [Healers -> SUBSET Jobs]
  /\ dpc \in [Admins -> {"idle", "xadd", "zrem", "hdel"}]
  /\ djob \in [Admins -> Jobs]
  /\ dver \in [Admins -> Versions \cup {None}]
  /\ calls \in 0 .. MaxCalls
  /\ retries \in 0 .. MaxRetries
  /\ faults \in 0 .. MaxFaults
  /\ dropped \in BOOLEAN

Init ==
  /\ config = [j \in Jobs |-> None]
  /\ delayed = {} /\ stream = {} /\ promoted = {}
  /\ lock = FALSE
  /\ hpc = [h \in Healers |-> "idle"]
  /\ hconf = [h \in Healers |-> config]
  /\ missing = [h \in Healers |-> {}]
  /\ dpc = [a \in Admins |-> "idle"]
  /\ djob \in {[a \in Admins |-> j] : j \in Jobs}
  /\ dver = [a \in Admins |-> None]
  /\ calls = 0
  /\ retries = 0
  /\ faults = 0
  /\ dropped = FALSE

-----------------------------------------------------------------------------

First(j, v) == [job |-> j, ver |-> v, kind |-> "first", copy |-> 0]

\* A new occurrence, created at a time no other one has: the least copy number
\* that is free.
Taken(j, v) == {m.copy : m \in {o \in delayed \cup stream \cup promoted : o.job = j /\ o.ver = v}}
Fresh(j, v) ==
  {m \in Member : /\ m.job = j /\ m.ver = v /\ m.kind = "run"
                  /\ m.copy > 0 /\ m.copy \notin Taken(j, v)
                  /\ 1 .. m.copy - 1 \subseteq Taken(j, v)}

BelowHardLimit == HardLimit = 0 \/ Cardinality(stream) < HardLimit

Full == MaxDelayed > 0 /\ Cardinality(delayed) >= MaxDelayed

\* What making room drops; scores are left out.
Surplus ==
  IF Full THEN {X \in SUBSET delayed : Cardinality(X) = Cardinality(delayed) - MaxDelayed + 1}
          ELSE {{}}

Call == calls < MaxCalls /\ calls' = calls + 1

Fault ==
  /\ faults < MaxFaults
  /\ faults' = faults + 1
  /\ UNCHANGED dropped

Drop(X) == dropped' = (dropped \/ X # {}) /\ UNCHANGED faults

\* ZAddDelayedSystem: drop_farthest under every policy.
ZAddDelayedSystem(m) ==
  \E X \in Surplus : delayed' = (delayed \ X) \cup {m} /\ Drop(X)

-----------------------------------------------------------------------------
(* The client. *)

\* Mutant: replacing a configuration schedules nothing.
RegisterCronUnscheduled(j, v) ==
  /\ Call
  /\ config[j] # v
  /\ config[j] = None => ~Full \/ DropFarthest
  /\ config' = [config EXCEPT ![j] = v]
  /\ IF config[j] = None
     THEN \E X \in Surplus : delayed' = (delayed \ X) \cup {First(j, v)} /\ Drop(X)
     ELSE delayed' = delayed \ {First(j, config[j])} /\ UNCHANGED <<faults, dropped>>
  /\ UNCHANGED <<stream, promoted, healVars, delVars, retries>>

\* register_cron.lua; the same bytes again change nothing, a new name may be
\* rejected, an existing one is replaced whatever the capacity.
RegisterCron(j, v) ==
  /\ Call
  /\ config[j] # v
  /\ config[j] = None => ~Full \/ DropFarthest
  /\ config' = [config EXCEPT ![j] = v]
  /\ \E X \in IF config[j] = None THEN Surplus ELSE {{}} :
       /\ delayed' = (delayed \ (X \cup {First(j, config[j])})) \cup {First(j, v)}
       /\ Drop(X)
  /\ UNCHANGED <<stream, promoted, healVars, delVars, retries>>

\* RunCronJob: HGET, then XADD of what it returned, unless the stream is full.
RunRead(a, j) ==
  /\ Call
  /\ dpc[a] = "idle"
  /\ config[j] # None
  /\ dpc' = [dpc EXCEPT ![a] = "xadd"]
  /\ djob' = [djob EXCEPT ![a] = j]
  /\ dver' = [dver EXCEPT ![a] = config[j]]
  /\ UNCHANGED <<config, delayed, stream, promoted, healVars, retries, faults, dropped>>

RunXAdd(a) ==
  /\ dpc[a] = "xadd"
  /\ dpc' = [dpc EXCEPT ![a] = "idle"]
  /\ dver' = [dver EXCEPT ![a] = None]
  /\ stream' = IF BelowHardLimit THEN stream \cup {First(djob[a], dver[a])} ELSE stream
  /\ UNCHANGED <<config, delayed, promoted, healVars, djob, histVars>>

\* DeleteCronJob: HGET, ZREM of what it returned, HDEL; an error of ZREM is
\* ignored.
DeleteRead(a, j) ==
  /\ Call
  /\ dpc[a] = "idle"
  /\ config[j] # None
  /\ dpc' = [dpc EXCEPT ![a] = "zrem"]
  /\ djob' = [djob EXCEPT ![a] = j]
  /\ dver' = [dver EXCEPT ![a] = config[j]]
  /\ UNCHANGED <<config, delayed, stream, promoted, healVars, retries, faults, dropped>>

DeleteZRem(a) ==
  /\ dpc[a] = "zrem"
  /\ dpc' = [dpc EXCEPT ![a] = "hdel"]
  /\ \/ /\ delayed' = delayed \ {First(djob[a], dver[a])}
        /\ UNCHANGED <<faults, dropped>>
     \/ Fault /\ UNCHANGED delayed
  /\ UNCHANGED <<config, stream, promoted, healVars, djob, dver, calls, retries>>

DeleteHDel(a) ==
  /\ dpc[a] = "hdel"
  /\ dpc' = [dpc EXCEPT ![a] = "idle"]
  /\ dver' = [dver EXCEPT ![a] = None]
  /\ config' = [config EXCEPT ![djob[a]] = None]
  /\ UNCHANGED <<delayed, stream, promoted, healVars, djob, histVars>>

\* The caller dies, or XADD or HDEL fails.
CallAbandoned(a) ==
  /\ dpc[a] # "idle"
  /\ Fault
  /\ dpc' = [dpc EXCEPT ![a] = "idle"]
  /\ dver' = [dver EXCEPT ![a] = None]
  /\ UNCHANGED <<config, delayed, stream, promoted, healVars, djob, calls, retries>>

-----------------------------------------------------------------------------
(* The scheduler and the worker. *)

\* A scheduler reschedules what it has moved before it moves more.
Promote(m) ==
  /\ m \in delayed
  /\ Cardinality(promoted) < MaxPromoted
  /\ BelowHardLimit
  /\ delayed' = delayed \ {m}
  /\ stream' = stream \cup {m}
  /\ promoted' = promoted \cup {m}
  /\ UNCHANGED <<config, healVars, delVars, histVars>>

\* The next occurrence of what was promoted; the configs are not looked at.
Reschedule(m) ==
  /\ m \in promoted
  /\ promoted' = promoted \ {m}
  /\ \E n \in Fresh(m.job, m.ver) : ZAddDelayedSystem(n)
  /\ UNCHANGED <<config, stream, healVars, delVars, calls, retries>>

\* The scheduler dies before it reschedules, or the ZADD fails.
RescheduleFails(m) ==
  /\ m \in promoted
  /\ Fault
  /\ promoted' = promoted \ {m}
  /\ UNCHANGED <<config, delayed, stream, healVars, delVars, calls, retries>>

Succeed(m) ==
  /\ m \in stream
  /\ stream' = stream \ {m}
  /\ UNCHANGED <<config, delayed, promoted, healVars, delVars, histVars>>

\* A failed run keeps its CronSpec on the way back.
Fail(m) ==
  /\ m \in stream
  /\ retries < MaxRetries
  /\ retries' = retries + 1
  /\ stream' = stream \ {m}
  /\ ZAddDelayedSystem([m EXCEPT !.kind = "retry"])
  /\ UNCHANGED <<config, promoted, healVars, delVars, calls>>

-----------------------------------------------------------------------------
(* The healers. *)

\* The lock is never released, it expires.
SetNX(h) ==
  /\ hpc[h] = "idle"
  /\ ~lock
  /\ lock' = TRUE
  /\ hpc' = [hpc EXCEPT ![h] = "configs"]
  /\ UNCHANGED <<config, delayed, stream, promoted, hconf, missing, delVars, histVars>>

\* Mutant: the lock is set without a TTL.
LockStays == lock /\ FALSE /\ UNCHANGED vars

LockExpires ==
  /\ lock
  /\ lock' = FALSE
  /\ UNCHANGED <<config, delayed, stream, promoted, hpc, hconf, missing, delVars, histVars>>

HGetAll(h) ==
  /\ hpc[h] = "configs"
  /\ hconf' = [hconf EXCEPT ![h] = config]
  /\ hpc' = [hpc EXCEPT ![h] = IF \A j \in Jobs : config[j] = None THEN "idle" ELSE "scan"]
  /\ UNCHANGED <<config, delayed, stream, promoted, lock, missing, delVars, histVars>>

\* Any member of a job counts, whatever its version; beyond scanMaxCount
\* members are not seen.
Scan(h) ==
  /\ hpc[h] = "scan"
  /\ \E seen \in SUBSET delayed :
       missing' = [missing EXCEPT ![h] =
         {j \in Jobs : hconf[h][j] # None /\ \A m \in seen : m.job # j}]
  /\ hpc' = [hpc EXCEPT ![h] = "heal"]
  /\ UNCHANGED <<config, delayed, stream, promoted, lock, hconf, delVars, histVars>>

HealJob(h, j) ==
  /\ hpc[h] = "heal"
  /\ j \in missing[h]
  /\ missing' = [missing EXCEPT ![h] = @ \ {j}]
  /\ \E n \in Fresh(j, hconf[h][j]) : ZAddDelayedSystem(n)
  /\ UNCHANGED <<config, stream, promoted, lock, hpc, hconf, delVars, calls, retries>>

EndHeal(h) ==
  /\ hpc[h] = "heal"
  /\ missing[h] = {}
  /\ hpc' = [hpc EXCEPT ![h] = "idle"]
  /\ hconf' = [hconf EXCEPT ![h] = [j \in Jobs |-> None]]
  /\ UNCHANGED <<config, delayed, stream, promoted, lock, missing, delVars, histVars>>

\* A call fails or the node dies; a restarted one begins anew.
HealerStops(h) ==
  /\ hpc[h] # "idle"
  /\ Fault
  /\ hpc' = [hpc EXCEPT ![h] = "idle"]
  /\ hconf' = [hconf EXCEPT ![h] = [j \in Jobs |-> None]]
  /\ missing' = [missing EXCEPT ![h] = {}]
  /\ UNCHANGED <<config, delayed, stream, promoted, lock, delVars, calls, retries>>

-----------------------------------------------------------------------------

Heal(h) ==
  \/ SetNX(h) \/ HGetAll(h) \/ Scan(h) \/ EndHeal(h)
  \/ \E j \in Jobs : HealJob(h, j)

Next ==
  \/ \E j \in Jobs :
       \/ \E v \in Versions : RegisterCron(j, v)
       \/ \E a \in Admins : RunRead(a, j) \/ DeleteRead(a, j)
  \/ \E a \in Admins :
       RunXAdd(a) \/ DeleteZRem(a) \/ DeleteHDel(a) \/ CallAbandoned(a)
  \/ \E m \in delayed : Promote(m)
  \/ \E m \in promoted : Reschedule(m) \/ RescheduleFails(m)
  \/ \E m \in stream : Succeed(m) \/ Fail(m)
  \/ LockExpires
  \/ \E h \in Healers : Heal(h) \/ HealerStops(h)

Spec == Init /\ [][Next]_vars

\* Scheduler, worker and healers go on; the lock has a TTL.
FairSpec ==
  /\ Spec
  /\ \A j \in Jobs : WF_vars(\E m \in delayed : m.job = j /\ Promote(m))
  /\ WF_vars(\E m \in promoted : Reschedule(m))
  /\ \A m \in Member : WF_vars(Succeed(m))
  /\ WF_vars(LockExpires)
  /\ \A h \in Healers : WF_vars(Heal(h))

-----------------------------------------------------------------------------

Occurrences(j) == {m \in delayed \cup promoted : m.job = j}
Deleting(j)    == \E a \in Admins : dpc[a] \in {"zrem", "hdel"} /\ djob[a] = j

(***************************************************************************)
(* ChainUnbroken.  As long as nothing was lost to a crash, a failed call   *)
(* or the capacity, a registered job that nobody is deleting has a next    *)
(* occurrence, in the delayed ZSET or in the hands of the scheduler,       *)
(* whatever registrations, deletions, promotions and healers overlap.      *)
(***************************************************************************)
ChainUnbroken ==
  faults = 0 /\ ~dropped => \A j \in Jobs : config[j] # None /\ ~Deleting(j) => Occurrences(j) # {}

(***************************************************************************)
(* JobsKeepRunning.  An occurrence of a job that stays registered is moved *)
(* into the stream again and again, although schedulers, callers and       *)
(* healers die between two of their calls, the healers' lock is never      *)
(* released and the capacity drops occurrences.                            *)
(***************************************************************************)
JobsKeepRunning ==
  \A j \in Jobs :
    \/ []<>(config[j] = None)
    \/ []<><<\E m \in delayed : m.job = j /\ Promote(m)>>_vars

=============================================================================
