------------------------------ MODULE Retention ------------------------------
(***************************************************************************)
(* The retention janitor of one queue against consumers that fetch, settle *)
(* and die: trimming of the stream, removal of idle consumers and removal  *)
(* of cancelled delayed tasks.  The purge of dead letters by age is in     *)
(* DLQAdmin.                                                               *)
(*                                                                         *)
(* A Redis command is one step.  Message IDs are 1, 2, ...; the delayed    *)
(* ZSET is the sequence of its members in the order of their scores.       *)
(***************************************************************************)
EXTENDS Naturals, FiniteSets, FiniteSetsExt, SequencesExt

CONSTANTS
  Readers,                \* consumer names the worker reads under
  Reclaimer,              \* consumer name the PEL janitor claims under
  NoConsumer,
  Tasks,                  \* delayed tasks
  SafeTrimEnabled,        \* lifecycle configuration
  PurgeCancelledDelayed,
  PurgeIdle,              \* IdleConsumerTimeout > 0
  Batch,                  \* page size of the delayed purge
  MaxOffset,              \* the purge gives up beyond this rank
  MaxMsgs,                \* bound: how many messages are added
  MaxFailures             \* bound: how many of the janitor's calls fail

ASSUME RetentionAssumption ==
  /\ Reclaimer \notin Readers
  /\ NoConsumer \notin Readers \cup {Reclaimer}
  /\ {SafeTrimEnabled, PurgeCancelledDelayed, PurgeIdle} \subseteq BOOLEAN
  /\ Batch \in Nat \ {0}
  /\ MaxOffset \in Nat
  /\ MaxMsgs \in Nat
  /\ MaxFailures \in Nat

VARIABLES
  stream,     \* IDs of the entries
  lastId,     \* last ID generated
  group,      \* the consumer group exists
  start,      \* the ID it was created at
  cursor,     \* its last delivered ID
  owner,      \* consumer each ID is pending for
  consumers,  \* consumers of the group
  idle,       \* those not heard of for IdleConsumerTimeout
  running,    \* messages some live executor works on
  delayed,    \* the delayed ZSET
  cancelled,  \* cancelled markers
  jpc,        \* where the janitor's tick is
  minId,      \* threshold it has computed
  offset,     \* rank its page starts at
  page,       \* members of the page still to look at
  full,       \* the page had Batch members
  listed,     \* consumers still to remove
  scheduled,  \* history: tasks that were scheduled
  between,    \* history: deliveries between XPENDING and XINFO
  fails,      \* history: calls of the janitor that failed
  revived     \* history: a listed consumer was heard of again

streamVars  == <<stream, lastId, group, start, cursor, owner, consumers, idle, running>>
delayedVars == <<delayed, cancelled, scheduled>>
purgeVars   == <<offset, page, full>>
histVars    == <<between, fails, revived>>
vars == <<streamVars, delayedVars, jpc, minId, purgeVars, listed, histVars>>

Consumers == Readers \cup {Reclaimer}

Ids     == 1 .. MaxMsgs
Pending == {m \in Ids : owner[m] # NoConsumer}

TypeOK ==
  /\ stream \subseteq 1 .. lastId
  /\ lastId \in 0 .. MaxMsgs
  /\ group \in BOOLEAN
  /\ start \in 0 .. cursor
  /\ cursor \in 0 .. lastId
  /\ owner \in [Ids -> Consumers \cup {NoConsumer}]
  /\ idle \subseteq consumers /\ consumers \subseteq Consumers
  /\ running \subseteq Ids
  /\ ToSet(delayed) \subseteq scheduled /\ scheduled \subseteq Tasks
  /\ cancelled \subseteq Tasks
  /\ jpc \in {"rest", "pending", "info", "trim", "page", "members", "list", "remove"}
  /\ minId \in 0 .. MaxMsgs
  /\ offset \in Nat
  /\ ToSet(page) \subseteq Tasks
  /\ full \in BOOLEAN
  /\ listed \subseteq Consumers
  /\ between \in Nat
  /\ fails \in 0 .. MaxFailures
  /\ revived \in BOOLEAN

Init ==
  /\ stream = {} /\ lastId = 0
  /\ group = FALSE /\ start = 0 /\ cursor = 0
  /\ owner = [m \in Ids |-> NoConsumer]
  /\ consumers = {} /\ idle = {}
  /\ running = {}
  /\ delayed = <<>> /\ cancelled = {} /\ scheduled = {}
  /\ jpc = "rest" /\ minId = 0
  /\ offset = 0 /\ page = <<>> /\ full = FALSE
  /\ listed = {}
  /\ between = 0 /\ fails = 0
  /\ revived = FALSE

-----------------------------------------------------------------------------
(* Clients, consumers and the PEL janitor. *)

XAdd ==
  /\ lastId < MaxMsgs
  /\ lastId' = lastId + 1
  /\ stream' = stream \cup {lastId'}
  /\ UNCHANGED <<group, start, cursor, owner, consumers, idle, running, delayedVars,
                 jpc, minId, purgeVars, listed, histVars>>

StartGroup ==
  /\ ~group
  /\ group' = TRUE
  /\ start' = lastId
  /\ cursor' = lastId
  /\ UNCHANGED <<stream, lastId, owner, consumers, idle, running, delayedVars,
                 jpc, minId, purgeVars, listed, histVars>>

\* A consumer that talks to Redis is created if need be and not idle.
Heard(c) ==
  /\ consumers' = consumers \cup {c}
  /\ idle' = idle \ {c}
  /\ revived' = (revived \/ c \in listed)

Deliver(c) ==
  /\ group
  /\ \E m \in stream :
       /\ m > cursor
       /\ \A n \in stream : n > cursor => m <= n
       /\ cursor' = m
       /\ owner' = [owner EXCEPT ![m] = c]
       /\ running' = running \cup {m}
  /\ Heard(c)
  /\ between' = IF jpc = "info" THEN between + 1 ELSE between
  /\ UNCHANGED <<stream, lastId, group, start, delayedVars, jpc, minId, purgeVars,
                 listed, fails>>

\* XREADGROUP that times out, or XAUTOCLAIM that finds nothing idle enough.
Poll(c) ==
  /\ group
  /\ c \in Readers => \A m \in stream : m <= cursor
  /\ Heard(c)
  /\ UNCHANGED <<stream, lastId, group, start, cursor, owner, running, delayedVars, jpc,
                 minId, purgeVars, listed, between, fails>>

\* XACK and XDEL.
Settle(m) ==
  /\ m \in running
  /\ running' = running \ {m}
  /\ owner' = [owner EXCEPT ![m] = NoConsumer]
  /\ stream' = stream \ {m}
  /\ UNCHANGED <<lastId, group, start, cursor, consumers, idle, delayedVars,
                 jpc, minId, purgeVars, listed, histVars>>

Crash(m) ==
  /\ m \in running
  /\ running' = running \ {m}
  /\ UNCHANGED <<stream, lastId, group, start, cursor, owner, consumers, idle, delayedVars,
                 jpc, minId, purgeVars, listed, histVars>>

\* XAUTOCLAIM; a pending ID without its entry is dropped.
Reclaim(m) ==
  /\ m \in Pending \ running
  /\ owner' = [owner EXCEPT ![m] = IF m \in stream THEN Reclaimer ELSE NoConsumer]
  /\ running' = IF m \in stream THEN running \cup {m} ELSE running
  /\ Heard(Reclaimer)
  /\ UNCHANGED <<stream, lastId, group, start, cursor, delayedVars,
                 jpc, minId, purgeVars, listed, between, fails>>

\* The queue is paused, or the consumer's process is gone.
GoIdle(c) ==
  /\ c \in consumers
  /\ idle' = idle \cup {c}
  /\ UNCHANGED <<stream, lastId, group, start, cursor, owner, consumers, running, delayedVars,
                 jpc, minId, purgeVars, listed, histVars>>

\* A delayed task is added anywhere among the others.
Schedule(t) ==
  /\ t \notin scheduled
  /\ scheduled' = scheduled \cup {t}
  /\ \E i \in 1 .. Len(delayed) + 1 : delayed' = InsertAt(delayed, i, t)
  /\ UNCHANGED <<streamVars, cancelled, jpc, minId, purgeVars, listed, histVars>>

CancelTask(t) ==
  /\ t \in scheduled
  /\ cancelled' = cancelled \cup {t}
  /\ UNCHANGED <<streamVars, delayed, scheduled, jpc, minId, purgeVars, listed, histVars>>

Promote ==
  /\ delayed # <<>>
  /\ delayed' = Tail(delayed)
  /\ UNCHANGED <<streamVars, cancelled, scheduled, jpc, minId, purgeVars, listed, histVars>>

-----------------------------------------------------------------------------
(* The janitor's tick: trim, purge of the delayed ZSET, idle consumers. *)

AfterPurge == IF PurgeIdle THEN "list" ELSE "rest"
AfterTrim  == IF PurgeCancelledDelayed THEN "page" ELSE AfterPurge

Tick ==
  /\ jpc = "rest"
  /\ jpc' = IF SafeTrimEnabled THEN "pending" ELSE AfterTrim
  /\ UNCHANGED <<streamVars, delayedVars, minId, purgeVars, listed, histVars>>

\* Mutant: the newest pending ID.
XPendingUpper ==
  /\ jpc = "pending"
  /\ minId' = IF Pending = {} THEN 0 ELSE Max(Pending)
  /\ jpc' = IF Pending # {} THEN "trim" ELSE IF group THEN "info" ELSE AfterTrim
  /\ between' = IF between < 2 THEN 0 ELSE between
  /\ UNCHANGED <<streamVars, delayedVars, purgeVars, listed, fails, revived>>

\* XPENDING fails without a group.
XPending ==
  /\ jpc = "pending"
  /\ minId' = IF Pending = {} THEN 0 ELSE Min(Pending)
  /\ jpc' = IF Pending # {} THEN "trim" ELSE IF group THEN "info" ELSE AfterTrim
  /\ between' = IF between < 2 THEN 0 ELSE between
  /\ UNCHANGED <<streamVars, delayedVars, purgeVars, listed, fails, revived>>

\* Mutant: the last generated ID instead of the last delivered one.
XInfoLastGenerated ==
  /\ jpc = "info"
  /\ minId' = lastId
  /\ jpc' = IF lastId = 0 THEN AfterTrim ELSE "trim"
  /\ UNCHANGED <<streamVars, delayedVars, purgeVars, listed, histVars>>

XInfoGroups ==
  /\ jpc = "info"
  /\ minId' = cursor
  /\ jpc' = IF cursor = 0 THEN AfterTrim ELSE "trim"
  /\ UNCHANGED <<streamVars, delayedVars, purgeVars, listed, histVars>>

\* Approximate: some of the entries below the threshold go, oldest first.
XTrim ==
  /\ jpc = "trim"
  /\ \E k \in 1 .. minId : stream' = {m \in stream : m >= k}
  /\ jpc' = AfterTrim
  /\ minId' = 0
  /\ UNCHANGED <<lastId, group, start, cursor, owner, consumers, idle, running, delayedVars,
                 purgeVars, listed, histVars>>

ZRangePage ==
  /\ jpc = "page"
  /\ page' = SubSeq(delayed, offset + 1, Min({offset + Batch, Len(delayed)}))
  /\ full' = (Len(page') = Batch)
  /\ IF page' = <<>>
     THEN jpc' = AfterPurge /\ offset' = 0
     ELSE jpc' = "members" /\ UNCHANGED offset
  /\ UNCHANGED <<streamVars, delayedVars, minId, listed, histVars>>

\* EXISTS and ZREM; the marker outlives the step.
PurgeMember ==
  /\ jpc = "members"
  /\ page # <<>>
  /\ page' = Tail(page)
  /\ delayed' = IF Head(page) \in cancelled
                THEN SelectSeq(delayed, LAMBDA t : t # Head(page))
                ELSE delayed
  /\ UNCHANGED <<streamVars, cancelled, scheduled, jpc, minId, offset, full, listed,
                 histVars>>

\* Mutant: a full page ends the purge.
EndPageAlways ==
  /\ jpc = "members"
  /\ page = <<>>
  /\ jpc' = AfterPurge
  /\ offset' = 0
  /\ UNCHANGED <<streamVars, delayedVars, minId, page, full, listed, histVars>>

\* The next page starts Batch further on, whatever was removed from this one.
EndPage ==
  /\ jpc = "members"
  /\ page = <<>>
  /\ LET on == full /\ offset + Batch <= MaxOffset
     IN  /\ jpc' = IF on THEN "page" ELSE AfterPurge
         /\ offset' = IF on THEN offset + Batch ELSE 0
  /\ full' = FALSE
  /\ UNCHANGED <<streamVars, delayedVars, minId, page, listed, histVars>>

\* Mutant: consumers are listed whatever is pending for them.
XInfoConsumersPending ==
  /\ jpc = "list"
  /\ listed' = idle
  /\ jpc' = "remove"
  /\ UNCHANGED <<streamVars, delayedVars, minId, purgeVars, histVars>>

\* XINFO CONSUMERS, those that are idle and have nothing pending.
XInfoConsumers ==
  /\ jpc = "list"
  /\ listed' = {c \in idle : \A m \in Pending : owner[m] # c}
  /\ jpc' = "remove"
  /\ UNCHANGED <<streamVars, delayedVars, minId, purgeVars, histVars>>

\* XGROUP DELCONSUMER drops what is pending for the consumer.
DelConsumer(c) ==
  /\ jpc = "remove"
  /\ c \in listed
  /\ listed' = listed \ {c}
  /\ consumers' = consumers \ {c}
  /\ idle' = idle \ {c}
  /\ owner' = [m \in Ids |-> IF owner[m] = c THEN NoConsumer ELSE owner[m]]
  /\ UNCHANGED <<stream, lastId, group, start, cursor, running, delayedVars, jpc, minId,
                 purgeVars, histVars>>

EndTick ==
  /\ jpc = "remove"
  /\ listed = {}
  /\ jpc' = "rest"
  /\ UNCHANGED <<streamVars, delayedVars, minId, purgeVars, listed, histVars>>

\* A failed call ends its part of the tick, or skips one member or consumer.
CallFails ==
  /\ fails < MaxFailures
  /\ fails' = fails + 1
  /\ \/ /\ jpc \in {"pending", "info", "trim"}
        /\ jpc' = AfterTrim /\ minId' = 0
        /\ UNCHANGED <<purgeVars, listed>>
     \/ /\ jpc \in {"page", "members"}
        /\ jpc' = AfterPurge
        /\ offset' = 0 /\ page' = <<>> /\ full' = FALSE
        /\ UNCHANGED <<minId, listed>>
     \/ /\ jpc = "members" /\ page # <<>>
        /\ page' = Tail(page)
        /\ UNCHANGED <<jpc, minId, offset, full, listed>>
     \/ /\ jpc = "list"
        /\ jpc' = "rest"
        /\ UNCHANGED <<minId, purgeVars, listed>>
     \/ /\ jpc = "remove"
        /\ \E c \in listed : listed' = listed \ {c}
        /\ UNCHANGED <<jpc, minId, purgeVars>>
  /\ UNCHANGED <<streamVars, delayedVars, between, revived>>

-----------------------------------------------------------------------------

Janitor ==
  \/ Tick \/ XPending \/ XInfoGroups \/ XTrim
  \/ ZRangePage \/ PurgeMember \/ EndPage
  \/ XInfoConsumers \/ EndTick
  \/ \E c \in Consumers : DelConsumer(c)

Next ==
  \/ XAdd \/ StartGroup \/ Promote
  \/ \E c \in Readers : Deliver(c)
  \/ \E c \in Consumers : Poll(c) \/ GoIdle(c)
  \/ \E m \in Ids : Settle(m) \/ Crash(m) \/ Reclaim(m)
  \/ \E t \in Tasks : Schedule(t) \/ CancelTask(t)
  \/ Janitor \/ CallFails

Spec == Init /\ [][Next]_vars

\* The ticker fires and a tick goes on.
FairSpec == Spec /\ WF_vars(Janitor)

-----------------------------------------------------------------------------

(***************************************************************************)
(* UndeliveredKept.  However long the threshold lies between its           *)
(* computation and XTRIM, a message ahead of the group's cursor is never   *)
(* trimmed.                                                                *)
(***************************************************************************)
UndeliveredKept == \A m \in cursor + 1 .. lastId : m \in stream

(***************************************************************************)
(* PendingKept.  A pending message keeps its entry, so that XAUTOCLAIM can *)
(* run it again, unless two messages were delivered between XPENDING and   *)
(* XINFO of one tick.                                                      *)
(***************************************************************************)
PendingKept == between < 2 => Pending \subseteq stream

(***************************************************************************)
(* DeliveredCovered.  A delivered message that is still in the stream is   *)
(* pending for somebody, so that the PEL janitor finds it; removing idle   *)
(* consumers preserves this unless a consumer reads after it was listed.   *)
(***************************************************************************)
DeliveredCovered == ~revived => \A m \in stream \cap (start + 1 .. cursor) : m \in Pending

(***************************************************************************)
(* PurgeCatchesUp.  No cancelled task stays among the first MaxOffset      *)
(* delayed members for ever: what one tick skips, because the pages shift  *)
(* under it, a later one finds.                                            *)
(***************************************************************************)
InReach(t) == \E i \in DOMAIN delayed : i <= MaxOffset /\ delayed[i] = t
PurgeCatchesUp == \A t \in Tasks : []<>~(t \in cancelled /\ InReach(t))

=============================================================================
