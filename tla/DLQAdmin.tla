------------------------------- MODULE DLQAdmin -------------------------------
(***************************************************************************)
(* Administration of a dead letter queue: administrators retry, delete and *)
(* purge while executors dead letter tasks and the retention janitor       *)
(* purges by age.  The DLQ is a ZSET of task IDs and an index hash with    *)
(* the serialized tasks.                                                   *)
(*                                                                         *)
(* A Redis command or script is one step; the commands of a pipeline are   *)
(* steps of their own.  Scores are left out: any member may be old.        *)
(***************************************************************************)
EXTENDS Naturals

CONSTANTS
  Tasks,        \* task IDs; all of them are dead letters at first
  NoTask,
  Admins,       \* callers of the DLQ client
  AgePurge,     \* lifecycle DLQMaxAge > 0
  MaxFailures,  \* bound: how many retried tasks are dead lettered again
  MaxAbandons,  \* bound: how many Redis calls fail or callers die half way
  MaxCopies     \* bound: copies of a task in the stream

ASSUME AdminAssumption ==
  /\ NoTask \notin Tasks
  /\ AgePurge \in BOOLEAN
  /\ MaxFailures \in Nat
  /\ MaxAbandons \in Nat
  /\ MaxCopies \in Nat

VARIABLES
  zset,      \* members of the DLQ ZSET
  index,     \* fields of the index hash
  queued,    \* how many copies of each task the stream holds
  pc,        \* where each administrator's call is
  bulk,      \* the call is RetryAllDeadLetters
  ids,       \* task IDs the call still has to handle
  bodies,    \* those whose serialized task it has read
  item,      \* the task it has enqueued and not yet deleted
  aged,      \* IDs the janitor still has to remove
  half,      \* the ID it has removed from the ZSET only
  gone,      \* history: completed, or removed on request or by age
  failures,  \* history: tasks dead lettered again
  abandons,  \* history: failed calls and dead callers
  raced      \* history: tasks dead lettered while their IDs were doomed

dlqVars   == <<zset, index>>
adminVars == <<pc, bulk, ids, bodies, item>>
agedVars  == <<aged, half>>
histVars  == <<gone, failures, abandons, raced>>
vars      == <<dlqVars, queued, adminVars, agedVars, histVars>>

TypeOK ==
  /\ zset \subseteq Tasks
  /\ index \subseteq Tasks
  /\ queued \in [Tasks -> Nat]
  /\ pc \in [Admins -> {"idle", "range", "fetch", "items", "added", "purge"}]
  /\ bulk \in [Admins -> BOOLEAN]
  /\ ids \in [Admins -> SUBSET Tasks]
  /\ bodies \in [Admins -> SUBSET Tasks]
  /\ item \in [Admins -> Tasks \cup {NoTask}]
  /\ aged \subseteq Tasks
  /\ half \in Tasks \cup {NoTask}
  /\ gone \subseteq Tasks
  /\ failures \in 0 .. MaxFailures
  /\ abandons \in 0 .. MaxAbandons
  /\ raced \subseteq Tasks

Init ==
  /\ zset = Tasks
  /\ index = Tasks
  /\ queued = [t \in Tasks |-> 0]
  /\ pc = [a \in Admins |-> "idle"]
  /\ bulk = [a \in Admins |-> FALSE]
  /\ ids = [a \in Admins |-> {}]
  /\ bodies = [a \in Admins |-> {}]
  /\ item = [a \in Admins |-> NoTask]
  /\ aged = {}
  /\ half = NoTask
  /\ gone = {}
  /\ failures = 0
  /\ abandons = 0
  /\ raced = {}

-----------------------------------------------------------------------------
(* Executors. *)

Complete(t) ==
  /\ queued[t] > 0
  /\ queued' = [queued EXCEPT ![t] = @ - 1]
  /\ gone' = gone \cup {t}
  /\ UNCHANGED <<dlqVars, adminVars, agedVars, failures, abandons, raced>>

\* Some call, or the age purge, is about to delete the ID whatever it stands
\* for by then.
Doomed(t) ==
  \/ half = t
  \/ \E a \in Admins :
       \/ item[a] = t
       \/ pc[a] \in {"items", "added"} /\ t \in ids[a] \ bodies[a]

MoveToDLQ(t) ==
  /\ queued[t] > 0
  /\ failures < MaxFailures
  /\ failures' = failures + 1
  /\ queued' = [queued EXCEPT ![t] = @ - 1]
  /\ zset' = zset \cup {t}
  /\ index' = index \cup {t}
  /\ raced' = IF Doomed(t) THEN raced \cup {t} ELSE raced
  /\ UNCHANGED <<adminVars, agedVars, gone, abandons>>

-----------------------------------------------------------------------------
(* The client's calls. *)

\* delete_dead_letter.lua: an ID that is not in the index is left alone.
DeleteDeadLetter(t) ==
  /\ zset' = IF t \in index THEN zset \ {t} ELSE zset
  /\ index' = index \ {t}

Delete(t) ==
  /\ t \in index
  /\ DeleteDeadLetter(t)
  /\ gone' = gone \cup {t}
  /\ UNCHANGED <<queued, adminVars, agedVars, failures, abandons, raced>>

\* HGET; an ID that is not found is an error.
RetryDeadLetter(a, t) ==
  /\ pc[a] = "idle"
  /\ t \in index
  /\ pc' = [pc EXCEPT ![a] = "items"]
  /\ bulk' = [bulk EXCEPT ![a] = FALSE]
  /\ ids' = [ids EXCEPT ![a] = {t}]
  /\ bodies' = [bodies EXCEPT ![a] = {t}]
  /\ UNCHANGED <<dlqVars, queued, item, agedVars, histVars>>

RetryAllDeadLetters(a) ==
  /\ pc[a] = "idle"
  /\ pc' = [pc EXCEPT ![a] = "range"]
  /\ bulk' = [bulk EXCEPT ![a] = TRUE]
  /\ UNCHANGED <<dlqVars, queued, ids, bodies, item, agedVars, histVars>>

\* Mutant: an empty page does not end the call.
ReadPageForever(a) ==
  /\ pc[a] = "range"
  /\ pc' = [pc EXCEPT ![a] = "fetch"]
  /\ ids' = [ids EXCEPT ![a] = zset]
  /\ UNCHANGED <<dlqVars, queued, bulk, bodies, item, agedVars, histVars>>

\* ZRANGE; the page size exceeds the model's task set.
ReadPage(a) ==
  /\ pc[a] = "range"
  /\ pc' = [pc EXCEPT ![a] = IF zset = {} THEN "idle" ELSE "fetch"]
  /\ bulk' = [bulk EXCEPT ![a] = zset # {}]
  /\ ids' = [ids EXCEPT ![a] = zset]
  /\ UNCHANGED <<dlqVars, queued, bodies, item, agedVars, histVars>>

\* HMGET of the page.
ReadBodies(a) ==
  /\ pc[a] = "fetch"
  /\ pc' = [pc EXCEPT ![a] = "items"]
  /\ bodies' = [bodies EXCEPT ![a] = ids[a] \cap index]
  /\ UNCHANGED <<dlqVars, queued, bulk, ids, item, agedVars, histVars>>

\* A member without a body is deleted.
DropMissing(a, t) ==
  /\ pc[a] = "items"
  /\ t \in ids[a] \ bodies[a]
  /\ DeleteDeadLetter(t)
  /\ ids' = [ids EXCEPT ![a] = @ \ {t}]
  /\ UNCHANGED <<queued, pc, bulk, bodies, item, agedVars, histVars>>

\* The error of that deletion is ignored.
DropMissingFails(a, t) ==
  /\ pc[a] = "items"
  /\ t \in ids[a] \ bodies[a]
  /\ abandons < MaxAbandons
  /\ abandons' = abandons + 1
  /\ ids' = [ids EXCEPT ![a] = @ \ {t}]
  /\ UNCHANGED <<dlqVars, queued, pc, bulk, bodies, item, agedVars, gone, failures, raced>>

\* Mutant: the dead letter is deleted before the task is enqueued.
RequeueDeletingFirst(a, t) ==
  /\ pc[a] = "items"
  /\ t \in ids[a] \cap bodies[a]
  /\ queued[t] < MaxCopies
  /\ DeleteDeadLetter(t)
  /\ item' = [item EXCEPT ![a] = t]
  /\ pc' = [pc EXCEPT ![a] = "added"]
  /\ UNCHANGED <<queued, bulk, ids, bodies, agedVars, histVars>>

Requeue(a, t) ==
  /\ pc[a] = "items"
  /\ t \in ids[a] \cap bodies[a]
  /\ queued[t] < MaxCopies
  /\ queued' = [queued EXCEPT ![t] = @ + 1]
  /\ item' = [item EXCEPT ![a] = t]
  /\ pc' = [pc EXCEPT ![a] = "added"]
  /\ UNCHANGED <<dlqVars, bulk, ids, bodies, agedVars, histVars>>

DeleteRequeued(a) ==
  /\ pc[a] = "added"
  /\ DeleteDeadLetter(item[a])
  /\ ids' = [ids EXCEPT ![a] = @ \ {item[a]}]
  /\ item' = [item EXCEPT ![a] = NoTask]
  /\ pc' = [pc EXCEPT ![a] = "items"]
  /\ UNCHANGED <<queued, bulk, bodies, agedVars, histVars>>

\* The page is done: RetryAllDeadLetters reads the next one.
EndOfPage(a) ==
  /\ pc[a] = "items"
  /\ ids[a] = {}
  /\ pc' = [pc EXCEPT ![a] = IF bulk[a] THEN "range" ELSE "idle"]
  /\ bodies' = [bodies EXCEPT ![a] = {}]
  /\ UNCHANGED <<dlqVars, queued, bulk, ids, item, agedVars, histVars>>

Return(a) ==
  /\ pc' = [pc EXCEPT ![a] = "idle"]
  /\ ids' = [ids EXCEPT ![a] = {}]
  /\ bodies' = [bodies EXCEPT ![a] = {}]
  /\ item' = [item EXCEPT ![a] = NoTask]
  /\ bulk' = [bulk EXCEPT ![a] = FALSE]
  /\ UNCHANGED <<dlqVars, queued, agedVars, gone, failures, raced>>

\* Enqueue rejects the task: a duplicate, or the queue is full.
RequeueRejected(a) ==
  /\ pc[a] = "items"
  /\ ids[a] \cap bodies[a] # {}
  /\ Return(a)
  /\ UNCHANGED abandons

\* A call fails, or the caller dies.
Abandon(a) ==
  /\ pc[a] # "idle"
  /\ abandons < MaxAbandons
  /\ abandons' = abandons + 1
  /\ Return(a)

\* PurgeAllDeadLetters: ZCARD, then one DEL of both keys.
CountDeadLetters(a) ==
  /\ pc[a] = "idle"
  /\ zset # {}
  /\ pc' = [pc EXCEPT ![a] = "purge"]
  /\ UNCHANGED <<dlqVars, queued, bulk, ids, bodies, item, agedVars, histVars>>

PurgeAllDeadLetters(a) ==
  /\ pc[a] = "purge"
  /\ pc' = [pc EXCEPT ![a] = "idle"]
  /\ zset' = {}
  /\ index' = {}
  /\ gone' = gone \cup index
  /\ UNCHANGED <<queued, bulk, ids, bodies, item, agedVars, failures, abandons, raced>>

-----------------------------------------------------------------------------
(* RetentionJanitor.purgeDLQByAge. *)

ReadAged ==
  /\ AgePurge
  /\ aged = {} /\ half = NoTask
  /\ aged' \in SUBSET zset
  /\ UNCHANGED <<dlqVars, queued, adminVars, half, histVars>>

\* Mutant: the index entry goes first.
PurgeHDelFirst(t) ==
  /\ half = NoTask
  /\ t \in aged
  /\ aged' = aged \ {t}
  /\ half' = t
  /\ index' = index \ {t}
  /\ gone' = gone \cup {t}
  /\ UNCHANGED <<zset, queued, adminVars, failures, abandons, raced>>

PurgeZRem(t) ==
  /\ half = NoTask
  /\ t \in aged
  /\ aged' = aged \ {t}
  /\ half' = t
  /\ zset' = zset \ {t}
  /\ UNCHANGED <<index, queued, adminVars, histVars>>

PurgeHDel ==
  /\ half # NoTask
  /\ half' = NoTask
  /\ index' = index \ {half}
  /\ gone' = gone \cup {half}
  /\ UNCHANGED <<zset, queued, adminVars, aged, failures, abandons, raced>>

-----------------------------------------------------------------------------

\* The steps of a call under way that reaches Redis.
Proceed(a) ==
  \/ ReadPage(a) \/ ReadBodies(a) \/ RequeueRejected(a)
  \/ DeleteRequeued(a) \/ EndOfPage(a)
  \/ PurgeAllDeadLetters(a)
  \/ \E t \in Tasks : DropMissing(a, t) \/ Requeue(a, t)

Next ==
  \/ \E t \in Tasks : Complete(t) \/ MoveToDLQ(t) \/ Delete(t) \/ PurgeZRem(t)
  \/ ReadAged \/ PurgeHDel
  \/ \E a \in Admins :
       \/ RetryAllDeadLetters(a) \/ CountDeadLetters(a)
       \/ Proceed(a) \/ Abandon(a)
       \/ \E t \in Tasks : RetryDeadLetter(a, t) \/ DropMissingFails(a, t)

Spec == Init /\ [][Next]_vars

\* Executors settle what is queued, a caller goes on with its call.
FairSpec ==
  /\ Spec
  /\ \A t \in Tasks : WF_vars(Complete(t))
  /\ \A a \in Admins : WF_vars(Proceed(a))

-----------------------------------------------------------------------------

Accounted(t) == t \in index \/ queued[t] > 0 \/ t \in gone

(***************************************************************************)
(* RetryLosesNothing.  Whatever calls of several administrators overlap,   *)
(* fail or are abandoned between their steps, and however often retried    *)
(* tasks fail again, a dead letter is retried, removed on request or still *)
(* there.  The exception is a task that fails again while a call is about  *)
(* to delete its ID: RetryDeadLetter after Enqueue, RetryAllDeadLetters    *)
(* after it found no body.                                                 *)
(***************************************************************************)
RetryLosesNothing == \A t \in Tasks \ raced : Accounted(t)

(***************************************************************************)
(* NoOrphans.  An ID in the ZSET has its task in the index between any two *)
(* commands of any callers, so that it can be listed, retried and deleted; *)
(* only the age purge can break this, when the task it is removing is dead *)
(* lettered again between its two commands.                                *)
(***************************************************************************)
NoOrphans == zset \ raced \subseteq index

(***************************************************************************)
(* CallsReturn.  RetryAllDeadLetters reads pages until the DLQ is empty    *)
(* while other callers empty it and tasks fail again.  With finitely many  *)
(* such failures every call returns, unless the age purge has left an ID   *)
(* without its task: delete_dead_letter.lua does not remove that one and   *)
(* the same page comes again.                                              *)
(***************************************************************************)
CallsReturn ==
  \A a \in Admins : pc[a] # "idle" ~> pc[a] = "idle" \/ ~(zset \subseteq index)

=============================================================================
