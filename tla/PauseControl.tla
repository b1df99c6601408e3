----------------------------- MODULE PauseControl -----------------------------
(***************************************************************************)
(* Pausing and resuming one queue.  An administrator writes the paused key *)
(* in Redis and then publishes a control message; in a worker process the  *)
(* subscriber goroutine of PauseController mirrors the key in memory, from *)
(* the messages and from a periodic reconciliation; the consumer           *)
(* goroutines of workerPool check the flag before and after they fetch,    *)
(* and wait on a channel that a resume closes.                             *)
(*                                                                         *)
(* A section under PauseController.mu is one step, a Redis command is one  *)
(* step.                                                                   *)
(***************************************************************************)
EXTENDS Naturals, Sequences

CONSTANTS
  Consumers,    \* goroutines running runBackgroundLoop
  Admins,       \* callers of Pause and Resume
  MaxCommands   \* bound: how many Pause and Resume calls are made

ASSUME CommandsAssumption == MaxCommands \in Nat

VARIABLES
  key,         \* the paused key exists in Redis
  admin,       \* what each administrator still has to publish
  commands,    \* Pause and Resume calls so far
  inbox,       \* control messages on their way to the subscriber
  sub,         \* what Reconcile has read and not yet applied
  paused,      \* pausedQueues[queue]
  registered,  \* consumers that hold the open channel pauseChans[queue]
  pc,          \* where each consumer is in runBackgroundLoop
  fetched      \* history: the message in hand was read during this pause

adminVars    == <<key, admin, commands>>
consumerVars == <<pc, registered, fetched>>
vars         == <<adminVars, inbox, sub, paused, consumerVars>>

Orders  == {"pause", "resume"}
Nothing == "nothing"
Stages  == {"check", "chan", "wait", "read", "recheck", "rechan", "rewait", "process"}

TypeOK ==
  /\ key \in BOOLEAN
  /\ admin \in [Admins -> Orders \cup {Nothing}]
  /\ commands \in 0 .. MaxCommands
  /\ inbox \in Seq(Orders)
  /\ sub \in Orders \cup {Nothing}
  /\ paused \in BOOLEAN
  /\ registered \subseteq Consumers
  /\ pc \in [Consumers -> Stages]
  /\ fetched \in [Consumers -> BOOLEAN]

\* The worker has started: Start reconciles once, and EXISTS may have failed.
Init ==
  /\ key \in BOOLEAN
  /\ paused \in {FALSE, key}
  /\ admin = [a \in Admins |-> Nothing]
  /\ commands = 0
  /\ inbox = <<>>
  /\ sub = Nothing
  /\ registered = {}
  /\ pc = [c \in Consumers |-> "check"]
  /\ fetched = [c \in Consumers |-> FALSE]

-----------------------------------------------------------------------------
(* Pause and Resume: the key first, then the message. *)

Command(a, order) ==
  /\ admin[a] = Nothing
  /\ commands < MaxCommands
  /\ commands' = commands + 1
  /\ key' = (order = "pause")
  /\ admin' = [admin EXCEPT ![a] = order]
  /\ UNCHANGED <<inbox, sub, paused, consumerVars>>

Pause(a)  == Command(a, "pause")
Resume(a) == Command(a, "resume")

\* PUBLISH reaches only a connected subscriber, and may itself fail.
Publish(a) ==
  /\ admin[a] # Nothing
  /\ \/ inbox' = Append(inbox, admin[a])
     \/ UNCHANGED inbox
  /\ admin' = [admin EXCEPT ![a] = Nothing]
  /\ UNCHANGED <<key, commands, sub, paused, consumerVars>>

-----------------------------------------------------------------------------
(* The subscriber goroutine. *)

\* Mutant: the flag is cleared and the channel stays open.
SetPausedSilently(p) == paused' = p /\ UNCHANGED <<registered, fetched>>

\* From paused to active: the channel is closed and forgotten.
SetPaused(p) ==
  /\ paused' = p
  /\ IF paused /\ ~p
     THEN /\ registered' = {}
          /\ fetched' = [c \in Consumers |-> FALSE]
     ELSE UNCHANGED <<registered, fetched>>

Receive ==
  /\ sub = Nothing
  /\ inbox # <<>>
  /\ inbox' = Tail(inbox)
  /\ SetPaused(Head(inbox) = "pause")
  /\ UNCHANGED <<adminVars, sub, pc>>

\* EXISTS; when it fails the flag is left alone.
ReconcileRead ==
  /\ sub = Nothing
  /\ sub' = IF key THEN "pause" ELSE "resume"
  /\ UNCHANGED <<adminVars, inbox, paused, consumerVars>>

\* Mutant: reconciliation only ever pauses.
ReconcilePausesOnly ==
  /\ sub # Nothing
  /\ sub' = Nothing
  /\ IF sub = "pause" THEN SetPaused(TRUE) ELSE UNCHANGED <<paused, registered, fetched>>
  /\ UNCHANGED <<adminVars, inbox, pc>>

ReconcileApply ==
  /\ sub # Nothing
  /\ sub' = Nothing
  /\ SetPaused(sub = "pause")
  /\ UNCHANGED <<adminVars, inbox, pc>>

-----------------------------------------------------------------------------
(* A consumer goroutine. *)

Goto(c, stage) == pc' = [pc EXCEPT ![c] = stage]

Check(c) ==
  /\ pc[c] = "check"
  /\ Goto(c, IF paused THEN "chan" ELSE "read")
  /\ UNCHANGED <<adminVars, inbox, sub, paused, registered, fetched>>

\* WaitChan: the lock was released since IsPaused.
WaitChan(c) ==
  /\ \/ pc[c] = "chan" /\ Goto(c, "wait")
     \/ pc[c] = "rechan" /\ Goto(c, "rewait")
  /\ registered' = registered \cup {c}
  /\ UNCHANGED <<adminVars, inbox, sub, paused, fetched>>

\* Receiving from the channel, once it is closed.
Wake(c) ==
  /\ c \notin registered
  /\ \/ pc[c] = "wait" /\ Goto(c, "check")
     \/ pc[c] = "rewait" /\ Goto(c, "process")
  /\ UNCHANGED <<adminVars, inbox, sub, paused, registered, fetched>>

ReadMessage(c) ==
  /\ pc[c] = "read"
  /\ Goto(c, "recheck")
  /\ fetched' = [fetched EXCEPT ![c] = paused]
  /\ UNCHANGED <<adminVars, inbox, sub, paused, registered>>

\* The block time ends without a message, or XREADGROUP fails.
ReadNothing(c) ==
  /\ pc[c] = "read"
  /\ Goto(c, "check")
  /\ UNCHANGED <<adminVars, inbox, sub, paused, registered, fetched>>

\* Mutant: no second look at the flag.
RecheckDropped(c) ==
  /\ pc[c] = "recheck"
  /\ Goto(c, "process")
  /\ UNCHANGED <<adminVars, inbox, sub, paused, registered, fetched>>

Recheck(c) ==
  /\ pc[c] = "recheck"
  /\ Goto(c, IF paused THEN "rechan" ELSE "process")
  /\ UNCHANGED <<adminVars, inbox, sub, paused, registered, fetched>>

\* The message is processed, or handed to the execution pool.
Process(c) ==
  /\ pc[c] = "process"
  /\ Goto(c, "check")
  /\ UNCHANGED <<adminVars, inbox, sub, paused, registered, fetched>>

-----------------------------------------------------------------------------

Consume(c) ==
  \/ Check(c) \/ WaitChan(c) \/ Wake(c)
  \/ ReadMessage(c) \/ ReadNothing(c) \/ Recheck(c) \/ Process(c)

Subscriber == Receive \/ ReconcileRead \/ ReconcileApply

Next ==
  \/ \E a \in Admins : Pause(a) \/ Resume(a) \/ Publish(a)
  \/ Subscriber
  \/ \E c \in Consumers : Consume(c)

Spec == Init /\ [][Next]_vars

(***************************************************************************)
(* The goroutines of a running worker are scheduled and the reconcile      *)
(* ticker keeps firing.  Nothing is assumed of select: control messages    *)
(* may wait for ever, and administrators may never publish.                *)
(***************************************************************************)
FairSpec ==
  /\ Spec
  /\ WF_vars(ReconcileRead)
  /\ WF_vars(ReconcileApply)
  /\ \A c \in Consumers : WF_vars(Consume(c))

-----------------------------------------------------------------------------

(***************************************************************************)
(* FetchedWhilePausedWaits.  A message that XREADGROUP returned during a   *)
(* pause is not started before that pause ends, whatever the order of the  *)
(* two flag checks, the registration on the channel and later pauses.      *)
(***************************************************************************)
FetchedWhilePausedWaits ==
  \A c \in Consumers : pc[c] = "process" => ~fetched[c]

(***************************************************************************)
(* FlagConverges.  Once no more commands are given, the worker's flag      *)
(* agrees with the key for good, although messages are lost, and those of  *)
(* two administrators may arrive in the other order than their writes.     *)
(***************************************************************************)
FlagConverges == <>[](paused = key)

Waiting(c) == pc[c] \in {"wait", "rewait"}

(***************************************************************************)
(* ResumeReleasesWaiters.  A consumer that waits while the queue is paused *)
(* is released unless the pause never ends.                                *)
(***************************************************************************)
ResumeReleasesWaiters ==
  \A c \in Consumers : (Waiting(c) /\ paused) ~> (~Waiting(c) \/ []paused)

(***************************************************************************)
(* ActiveQueueConsumes.  worker.go, on the wait after a fetch: "Wait for   *)
(* resume here so the message is not left stuck in the PEL".  A consumer   *)
(* that waits although the queue is active does not wait for ever.         *)
(***************************************************************************)
ActiveQueueConsumes ==
  \A c \in Consumers : (Waiting(c) /\ ~paused) ~> (~Waiting(c) \/ paused)

=============================================================================
