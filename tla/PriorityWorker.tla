---------------------------- MODULE PriorityWorker ----------------------------
(***************************************************************************)
(* The priority worker: consumers that poll several queues in an order     *)
(* drawn for each pass, strictly by weight or at random, and hand what     *)
(* they fetch to a bounded pool of executions.  PriorityQueues are numbers *)
(* of undelivered entries that producers refill; what an execution does is in *)
(* TaskQueue, how a pause reaches the worker in PauseControl.              *)
(***************************************************************************)
EXTENDS Naturals, Sequences, FiniteSets

CONSTANTS
  PriorityQueues,  \* names of the queues, QueuePriority.Name
  Weight,          \* QueuePriority.Weight
  NoQueue,         \* a consumer that holds no message
  Consumers,       \* consumer goroutines
  PoolSize,        \* size of the execution pool
  Cap,             \* bound: undelivered entries of a queue
  MaxReadFaults    \* bound: failed reads

ASSUME PriorityAssumption ==
  /\ NoQueue \notin PriorityQueues
  /\ IsFiniteSet(PriorityQueues)
  /\ Weight \in [PriorityQueues -> Nat]
  /\ {PoolSize, Cap} \subseteq Nat \ {0}
  /\ MaxReadFaults \in Nat

VARIABLES
  strategy,  \* priorityStrategy
  sync,      \* syncExecution
  backlog,   \* undelivered entries of each queue
  paused,    \* queues whose pause flag is set in this worker
  pc,        \* where each consumer is
  order,     \* the queues it has still to poll in this pass
  held,      \* the queue of the message it has fetched
  running,   \* executions of each queue's messages
  inUse,     \* tokens taken from the pool
  stopped,   \* the consumer context is cancelled
  ready,     \* history, strict: queues with work throughout a consumer's pass
  faults     \* history: failed reads

priorityVars == <<strategy, sync, backlog, paused, pc, order, held, running, inUse, stopped, ready, faults>>

Orders == {o \in [1 .. Cardinality(PriorityQueues) -> PriorityQueues] : \A i, j \in DOMAIN o : o[i] = o[j] => i = j}

PriorityTypeOK ==
  /\ strategy \in {"strict", "weighted"}
  /\ sync \in BOOLEAN
  /\ backlog \in [PriorityQueues -> 0 .. Cap]
  /\ paused \subseteq PriorityQueues
  /\ pc \in [Consumers -> {"pass", "poll", "read", "fetched", "sleep", "exited"}]
  /\ order \in [Consumers -> Seq(PriorityQueues)]
  /\ held \in [Consumers -> PriorityQueues \cup {NoQueue}]
  /\ running \in [PriorityQueues -> Nat]
  /\ inUse \in 0 .. PoolSize
  /\ stopped \in BOOLEAN
  /\ ready \in [Consumers -> SUBSET PriorityQueues]
  /\ faults \in 0 .. MaxReadFaults

PriorityInit ==
  /\ strategy \in {"strict", "weighted"}
  /\ sync \in BOOLEAN
  /\ backlog = [q \in PriorityQueues |-> 0]
  /\ paused = {}
  /\ pc = [c \in Consumers |-> "pass"]
  /\ order = [c \in Consumers |-> <<>>]
  /\ held = [c \in Consumers |-> NoQueue]
  /\ running = [q \in PriorityQueues |-> 0]
  /\ inUse = 0
  /\ stopped = FALSE
  /\ ready = [c \in Consumers |-> {}]
  /\ faults = 0

-----------------------------------------------------------------------------
(* Producers and the operator. *)

\* A queue that runs empty or is paused had no work throughout a pass.
NotReady(q) == ready' = [c \in Consumers |-> ready[c] \ {q}]

Produce(q) ==
  /\ backlog[q] < Cap
  /\ backlog' = [backlog EXCEPT ![q] = @ + 1]
  /\ UNCHANGED <<strategy, sync, paused, pc, order, held, running, inUse, stopped, ready, faults>>

Pause(q) ==
  /\ q \notin paused
  /\ paused' = paused \cup {q}
  /\ NotReady(q)
  /\ UNCHANGED <<strategy, sync, backlog, pc, order, held, running, inUse, stopped, faults>>

Resume(q) ==
  /\ q \in paused
  /\ paused' = paused \ {q}
  /\ UNCHANGED <<strategy, sync, backlog, pc, order, held, running, inUse, stopped, ready, faults>>

-----------------------------------------------------------------------------
(* priorityWorker.worker. *)

\* Mutant: lighter queues come first.
SortQueuesAscending ==
  {o \in Orders : \A i, j \in DOMAIN o : i < j => Weight[o[i]] <= Weight[o[j]]}

\* sort.Slice is not stable: queues of one weight come in any order.
SortQueues ==
  {o \in Orders : \A i, j \in DOMAIN o : i < j => Weight[o[i]] >= Weight[o[j]]}

\* Mutant: a weight of 0 is drawn when no other is left.
ShuffleQueuesZeroLast ==
  {o \in Orders : \A i, j \in DOMAIN o : i < j => Weight[o[i]] > 0 \/ Weight[o[j]] = 0}

\* Drawn by weight without replacement, a weight of 0 counts as 1: any order
\* has a positive probability.
ShuffleQueues == Orders

\* A pass begins; o is its order.
BeginPass(c, o) ==
  /\ pc[c] = "pass"
  /\ ~stopped
  /\ o \in IF strategy = "strict" THEN SortQueues ELSE ShuffleQueues
  /\ order' = [order EXCEPT ![c] = o]
  /\ pc' = [pc EXCEPT ![c] = "poll"]
  /\ ready' = [ready EXCEPT ![c] =
                 {q \in PriorityQueues \ paused : strategy = "strict" /\ backlog[q] > 0}]
  /\ UNCHANGED <<strategy, sync, backlog, paused, held, running, inUse, stopped, faults>>

\* isQueuePaused says no: XREADGROUP follows, whatever the flag says by then.
NotPaused(c) ==
  /\ pc[c] = "poll"
  /\ order[c] # <<>>
  /\ Head(order[c]) \notin paused
  /\ pc' = [pc EXCEPT ![c] = "read"]
  /\ UNCHANGED <<strategy, sync, backlog, paused, order, held, running, inUse, stopped, ready, faults>>

\* The next queue is paused, or XREADGROUP finds nothing in 10 ms.
Skip(c) ==
  /\ order[c] # <<>>
  /\ \/ pc[c] = "poll" /\ Head(order[c]) \in paused
     \/ pc[c] = "read" /\ backlog[Head(order[c])] = 0
  /\ pc' = [pc EXCEPT ![c] = "poll"]
  /\ order' = [order EXCEPT ![c] = Tail(@)]
  /\ UNCHANGED <<strategy, sync, backlog, paused, held, running, inUse, stopped, ready, faults>>

\* XREADGROUP fails: the next queue is polled after 50 ms.
ReadFails(c) ==
  /\ pc[c] = "read"
  /\ order[c] # <<>>
  /\ faults < MaxReadFaults
  /\ faults' = faults + 1
  /\ pc' = [pc EXCEPT ![c] = "poll"]
  /\ order' = [order EXCEPT ![c] = Tail(@)]
  /\ ready' = [ready EXCEPT ![c] = @ \ {Head(order[c])}]
  /\ UNCHANGED <<strategy, sync, backlog, paused, held, running, inUse, stopped>>

\* A message ends the pass; the pause is not looked at again.
Fetch(c) ==
  /\ pc[c] = "read"
  /\ order[c] # <<>>
  /\ LET q == Head(order[c])
     IN  /\ backlog[q] > 0
         /\ backlog' = [backlog EXCEPT ![q] = @ - 1]
         /\ held' = [held EXCEPT ![c] = q]
         /\ IF backlog[q] = 1
            THEN ready' = [d \in Consumers |-> IF d = c THEN ready[c] ELSE ready[d] \ {q}]
            ELSE UNCHANGED ready
  /\ order' = [order EXCEPT ![c] = <<>>]
  /\ pc' = [pc EXCEPT ![c] = "fetched"]
  /\ UNCHANGED <<strategy, sync, paused, running, inUse, stopped, faults>>

\* syncExecution: the consumer processes the message itself.
ProcessSync(c) ==
  /\ pc[c] = "fetched"
  /\ sync
  /\ held' = [held EXCEPT ![c] = NoQueue]
  /\ pc' = [pc EXCEPT ![c] = "pass"]
  /\ ready' = [ready EXCEPT ![c] = {}]
  /\ UNCHANGED <<strategy, sync, backlog, paused, order, running, inUse, stopped, faults>>

\* execPool.Acquire, then the execution in a goroutine of its own.
Acquire(c) ==
  /\ pc[c] = "fetched"
  /\ ~sync
  /\ inUse < PoolSize
  /\ inUse' = inUse + 1
  /\ running' = [running EXCEPT ![held[c]] = @ + 1]
  /\ held' = [held EXCEPT ![c] = NoQueue]
  /\ pc' = [pc EXCEPT ![c] = "pass"]
  /\ ready' = [ready EXCEPT ![c] = {}]
  /\ UNCHANGED <<strategy, sync, backlog, paused, order, stopped, faults>>

\* Acquire fails once the context is cancelled: the message stays pending.
GiveUp(c) ==
  /\ pc[c] = "fetched"
  /\ ~sync
  /\ stopped
  /\ held' = [held EXCEPT ![c] = NoQueue]
  /\ pc' = [pc EXCEPT ![c] = "exited"]
  /\ ready' = [ready EXCEPT ![c] = {}]
  /\ UNCHANGED <<strategy, sync, backlog, paused, order, running, inUse, stopped, faults>>

\* Nothing was fetched: 50 ms, or 200 ms if every queue is paused.
Sleep(c) ==
  /\ pc[c] = "poll"
  /\ order[c] = <<>>
  /\ pc' = [pc EXCEPT ![c] = "sleep"]
  /\ ready' = [ready EXCEPT ![c] = {}]
  /\ UNCHANGED <<strategy, sync, backlog, paused, order, held, running, inUse, stopped, faults>>

Wake(c) ==
  /\ pc[c] = "sleep"
  /\ pc' = [pc EXCEPT ![c] = "pass"]
  /\ UNCHANGED <<strategy, sync, backlog, paused, order, held, running, inUse, stopped, ready, faults>>

\* The context is looked at before each pass, and a read it cancels returns.
Exit(c) ==
  /\ pc[c] \in {"pass", "read"}
  /\ stopped
  /\ pc' = [pc EXCEPT ![c] = "exited"]
  /\ order' = [order EXCEPT ![c] = <<>>]
  /\ ready' = [ready EXCEPT ![c] = {}]
  /\ UNCHANGED <<strategy, sync, backlog, paused, held, running, inUse, stopped, faults>>

\* Mutant: the token is not given back.
FinishWithoutRelease(q) ==
  /\ running[q] > 0
  /\ running' = [running EXCEPT ![q] = @ - 1]
  /\ UNCHANGED <<strategy, sync, backlog, paused, pc, order, held, inUse, stopped, ready, faults>>

\* processMessage returns; Release takes a token only if there is one.
Finish(q) ==
  /\ running[q] > 0
  /\ running' = [running EXCEPT ![q] = @ - 1]
  /\ inUse' = IF inUse > 0 THEN inUse - 1 ELSE 0
  /\ UNCHANGED <<strategy, sync, backlog, paused, pc, order, held, stopped, ready, faults>>

Stop ==
  /\ ~stopped
  /\ stopped' = TRUE
  /\ UNCHANGED <<strategy, sync, backlog, paused, pc, order, held, running, inUse, ready, faults>>

-----------------------------------------------------------------------------

Consume(c) ==
  \/ \E o \in Orders : BeginPass(c, o)
  \/ NotPaused(c) \/ Skip(c) \/ Fetch(c) \/ ProcessSync(c) \/ Acquire(c) \/ GiveUp(c)
  \/ Sleep(c) \/ Wake(c) \/ Exit(c)

PriorityNext ==
  \/ \E q \in PriorityQueues : Produce(q) \/ Pause(q) \/ Resume(q) \/ Finish(q)
  \/ \E c \in Consumers : Consume(c) \/ ReadFails(c)
  \/ Stop

PrioritySpec == PriorityInit /\ [][PriorityNext]_priorityVars

\* Goroutines are scheduled, executions end, and the senders that wait for the
\* pool's channel are served in order.  A consumer that draws orders forever
\* draws each first queue again and again while it has work: the draws do not
\* depend on the producers.
Fairness ==
  /\ \A c \in Consumers :
       /\ WF_priorityVars(Consume(c))
       /\ \A q \in PriorityQueues :
            SF_priorityVars(q \notin paused /\ backlog[q] > 0 /\ \E o \in Orders : o[1] = q /\ BeginPass(c, o))
       /\ SF_priorityVars(Acquire(c))
  /\ \A q \in PriorityQueues : WF_priorityVars(Finish(q))

FairSpec == PrioritySpec /\ Fairness

-----------------------------------------------------------------------------
(* Properties. *)

Heaviest(q) == \A r \in PriorityQueues \ {q} : Weight[r] < Weight[q]

\* Under the strict strategy a consumer fetches from a queue only if no heavier
\* one had work, and was not paused or unreadable, throughout its pass.
StrictDominance ==
  strategy = "strict" =>
    \A c \in Consumers : pc[c] = "fetched" => \A q \in ready[c] : Weight[q] <= Weight[held[c]]

\* No queue starves under the weighted strategy, a weight of 0 included, however
\* busy the others are; under the strict one the heaviest queue does not.
NoStarvation ==
  \A q \in PriorityQueues :
    strategy = "weighted" \/ Heaviest(q) =>
      []<>(backlog[q] = 0 \/ q \in paused \/ stopped \/ \E c \in Consumers : held[c] = q)

\* What is fetched is executed or, on a stop, left pending: the pool never runs
\* out of tokens for good.
FetchedEnds ==
  \A c \in Consumers : (pc[c] = "fetched") ~> (pc[c] # "fetched")

=============================================================================
