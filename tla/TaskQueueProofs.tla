--------------------------- MODULE TaskQueueProofs ---------------------------
(***************************************************************************)
(* Theorems about TaskQueue, for every value of its constants: types, the  *)
(* conservation of tasks and the janitors' coverage of what is delivered;  *)
(* then the limits, the cut off of poison pills, exclusion, unique keys    *)
(* and the contract.                                                       *)
(***************************************************************************)
EXTENDS TaskQueue, FiniteSetTheorems, TLAPS

-----------------------------------------------------------------------------
(* What the shared parts of the actions return. *)

\* The serialized form of a task is never the absence of an entry.
LEMMA BodyIsSomething == NoBody \notin Body /\ \A b \in Body : b # NoBody
BY QueueAssumption DEF Body, NoBody

\* Recording an end keeps the history well typed.
LEMMA EndsWithType ==
  ASSUME ends \in [Tasks -> SUBSET EndKinds], NEW ts, NEW kind \in EndKinds
  PROVE  EndsWith(ts, kind) \in [Tasks -> SUBSET EndKinds]
BY DEF EndsWith

\* Releasing a lock leaves every key with an owner or with none.
LEMMA UnlockedType ==
  ASSUME lock \in [Keys -> Tasks \cup {NoTask}], NEW t
  PROVE  Unlocked(t) \in [Keys -> Tasks \cup {NoTask}]
BY DEF Unlocked

\* Taking a lock leaves every key with an owner or with none.
LEMMA LockedType ==
  ASSUME lock \in [Keys -> Tasks \cup {NoTask}], NEW t \in Tasks
  PROVE  Locked(t) \in [Keys -> Tasks \cup {NoTask}]
BY DEF Locked

-----------------------------------------------------------------------------
(* The inductive invariant.                                                *)

\* Message ids are handed out in order, and the cursor runs behind them.
IdsInOrder ==
  /\ \A id \in MsgIds : id > lastId => stream[id] = NoBody
  /\ groupStart <= cursor
  /\ cursor <= lastId

\* A busy executor holds a delivered message, and while that message is in
\* the stream it carries the task the executor works on.
Holding ==
  \A e \in Executors : pc[e] # "idle" =>
    /\ msg[e] \in MsgIds
    /\ msg[e] <= cursor
    /\ job[e] \in Body
    /\ stream[msg[e]] # NoBody => stream[msg[e]].task = job[e].task

\* Between XACK and XDEL of an undecodable message.
Discarding ==
  \A e \in Executors : pc[e] = "xdel" =>
    /\ pel[msg[e]] = 0 \/ msg[e] \in unacked
    /\ job[e].task \in Undecodable

\* DeliveryCoverage is inductive only with all of it: the cursor must not
\* pass an entry that is not handed out, and the id an executor acknowledges
\* must not be one that Redis has not generated yet.
Structure == TypeOK /\ IdsInOrder /\ Holding /\ Discarding /\ DeliveryCoverage

IInv == Structure /\ Conservation

-----------------------------------------------------------------------------
(* How the parts of a script move tasks. *)

\* A task that is not lost even if it has no stream entry.
Parked(t) == InDelayed(t) \/ t \in dlq \/ ends[t] # {}

\* Recording an end forgets no earlier one.
LEMMA EndsWithGrows ==
  ASSUME TypeOK, NEW ts, NEW kind, NEW u \in Tasks
  PROVE  /\ ends[u] # {} => EndsWith(ts, kind)[u] # {}
         /\ u \in ts => EndsWith(ts, kind)[u] # {}
BY DEF EndsWith, TypeOK

\* The delayed overflow policy parks the new member and drops no task off
\* the record.
LEMMA DroppingKeepsParked ==
  ASSUME TypeOK, NEW body \in Body, ZAddDroppingFarthest(body)
  PROVE  /\ delayed' \subseteq Body
         /\ ends' \in [Tasks -> SUBSET EndKinds]
         /\ \A u \in Tasks : ends[u] # {} => ends'[u] # {}
         /\ \A u \in Tasks : InDelayed(u) \/ u = body.task => InDelayed(u)' \/ ends'[u] # {}
<1>1. PICK drop \in SUBSET delayed :
        /\ delayed' = (delayed \ drop) \cup {body}
        /\ ends' = EndsWith({m.task : m \in drop}, "dropped")
  BY DEF ZAddDroppingFarthest
<1>2. delayed' \subseteq Body
  BY <1>1 DEF TypeOK
<1>3. ends' \in [Tasks -> SUBSET EndKinds]
  BY <1>1, EndsWithType DEF TypeOK, EndKinds
<1>4. \A u \in Tasks : ends[u] # {} => ends'[u] # {}
  BY <1>1, EndsWithGrows
<1>5. ASSUME NEW u \in Tasks, InDelayed(u) \/ u = body.task
      PROVE  InDelayed(u)' \/ ends'[u] # {}
  <2>1. CASE u = body.task
    BY <2>1, <1>1 DEF InDelayed
  <2>2. CASE InDelayed(u)
    <3>1. PICK b \in delayed : b.task = u
      BY <2>2 DEF InDelayed
    <3>2. CASE b \in drop
      BY <3>1, <3>2, <1>1, EndsWithGrows
    <3>3. CASE b \notin drop
      BY <3>1, <3>3, <1>1 DEF InDelayed
    <3> QED BY <3>2, <3>3
  <2> QED BY <2>1, <2>2, <1>5
<1> QED BY <1>2, <1>3, <1>4, <1>5

\* The DLQ capacity evicts no task off the record.
LEMMA EvictionKeepsParked ==
  ASSUME TypeOK, NEW t \in Tasks, ZAddDLQ(t)
  PROVE  /\ dlq' \subseteq Tasks
         /\ ends' \in [Tasks -> SUBSET EndKinds]
         /\ \A u \in Tasks : ends[u] # {} => ends'[u] # {}
         /\ \A u \in Tasks : u \in dlq \/ u = t => u \in dlq' \/ ends'[u] # {}
<1>1. PICK evict \in SUBSET (dlq \cup {t}) :
        dlq' = (dlq \cup {t}) \ evict /\ ends' = EndsWith(evict, "evicted")
  BY DEF ZAddDLQ
<1>2. dlq' \subseteq Tasks
  BY <1>1 DEF TypeOK
<1>3. ends' \in [Tasks -> SUBSET EndKinds]
  BY <1>1, EndsWithType DEF TypeOK, EndKinds
<1>4. \A u \in Tasks : ends[u] # {} => ends'[u] # {}
  BY <1>1, EndsWithGrows
<1>5. \A u \in Tasks : u \in dlq \/ u = t => u \in dlq' \/ ends'[u] # {}
  BY <1>1, EndsWithGrows
<1> QED BY <1>2, <1>3, <1>4, <1>5

-----------------------------------------------------------------------------
(* Steps that share their effect. *)

\* An executor moves on to its next stage; at most the lock changes in Redis.
LEMMA LocalStep ==
  ASSUME IInv, NEW e \in Executors, pc[e] \notin {"idle", "xdel"},
         NEW stage \in Stages \ {"idle", "xdel"},
         pc' = [pc EXCEPT ![e] = stage],
         err' \in [Executors -> Errors],
         lock' \in [Keys -> Tasks \cup {NoTask}],
         disrupted' \in 0 .. MaxDisruptions,
         UNCHANGED <<stream, lastId, groupStart, cursor, pel, delayed, dlq,
                     cancelled, msg, job, accepted, unacked, ends>>
  PROVE  IInv'
<1> USE DEF IInv, Structure
<1>1. TypeOK'
  BY DEF TypeOK
<1>2. IdsInOrder' /\ DeliveryCoverage'
  BY DEF IdsInOrder, DeliveryCoverage
<1>3. Holding'
  BY DEF Holding, TypeOK
<1>4. Discarding'
  BY DEF Discarding, TypeOK
<1>5. Conservation'
  BY DEF Conservation, Held, InStream, InDelayed
<1> QED BY <1>1, <1>2, <1>3, <1>4, <1>5

\* An executor settles its message: the entry leaves the stream and the PEL,
\* and every parked task and the executor's own are parked afterwards.
LEMMA SettleStep ==
  ASSUME IInv, NEW e \in Executors, pc[e] \notin {"idle", "xdel"},
         AckAndDel(msg[e]),
         NEW stage \in Stages \ {"xdel"},
         pc' = [pc EXCEPT ![e] = stage],
         \/ stage # "idle" /\ msg' = msg /\ job' = job
         \/ /\ stage = "idle"
            /\ msg' = [msg EXCEPT ![e] = 0]
            /\ job' = [job EXCEPT ![e] = NoBody],
         err' \in [Executors -> Errors],
         delayed' \subseteq Body,
         dlq' \subseteq Tasks,
         lock' \in [Keys -> Tasks \cup {NoTask}],
         ends' \in [Tasks -> SUBSET EndKinds],
         disrupted' \in 0 .. MaxDisruptions,
         \A u \in Tasks : ends[u] # {} => ends'[u] # {},
         \A u \in Tasks : Parked(u) \/ u = job[e].task => Parked(u)',
         UNCHANGED <<lastId, groupStart, cursor, cancelled, accepted, unacked>>
  PROVE  IInv'
<1> USE DEF IInv, Structure
<1>1. /\ msg[e] \in MsgIds /\ job[e] \in Body
      /\ stream[msg[e]] # NoBody => stream[msg[e]].task = job[e].task
  BY DEF Holding
<1>2. TypeOK'
  BY <1>1 DEF TypeOK, AckAndDel
<1>3. IdsInOrder'
  BY <1>1 DEF IdsInOrder, AckAndDel, TypeOK
<1>4. Holding'
  BY <1>1 DEF Holding, AckAndDel, TypeOK
<1>5. Discarding'
  <2> SUFFICES ASSUME NEW d \in Executors, pc'[d] = "xdel"
               PROVE  /\ pel'[msg'[d]] = 0 \/ msg'[d] \in unacked'
                      /\ job'[d].task \in Undecodable
    BY DEF Discarding
  <2>1. d # e /\ pc[d] = "xdel" /\ msg'[d] = msg[d] /\ job'[d] = job[d]
    BY DEF TypeOK
  <2>2. (pel[msg[d]] = 0 \/ msg[d] \in unacked) /\ job[d].task \in Undecodable
    BY <2>1 DEF Discarding
  <2>3. msg[d] \in MsgIds /\ job[d].task \in Tasks
    BY <2>1 DEF Holding, Body
  <2> QED BY <2>1, <2>2, <2>3, <1>1 DEF AckAndDel, TypeOK
<1>6. DeliveryCoverage'
  BY <1>1 DEF DeliveryCoverage, AckAndDel, TypeOK
<1>7. Conservation'
  <2> SUFFICES ASSUME NEW u \in accepted
               PROVE  InStream(u)' \/ Parked(u)'
    BY DEF Conservation, Held, Parked
  <2>1. u \in Tasks
    BY DEF TypeOK
  <2>2. CASE Parked(u) \/ u = job[e].task
    BY <2>1, <2>2
  <2>3. CASE InStream(u) /\ u # job[e].task
    <3>1. PICK id \in MsgIds : stream[id].task = u
      BY <2>3 DEF InStream
    <3>2. stream[id] # NoBody
      BY <2>1, <3>1, QueueAssumption DEF NoBody
    <3>3. id # msg[e]
      BY <2>3, <3>1, <3>2, <1>1
    <3>4. stream'[id].task = u
      BY <3>1, <3>3, <1>1 DEF AckAndDel, TypeOK
    <3> QED BY <3>4 DEF InStream
  <2> QED BY <2>2, <2>3 DEF Conservation, Held, Parked
<1> QED BY <1>2, <1>3, <1>4, <1>5, <1>6, <1>7

\* The settling script puts the task into the delayed ZSET.
LEMMA RequeueStep ==
  ASSUME IInv, NEW e \in Executors, pc[e] \notin {"idle", "xdel"},
         NEW body \in Body, body.task = job[e].task,
         AckAndDel(msg[e]), ZAddDroppingFarthest(body),
         NEW stage \in Stages \ {"xdel"},
         pc' = [pc EXCEPT ![e] = stage],
         \/ stage # "idle" /\ msg' = msg /\ job' = job
         \/ /\ stage = "idle"
            /\ msg' = [msg EXCEPT ![e] = 0]
            /\ job' = [job EXCEPT ![e] = NoBody],
         err' \in [Executors -> Errors],
         disrupted' \in 0 .. MaxDisruptions,
         UNCHANGED <<lastId, groupStart, cursor, dlq, lock, cancelled, accepted, unacked>>
  PROVE  IInv'
<1>1. TypeOK
  BY DEF IInv, Structure
<1>2. /\ delayed' \subseteq Body
      /\ ends' \in [Tasks -> SUBSET EndKinds]
      /\ \A u \in Tasks : ends[u] # {} => ends'[u] # {}
      /\ \A u \in Tasks : InDelayed(u) \/ u = body.task => InDelayed(u)' \/ ends'[u] # {}
  BY <1>1, DroppingKeepsParked
<1>3. \A u \in Tasks : Parked(u) \/ u = job[e].task => Parked(u)'
  BY <1>2 DEF Parked
<1>4. dlq' \subseteq Tasks /\ lock' \in [Keys -> Tasks \cup {NoTask}]
  BY <1>1 DEF TypeOK
<1> QED BY <1>2, <1>3, <1>4, SettleStep

\* The settling script moves the task to the DLQ.
LEMMA DeadLetterStep ==
  ASSUME IInv, NEW e \in Executors, pc[e] \notin {"idle", "xdel"}, DeadLetter(e)
  PROVE  IInv'
<1>1. TypeOK /\ job[e] \in Body
  BY DEF IInv, Structure, Holding
<1>2. /\ dlq' \subseteq Tasks
      /\ ends' \in [Tasks -> SUBSET EndKinds]
      /\ \A u \in Tasks : ends[u] # {} => ends'[u] # {}
      /\ \A u \in Tasks : u \in dlq \/ u = job[e].task => u \in dlq' \/ ends'[u] # {}
  BY <1>1, EvictionKeepsParked DEF DeadLetter, Body
<1>3. \A u \in Tasks : Parked(u) \/ u = job[e].task => Parked(u)'
  BY <1>2 DEF Parked, InDelayed, DeadLetter
<1>4. /\ delayed' \subseteq Body
      /\ lock' \in [Keys -> Tasks \cup {NoTask}]
      /\ disrupted' \in 0 .. MaxDisruptions
      /\ err' \in [Executors -> Errors]
  BY <1>1, UnlockedType DEF TypeOK, DeadLetter, Finish, Errors
<1> QED BY <1>2, <1>3, <1>4, SettleStep DEF DeadLetter, Finish, Goto, Stages

\* The settling script ends the task.
LEMMA CompleteStep ==
  ASSUME IInv, NEW e \in Executors, pc[e] \notin {"idle", "xdel"},
         NEW kind \in EndKinds, Complete(e, kind)
  PROVE  IInv'
<1>1. TypeOK /\ job[e] \in Body
  BY DEF IInv, Structure, Holding
<1>2. /\ ends' \in [Tasks -> SUBSET EndKinds]
      /\ \A u \in Tasks : ends[u] # {} \/ u = job[e].task => ends'[u] # {}
  BY <1>1, EndsWithType, EndsWithGrows DEF Complete, TypeOK
<1>3. \A u \in Tasks : Parked(u) \/ u = job[e].task => Parked(u)'
  BY <1>2 DEF Parked, InDelayed, Complete
<1>4. /\ delayed' \subseteq Body /\ dlq' \subseteq Tasks
      /\ lock' \in [Keys -> Tasks \cup {NoTask}]
      /\ disrupted' \in 0 .. MaxDisruptions
      /\ err' \in [Executors -> Errors]
  BY <1>1, UnlockedType DEF TypeOK, Complete, Finish, Errors
<1> QED BY <1>2, <1>3, <1>4, SettleStep DEF Complete, Finish, Goto, Stages

\* A message is handed to an executor: XREADGROUP or XAUTOCLAIM.
LEMMA LoadStep ==
  ASSUME IInv, NEW e \in Executors, pc[e] = "idle",
         NEW id \in MsgIds, stream[id] # NoBody, NEW retry \in Nat,
         NEW count \in Nat \ {0},
         pel' = [pel EXCEPT ![id] = count],
         \/ cursor' = cursor /\ pel[id] > 0
         \/ cursor' = id /\ id > cursor /\ \A other \in Undelivered : id <= other,
         Load(e, id, retry),
         disrupted' \in 0 .. MaxDisruptions,
         UNCHANGED <<stream, lastId, groupStart, delayed, dlq, lock, cancelled,
                     accepted, unacked, ends>>
  PROVE  IInv'
<1> USE DEF IInv, Structure
<1>1. stream[id] \in Body
  BY DEF TypeOK
<1>2. [task |-> stream[id].task, retry |-> retry] \in Body
  BY <1>1 DEF Body
<1>3. id <= lastId /\ cursor <= cursor' /\ id <= cursor' /\ cursor' \in 0 .. MaxMsgs
  BY DEF IdsInOrder, DeliveryCoverage, TypeOK, MsgIds
<1>4. TypeOK'
  BY <1>2, <1>3 DEF TypeOK, Load, Stages
<1>5. IdsInOrder'
  BY <1>3 DEF IdsInOrder, TypeOK, NoGroup, MsgIds
<1>6. Holding'
  BY <1>2, <1>3 DEF Holding, Load, TypeOK, MsgIds
<1>7. Discarding'
  <2> SUFFICES ASSUME NEW d \in Executors, pc'[d] = "xdel"
               PROVE  /\ pel'[msg'[d]] = 0 \/ msg'[d] \in unacked'
                      /\ job'[d].task \in Undecodable
    BY DEF Discarding
  <2>1. d # e /\ pc[d] = "xdel" /\ msg'[d] = msg[d] /\ job'[d] = job[d]
    BY DEF Load, TypeOK
  <2>2. (pel[msg[d]] = 0 \/ msg[d] \in unacked) /\ job[d].task \in Undecodable
    BY <2>1 DEF Discarding
  <2>3. msg[d] \in MsgIds /\ msg[d] <= cursor
    BY <2>1 DEF Holding
  <2>4. pel[msg[d]] = 0 => msg[d] # id
    BY <2>3 DEF TypeOK, MsgIds
  <2> QED BY <2>1, <2>2, <2>3, <2>4 DEF TypeOK
<1>8. DeliveryCoverage'
  BY <1>3 DEF DeliveryCoverage, Undelivered, TypeOK, MsgIds
<1>9. Conservation'
  BY DEF Conservation, Held, InStream, InDelayed
<1> QED BY <1>4, <1>5, <1>6, <1>7, <1>8, <1>9

\* An entry is added to the stream: Enqueue or a promotion.
LEMMA XAddStep ==
  ASSUME IInv, NEW body \in Body, XAdd(body),
         delayed' \subseteq Body,
         lock' \in [Keys -> Tasks \cup {NoTask}],
         accepted' \subseteq accepted \cup {body.task},
         \A u \in Tasks : InDelayed(u) => InDelayed(u)' \/ u = body.task,
         UNCHANGED <<groupStart, cursor, pel, dlq, cancelled, execVars, unacked,
                     ends, disrupted>>
  PROVE  IInv'
<1> USE DEF IInv, Structure, execVars
<1>1. lastId + 1 \in MsgIds /\ lastId' = lastId + 1 /\ stream[lastId + 1] = NoBody
  BY BoundsAssumption DEF XAdd, IdsInOrder, TypeOK, MsgIds
<1>2. stream' = [stream EXCEPT ![lastId + 1] = body]
  BY DEF XAdd
<1>3. TypeOK'
  BY <1>1, <1>2 DEF TypeOK, MsgIds, Body
<1>4. IdsInOrder'
  BY <1>1, <1>2 DEF IdsInOrder, TypeOK, MsgIds, NoGroup
<1>5. Holding'
  <2> SUFFICES ASSUME NEW d \in Executors, pc[d] # "idle"
               PROVE  /\ msg[d] \in MsgIds /\ msg[d] <= cursor /\ job[d] \in Body
                      /\ stream'[msg[d]] # NoBody => stream'[msg[d]].task = job[d].task
    BY DEF Holding
  <2>1. msg[d] \in MsgIds /\ msg[d] <= cursor /\ msg[d] # lastId + 1
    BY DEF Holding, IdsInOrder, TypeOK, MsgIds
  <2> QED BY <2>1, <1>2 DEF Holding, TypeOK
<1>6. Discarding'
  BY DEF Discarding
<1>7. DeliveryCoverage'
  BY <1>1, <1>2 DEF DeliveryCoverage, IdsInOrder, TypeOK, MsgIds
<1>8. Conservation'
  <2> SUFFICES ASSUME NEW u \in accepted \cup {body.task}
               PROVE  InStream(u)' \/ Parked(u)'
    BY DEF Conservation, Held, Parked
  <2>1. CASE u = body.task
    BY <2>1, <1>1, <1>2 DEF InStream, TypeOK
  <2>2. CASE u # body.task /\ InStream(u)
    <3>1. PICK id \in MsgIds : stream[id].task = u
      BY <2>2 DEF InStream
    <3>2. u \in Tasks /\ id # lastId + 1
      BY <3>1, <2>2, <1>1, QueueAssumption DEF TypeOK, NoBody
    <3> QED BY <3>1, <3>2, <1>2 DEF InStream, TypeOK
  <2>3. CASE u # body.task /\ Parked(u)
    BY <2>3 DEF Parked, TypeOK
  <2> QED BY <2>1, <2>2, <2>3 DEF Conservation, Held, Parked
<1> QED BY <1>3, <1>4, <1>5, <1>6, <1>7, <1>8

-----------------------------------------------------------------------------
(* One lemma for each group of actions. *)

\* Enqueue, EnqueueAt and CancelTask.
LEMMA ClientStep ==
  ASSUME IInv, NEW t \in Tasks, Client(t)
  PROVE  IInv'
<1>1. NewBody(t) \in Body /\ NewBody(t).task = t
  BY DEF NewBody, Body
<1>2. TypeOK
  BY DEF IInv, Structure
<1>3. CASE Enqueue(t)
  <2>1. lock' \in [Keys -> Tasks \cup {NoTask}]
    BY <1>2, <1>3, LockedType DEF Enqueue, TypeOK
  <2> QED BY <2>1, <1>1, <1>2, <1>3, XAddStep DEF Enqueue, TypeOK, InDelayed
<1>4. CASE EnqueueAt(t)
  <2> USE DEF IInv, Structure
  <2>1. /\ delayed' \subseteq Body
        /\ ends' \in [Tasks -> SUBSET EndKinds]
        /\ \A u \in Tasks : ends[u] # {} => ends'[u] # {}
        /\ \A u \in Tasks : InDelayed(u) \/ u = t => InDelayed(u)' \/ ends'[u] # {}
    BY <1>1, <1>2, <1>4, DroppingKeepsParked DEF EnqueueAt
  <2>2. lock' \in [Keys -> Tasks \cup {NoTask}]
    BY <1>2, <1>4, LockedType DEF EnqueueAt, TypeOK
  <2>3. TypeOK'
    BY <2>1, <2>2, <1>4 DEF TypeOK, EnqueueAt, execVars
  <2>4. IdsInOrder' /\ Holding' /\ DeliveryCoverage'
    BY <1>4 DEF EnqueueAt, execVars, IdsInOrder, Holding, DeliveryCoverage
  <2>5. Discarding'
    BY <2>1, <1>4 DEF EnqueueAt, execVars, Discarding, Holding, Body
  <2>6. Conservation'
    BY <2>1, <1>4 DEF EnqueueAt, Conservation, Held, InStream, TypeOK
  <2> QED BY <2>3, <2>4, <2>5, <2>6
<1>5. CASE CancelTask(t)
  <2> USE DEF IInv, Structure, CancelTask, execVars, histVars
  <2>1. TypeOK'
    BY <1>5 DEF TypeOK
  <2>2. IdsInOrder' /\ Holding' /\ Discarding' /\ DeliveryCoverage' /\ Conservation'
    BY <1>5 DEF IdsInOrder, Holding, Discarding, DeliveryCoverage,
                Conservation, Held, InStream, InDelayed
  <2> QED BY <2>1, <2>2
<1> QED BY <1>3, <1>4, <1>5 DEF Client

\* The group is created behind every entry there is.
LEMMA StartGroupStep ==
  ASSUME IInv, StartGroup
  PROVE  IInv'
<1> USE DEF IInv, Structure, StartGroup, execVars, histVars
<1>1. TypeOK' /\ IdsInOrder'
  BY DEF TypeOK, IdsInOrder, NoGroup
<1>2. Holding' /\ Discarding'
  BY DEF Holding, Discarding, IdsInOrder, TypeOK, MsgIds
<1>3. DeliveryCoverage'
  BY DEF DeliveryCoverage, IdsInOrder, TypeOK, MsgIds
<1>4. Conservation'
  BY DEF Conservation, Held, InStream, InDelayed
<1> QED BY <1>1, <1>2, <1>3, <1>4

\* The scheduler promotes a due member.
LEMMA PromoteStep ==
  ASSUME IInv, NEW body \in delayed, Promote(body)
  PROVE  IInv'
<1>1. TypeOK /\ body \in Body
  BY DEF IInv, Structure, TypeOK
<1>2. \A u \in Tasks : InDelayed(u) => InDelayed(u)' \/ u = body.task
  BY DEF Promote, InDelayed
<1> QED BY <1>1, <1>2, XAddStep DEF Promote, TypeOK, histVars

\* XREADGROUP hands out the oldest undelivered entry.
LEMMA DeliverStep ==
  ASSUME IInv, NEW e \in Executors, Deliver(e)
  PROVE  IInv'
<1>1. PICK id \in Undelivered :
        /\ \A other \in Undelivered : id <= other
        /\ cursor' = id
        /\ pel' = [pel EXCEPT ![id] = 1]
        /\ Load(e, id, stream[id].retry)
  BY DEF Deliver
<1>2. id \in MsgIds /\ id > cursor /\ stream[id] # NoBody
  BY DEF Undelivered
<1>3. stream[id].retry \in Nat /\ disrupted' \in 0 .. MaxDisruptions
  BY <1>2 DEF IInv, Structure, TypeOK, Body, Deliver, histVars
<1>4. /\ pc[e] = "idle"
      /\ UNCHANGED <<stream, lastId, groupStart, delayed, dlq, lock, cancelled,
                     accepted, unacked, ends>>
  BY DEF Deliver, histVars
<1>5. 1 \in Nat \ {0}
  OBVIOUS
<1> QED BY <1>1, <1>2, <1>3, <1>4, <1>5, LoadStep

\* A disruption stays within its bound.
LEMMA DisruptType ==
  ASSUME TypeOK, NEW kind, Disrupt(kind)
  PROVE  disrupted' \in 0 .. MaxDisruptions
BY BoundsAssumption DEF TypeOK, Disrupt

\* The janitor claims a pending entry.
LEMMA JanitorStep ==
  ASSUME IInv, NEW e \in Executors, NEW id \in MsgIds, Janitor(e, id)
  PROVE  IInv'
<1>1. disrupted' \in 0 .. MaxDisruptions
  BY DisruptType DEF IInv, Structure, TypeOK, Janitor, Reclaim, ReclaimLive,
                     ReclaimUncounted
<1>2. PICK retry \in {pel[id], 0} : ReclaimAs(e, id, retry)
  BY DEF Janitor, Reclaim, ReclaimLive, ReclaimUncounted
<1>3. pel[id] \in Nat /\ pel[id] > 0 /\ stream[id] # NoBody
  BY <1>2 DEF IInv, Structure, TypeOK, DeliveryCoverage, ReclaimAs
<1>4. retry \in Nat /\ pel[id] + 1 \in Nat \ {0} /\ pel' = [pel EXCEPT ![id] = pel[id] + 1]
  BY <1>2, <1>3 DEF ReclaimAs
<1> QED BY <1>1, <1>2, <1>3, <1>4, LoadStep DEF ReclaimAs

\* XACK and XDEL of an undecodable message, and their failures.
LEMMA DiscardStep ==
  ASSUME IInv, NEW e \in Executors, DiscardAck(e) \/ DiscardDel(e)
  PROVE  IInv'
<1> USE DEF IInv, Structure
<1>1. /\ msg[e] \in MsgIds /\ msg[e] <= cursor /\ job[e] \in Body
      /\ stream[msg[e]] # NoBody => stream[msg[e]].task = job[e].task
  BY DEF DiscardAck, DiscardDel, Holding
<1>2. CASE DiscardAck(e)
  <2>1. /\ pc[e] = "gate" /\ job[e].task \in Undecodable /\ pc' = [pc EXCEPT ![e] = "xdel"]
        /\ disrupted' \in 0 .. MaxDisruptions
        /\ UNCHANGED <<stream, lastId, groupStart, cursor, delayed, dlq, lock, cancelled,
                       msg, job, err, accepted, ends>>
    BY <1>2, DisruptType DEF DiscardAck, Goto, TypeOK
  <2>2. \/ pel' = [pel EXCEPT ![msg[e]] = 0] /\ unacked' = unacked
        \/ pel' = pel /\ unacked' = unacked \cup {msg[e]}
    BY <1>2 DEF DiscardAck
  <2>3. TypeOK'
    BY <1>1, <2>1, <2>2 DEF TypeOK, Stages
  <2>4. IdsInOrder' /\ Holding'
    BY <1>1, <2>1 DEF IdsInOrder, Holding, TypeOK
  <2>5. Discarding'
    <3> SUFFICES ASSUME NEW d \in Executors, pc'[d] = "xdel"
                 PROVE  /\ pel'[msg[d]] = 0 \/ msg[d] \in unacked'
                        /\ job[d].task \in Undecodable
      BY <2>1 DEF Discarding
    <3>1. CASE d = e
      BY <3>1, <1>1, <2>1, <2>2 DEF TypeOK
    <3>2. CASE d # e
      <4>1. pc[d] = "xdel" /\ msg[d] \in MsgIds
        BY <3>2, <2>1 DEF TypeOK, Holding
      <4> QED BY <4>1, <2>2 DEF Discarding, TypeOK
    <3> QED BY <3>1, <3>2
  <2>6. DeliveryCoverage'
    BY <1>1, <2>1, <2>2 DEF DeliveryCoverage, TypeOK
  <2>7. Conservation'
    BY <2>1 DEF Conservation, Held, InStream, InDelayed
  <2> QED BY <2>3, <2>4, <2>5, <2>6, <2>7
<1>3. CASE DiscardDel(e)
  <2>1. pel[msg[e]] = 0 \/ msg[e] \in unacked
    BY <1>3 DEF DiscardDel, Discarding
  <2>2. /\ disrupted' \in 0 .. MaxDisruptions
        /\ Finish(e) /\ pc[e] = "xdel"
        /\ UNCHANGED <<lastId, groupStart, cursor, pel, delayed, dlq, lock, cancelled,
                       accepted, unacked>>
    BY <1>3, DisruptType DEF DiscardDel, TypeOK
  <2>3. \/ stream' = [stream EXCEPT ![msg[e]] = NoBody] /\ ends' = EndsWith({job[e].task}, "undecodable")
        \/ UNCHANGED <<stream, ends>>
    BY <1>3 DEF DiscardDel
  <2>4. /\ ends' \in [Tasks -> SUBSET EndKinds]
        /\ \A u \in Tasks : ends[u] # {} => ends'[u] # {}
        /\ stream' # stream => ends'[job[e].task] # {}
    <3>1. "undecodable" \in EndKinds /\ job[e].task \in Tasks
      BY <1>1 DEF EndKinds, Body
    <3> QED BY <2>3, <3>1, EndsWithType, EndsWithGrows DEF TypeOK
  <2>5. TypeOK'
    BY <1>1, <2>2, <2>3, <2>4 DEF TypeOK, Finish, Goto, Stages, Errors
  <2>6. IdsInOrder'
    BY <1>1, <2>2, <2>3 DEF IdsInOrder, TypeOK
  <2>7. Holding'
    BY <1>1, <2>2, <2>3 DEF Holding, Finish, Goto, TypeOK
  <2>8. Discarding'
    BY <2>2 DEF Discarding, Finish, Goto, TypeOK
  <2>9. DeliveryCoverage'
    BY <1>1, <2>1, <2>2, <2>3 DEF DeliveryCoverage, TypeOK
  <2>10. Conservation'
    <3> SUFFICES ASSUME NEW u \in accepted
                 PROVE  InStream(u)' \/ Parked(u)'
      BY <2>2 DEF Conservation, Held, Parked
    <3>1. u \in Tasks
      BY DEF TypeOK
    <3>2. CASE Parked(u)
      BY <3>1, <3>2, <2>2, <2>4 DEF Parked, InDelayed
    <3>3. CASE InStream(u)
      <4>1. PICK id \in MsgIds : stream[id].task = u
        BY <3>3 DEF InStream
      <4>2. CASE stream' = stream
        BY <4>1, <4>2 DEF InStream
      <4>3. CASE stream' # stream /\ id = msg[e]
        <5>1. u = job[e].task
          BY <4>1, <4>3, <3>1, <1>1, QueueAssumption DEF NoBody
        <5> QED BY <5>1, <4>3, <2>4 DEF Parked
      <4>4. CASE stream' # stream /\ id # msg[e]
        BY <4>1, <4>4, <2>3, <1>1 DEF InStream, TypeOK
      <4> QED BY <4>2, <4>3, <4>4
    <3> QED BY <3>2, <3>3 DEF Conservation, Held, Parked
  <2> QED BY <2>5, <2>6, <2>7, <2>8, <2>9, <2>10
<1> QED BY <1>2, <1>3

\* The janitor takes the id of a deleted entry off the PEL.
LEMMA ReclaimDeletedStep ==
  ASSUME IInv, NEW id \in MsgIds, ReclaimDeleted(id)
  PROVE  IInv'
<1> USE DEF IInv, Structure, ReclaimDeleted, execVars, histVars
<1>1. TypeOK' /\ IdsInOrder' /\ Holding'
  BY DEF TypeOK, IdsInOrder, Holding
<1>2. Discarding'
  BY DEF Discarding, Holding, TypeOK
<1>3. DeliveryCoverage'
  BY DEF DeliveryCoverage, TypeOK
<1>4. Conservation'
  BY DEF Conservation, Held, InStream, InDelayed
<1> QED BY <1>1, <1>2, <1>3, <1>4

\* Every step of Process.
LEMMA ProcessStep ==
  ASSUME IInv, NEW e \in Executors, Process(e)
  PROVE  IInv'
<1>1. TypeOK /\ (pc[e] # "idle" => job[e] \in Body)
  BY DEF IInv, Structure, Holding
<1>2. CASE DiscardAck(e) \/ DiscardDel(e)
  BY <1>2, DiscardStep
<1>3. CASE RouteExceededMaxRetry(e) \/ MoveToDLQ(e)
  BY <1>3, DeadLetterStep DEF RouteExceededMaxRetry, MoveToDLQ, Decoded
<1>4. CASE DiscardIfCancelled(e) \/ CompleteTask(e)
  BY <1>4, CompleteStep DEF DiscardIfCancelled, CompleteTask, Decoded, EndKinds
<1>5. CASE Execute(e)
  <2>1. disrupted' \in 0 .. MaxDisruptions
    BY <1>1, <1>5, DisruptType DEF Execute, TypeOK
  <2> QED BY <1>1, <1>5, <2>1, LocalStep
          DEF Execute, Decoded, Goto, Stages, redisVars, TypeOK
<1>6. CASE ReleaseAtStart(e) \/ ReleaseOnError(e)
  <2>1. disrupted' \in 0 .. MaxDisruptions
    BY <1>1, <1>6, DisruptType DEF ReleaseAtStart, ReleaseOnError, TypeOK
  <2>2. lock' \in [Keys -> Tasks \cup {NoTask}]
    BY <1>1, <1>6, UnlockedType DEF ReleaseAtStart, ReleaseOnError, TypeOK
  <2> QED BY <1>1, <1>6, <2>1, <2>2, LocalStep
          DEF ReleaseAtStart, ReleaseOnError, Goto, Stages, TypeOK
<1>7. CASE Admit(e) \/ HandlerSucceeds(e)
  BY <1>1, <1>7, LocalStep
  DEF Admit, HandlerSucceeds, Goto, Stages, redisVars, histVars, TypeOK
<1>8. CASE DeferFails(e) \/ HandlerFails(e)
  <2>1. disrupted' \in 0 .. MaxDisruptions
    BY <1>1, <1>8, DisruptType DEF DeferFails, HandlerFails, histVars, TypeOK
  <2>2. PICK error \in Errors : Raise(e, error)
    BY <1>8 DEF DeferFails, HandlerFails, Errors
  <2>3. PICK stage \in {"unlock", "settle"} : pc' = [pc EXCEPT ![e] = stage]
    BY <2>2 DEF Raise, Goto
  <2>4. err' \in [Executors -> Errors]
    BY <1>1, <2>2 DEF Raise, TypeOK
  <2>5. /\ pc[e] \in {"limit", "run"}
        /\ lock' \in [Keys -> Tasks \cup {NoTask}]
        /\ UNCHANGED <<stream, lastId, groupStart, cursor, pel, delayed, dlq,
                       cancelled, accepted, unacked, ends>>
    BY <1>1, <1>8 DEF DeferFails, HandlerFails, redisVars, histVars, TypeOK
  <2>6. stage \in Stages \ {"idle", "xdel"}
    BY <2>3 DEF Stages
  <2> QED BY <2>1, <2>2, <2>3, <2>4, <2>5, <2>6, LocalStep DEF Raise
<1>9. CASE DeferRateLimited(e)
  <2>1. disrupted' \in 0 .. MaxDisruptions
    BY <1>1, <1>9, DisruptType DEF DeferRateLimited
  <2>2. err' \in [Executors -> Errors]
    BY <1>1, <1>9 DEF DeferRateLimited, Finish, Errors, TypeOK
  <2> QED BY <1>1, <1>9, <2>1, <2>2, RequeueStep
          DEF DeferRateLimited, Finish, Goto, Stages
<1>10. CASE DeferReplyLost(e)
  <2>1. disrupted' \in 0 .. MaxDisruptions
    BY <1>1, <1>10, DisruptType DEF DeferReplyLost
  <2>2. err' \in [Executors -> Errors]
    BY <1>1, <1>10 DEF DeferReplyLost, Raise, Errors, TypeOK
  <2>3. PICK stage \in {"unlock", "settle"} : pc' = [pc EXCEPT ![e] = stage]
    BY <1>10 DEF DeferReplyLost, Raise, Goto
  <2>4. stage \in Stages \ {"xdel"} /\ stage # "idle"
    BY <2>3 DEF Stages
  <2> QED BY <1>1, <1>10, <2>1, <2>2, <2>3, <2>4, RequeueStep
          DEF DeferReplyLost, Raise
<1>11. CASE ScheduleRetry(e)
  <2>1. err' \in [Executors -> Errors]
    BY <1>1, <1>11 DEF ScheduleRetry, Finish, Errors, TypeOK
  <2> DEFINE body == [job[e] EXCEPT !.retry = @ + 1]
  <2>2. body \in Body /\ body.task = job[e].task
    BY <1>1, <1>11 DEF ScheduleRetry, Body
  <2>3. disrupted' \in 0 .. MaxDisruptions
    BY <1>1, <1>11 DEF ScheduleRetry, TypeOK
  <2> HIDE DEF body
  <2>4. ZAddDroppingFarthest(body)
    BY <1>11 DEF ScheduleRetry, body
  <2> QED BY <1>11, <2>1, <2>2, <2>3, <2>4, RequeueStep
          DEF ScheduleRetry, Finish, Goto, Stages
<1> QED BY <1>2, <1>3, <1>4, <1>5, <1>6, <1>7, <1>8, <1>9, <1>10, <1>11
        DEF Process

\* A crash forgets what the executor holds and nothing else.
LEMMA AbandonStep ==
  ASSUME IInv, NEW e \in Executors, Abandon(e)
  PROVE  IInv'
<1> USE DEF IInv, Structure, Abandon, Finish, Goto, redisVars
<1>1. disrupted' \in 0 .. MaxDisruptions
  BY DisruptType
<1>2. TypeOK'
  BY <1>1 DEF TypeOK, Stages, Errors
<1>3. IdsInOrder' /\ DeliveryCoverage'
  BY DEF IdsInOrder, DeliveryCoverage
<1>4. Holding' /\ Discarding'
  BY DEF Holding, Discarding, TypeOK
<1>5. Conservation'
  BY DEF Conservation, Held, InStream, InDelayed
<1> QED BY <1>2, <1>3, <1>4, <1>5

\* The end of a lock's TTL touches no message.
LEMMA LockExpiresStep ==
  ASSUME IInv, NEW k \in Keys, LockExpires(k)
  PROVE  IInv'
<1> USE DEF IInv, Structure, LockExpires, execVars
<1>1. disrupted' \in 0 .. MaxDisruptions
  BY DisruptType
<1>2. TypeOK'
  BY <1>1 DEF TypeOK
<1>3. IdsInOrder' /\ Holding' /\ Discarding' /\ DeliveryCoverage' /\ Conservation'
  BY DEF IdsInOrder, Holding, Discarding, DeliveryCoverage, Conservation,
         Held, InStream, InDelayed
<1> QED BY <1>2, <1>3

-----------------------------------------------------------------------------
(* The invariant and the theorems. *)

\* The empty queue satisfies the invariant.
LEMMA InitIInv == Init => IInv
<1> SUFFICES ASSUME Init PROVE IInv
  OBVIOUS
<1>1. TypeOK
  BY BoundsAssumption DEF Init, TypeOK, Stages, Errors, NoGroup, MsgIds
<1>2. IdsInOrder /\ Holding /\ Discarding /\ DeliveryCoverage /\ Conservation
  BY DEF Init, IdsInOrder, Holding, Discarding, DeliveryCoverage, Conservation,
         NoGroup
<1> QED BY <1>1, <1>2 DEF IInv, Structure

\* Every step of a client, a worker, the scheduler, the janitor or the
\* environment preserves the invariant.
LEMMA NextIInv == IInv /\ [Next]_vars => IInv'
<1> SUFFICES ASSUME IInv, [Next]_vars PROVE IInv'
  OBVIOUS
<1>1. CASE Next
  BY <1>1, ClientStep, StartGroupStep, PromoteStep, DeliverStep, ProcessStep,
     AbandonStep, JanitorStep, ReclaimDeletedStep, LockExpiresStep DEF Next
<1>2. CASE UNCHANGED vars
  BY <1>2 DEF vars, redisVars, execVars, histVars, IInv, Structure, TypeOK,
              IdsInOrder, Holding, Discarding, DeliveryCoverage, Conservation,
              Held, InStream, InDelayed
<1> QED BY <1>1, <1>2

\* The invariant holds in every state of every behaviour.
LEMMA Invariance == Spec => []IInv
<1>1. Init => IInv
  BY InitIInv
<1>2. IInv /\ [Next]_vars => IInv'
  BY NextIInv
<1> QED BY <1>1, <1>2, PTL DEF Spec

\* Every variable keeps its type, whatever the constants and however the
\* clients, executors, scheduler, janitor and disruptions interleave.
THEOREM TypeCorrect == Spec => []TypeOK
<1>1. IInv => TypeOK
  BY DEF IInv, Structure
<1> QED BY <1>1, Invariance, PTL

\* No accepted task is lost by any settling script, promotion, overflow
\* policy, crash or stale executor.
THEOREM NoTaskLost == Spec => []Conservation
<1>1. IInv => Conservation
  BY DEF IInv
<1> QED BY <1>1, Invariance, PTL

\* A message in the stream is ahead of the cursor or pending, except where
\* the group was created behind it or it was acknowledged as undecodable.
THEOREM NoMessageStranded == Spec => []DeliveryCoverage
<1>1. IInv => DeliveryCoverage
  BY DEF IInv, Structure
<1> QED BY <1>1, Invariance, PTL

-----------------------------------------------------------------------------
(* Limits. *)

\* What is taken out of a finite set is counted off.
LEMMA Difference ==
  ASSUME NEW S, IsFiniteSet(S), NEW T \in SUBSET S
  PROVE  /\ IsFiniteSet(S \ T)
         /\ Cardinality(S \ T) = Cardinality(S) - Cardinality(T)
         /\ Cardinality(S) \in Nat /\ Cardinality(T) \in Nat /\ Cardinality(S \ T) \in Nat
<1>1. IsFiniteSet(T) /\ IsFiniteSet(S \ T)
  BY FS_Subset
<1>2. /\ Cardinality(S) \in Nat /\ Cardinality(T) \in Nat /\ Cardinality(S \ T) \in Nat
  BY <1>1, FS_CardinalityType
<1>3. T \cup (S \ T) = S /\ T \cap (S \ T) = {}
  OBVIOUS
<1>4. Cardinality(T \cup (S \ T)) = Cardinality(T) + Cardinality(S \ T) - Cardinality(T \cap (S \ T))
  BY <1>1, FS_Union
<1>5. Cardinality(S) = Cardinality(T) + Cardinality(S \ T) - 0
  BY <1>3, <1>4, FS_EmptySet
<1> QED BY <1>1, <1>2, <1>5

\* The delayed ZSET is finite; that is all CapacityBounds needs besides itself.
Bounded == IsFiniteSet(delayed) /\ CapacityBounds

Occupied == {id \in MsgIds : stream[id] # NoBody}

\* An overflow policy that drops before it adds ends at the limit at most.
LEMMA DelayedBounded ==
  ASSUME Bounded, NEW body, ZAddDroppingFarthest(body)
  PROVE  IsFiniteSet(delayed') /\ (DelayedMax > 0 => Cardinality(delayed') <= DelayedMax)
<1>1. PICK drop \in SUBSET delayed :
        Cardinality(drop) = DelayedSurplus /\ delayed' = (delayed \ drop) \cup {body}
  BY DEF ZAddDroppingFarthest
<1> DEFINE rest == delayed \ drop
<1>2. /\ IsFiniteSet(rest) /\ Cardinality(rest) = Cardinality(delayed) - DelayedSurplus
      /\ Cardinality(delayed) \in Nat /\ Cardinality(rest) \in Nat
  BY <1>1, Difference DEF Bounded
<1>3. /\ IsFiniteSet(rest \cup {body})
      /\ Cardinality(rest \cup {body}) <= Cardinality(rest) + 1
  BY <1>2, FS_AddElement
<1>4. DelayedMax > 0 => Cardinality(rest) + 1 <= DelayedMax
  BY <1>2, BoundsAssumption DEF DelayedSurplus, Bounded, CapacityBounds
<1>5. Cardinality(rest \cup {body}) \in Nat
  BY <1>3, FS_CardinalityType
<1> HIDE DEF rest
<1>6. delayed' = rest \cup {body}
  BY <1>1 DEF rest
<1> QED BY <1>2, <1>3, <1>4, <1>5, <1>6, BoundsAssumption

\* Eviction after the addition ends at the limit at most.
LEMMA DLQBounded ==
  ASSUME TypeOK, NEW t \in Tasks, ZAddDLQ(t)
  PROVE  DLQMax > 0 => Cardinality(dlq') <= DLQMax
<1>1. PICK evict \in SUBSET (dlq \cup {t}) :
        Cardinality(evict) = DLQSurplus(dlq \cup {t}) /\ dlq' = (dlq \cup {t}) \ evict
  BY DEF ZAddDLQ
<1> DEFINE all == dlq \cup {t}
<1>2. all \in SUBSET Tasks
  BY DEF TypeOK
<1>3. IsFiniteSet(all)
  BY <1>2, FS_Subset, QueueAssumption
<1>4. /\ Cardinality(all \ evict) = Cardinality(all) - DLQSurplus(all)
      /\ Cardinality(all) \in Nat
  BY <1>1, <1>3, Difference
<1> HIDE DEF all
<1>5. DLQMax > 0 => Cardinality(all) - DLQSurplus(all) <= DLQMax
  BY <1>4, BoundsAssumption DEF DLQSurplus
<1> QED BY <1>1, <1>4, <1>5 DEF all

\* Entries that leave the stream free room.
LEMMA StreamShrinks ==
  ASSUME CapacityBounds, \A id \in MsgIds : stream'[id] # NoBody => stream[id] # NoBody
  PROVE  HardLimit > 0 => XLen' <= HardLimit
<1>1. IsFiniteSet(MsgIds)
  BY FS_Interval, BoundsAssumption DEF MsgIds
<1>2. Occupied \in SUBSET MsgIds /\ Occupied' \in SUBSET Occupied
  BY DEF Occupied
<1>3. IsFiniteSet(Occupied)
  BY <1>1, <1>2, FS_Subset
<1>4. Cardinality(Occupied') <= Cardinality(Occupied)
  BY <1>2, <1>3, FS_Subset
<1>5. Cardinality(Occupied) \in Nat /\ Cardinality(Occupied') \in Nat
  BY <1>2, <1>3, FS_Subset, FS_CardinalityType
<1>6. XLen = Cardinality(Occupied) /\ XLen' = Cardinality(Occupied')
  BY DEF XLen, Occupied
<1> QED BY <1>4, <1>5, <1>6, BoundsAssumption DEF CapacityBounds

\* An addition below the limit does not pass it.
LEMMA StreamGrows ==
  ASSUME TypeOK, NEW body, XAdd(body), BelowHardLimit
  PROVE  HardLimit > 0 => XLen' <= HardLimit
<1>1. IsFiniteSet(MsgIds)
  BY FS_Interval, BoundsAssumption DEF MsgIds
<1>2. Occupied \in SUBSET MsgIds /\ Occupied' \in SUBSET (Occupied \cup {lastId + 1})
  BY DEF Occupied, XAdd, TypeOK
<1>3. IsFiniteSet(Occupied)
  BY <1>1, <1>2, FS_Subset
<1>4. /\ IsFiniteSet(Occupied \cup {lastId + 1})
      /\ Cardinality(Occupied \cup {lastId + 1}) <= Cardinality(Occupied) + 1
      /\ Cardinality(Occupied) \in Nat
  BY <1>3, FS_AddElement, FS_CardinalityType
<1>5. /\ IsFiniteSet(Occupied') /\ Cardinality(Occupied') <= Cardinality(Occupied \cup {lastId + 1})
  BY <1>2, <1>4, FS_Subset
<1>6. Cardinality(Occupied') \in Nat /\ Cardinality(Occupied \cup {lastId + 1}) \in Nat
  BY <1>4, <1>5, FS_CardinalityType
<1>7. XLen = Cardinality(Occupied) /\ XLen' = Cardinality(Occupied')
  BY DEF XLen, Occupied
<1> QED BY <1>4, <1>5, <1>6, <1>7, BoundsAssumption DEF BelowHardLimit

\* No step adds to one of the three keys but through the guarded ways.
LEMMA GuardedAdditions ==
  ASSUME IInv, Next
  PROVE  /\ \/ \A id \in MsgIds : stream'[id] # NoBody => stream[id] # NoBody
            \/ BelowHardLimit /\ \E body \in Body : XAdd(body)
         /\ \/ delayed' \subseteq delayed
            \/ \E body \in Body : ZAddDroppingFarthest(body)
         /\ \/ dlq' = dlq
            \/ \E t \in Tasks : ZAddDLQ(t)
<1>1. TypeOK /\ \A e \in Executors : pc[e] # "idle" => msg[e] \in MsgIds /\ job[e] \in Body
  BY DEF IInv, Structure, Holding
<1>2. ASSUME NEW t \in Tasks, Client(t)
      PROVE  /\ stream' = stream \/ (BelowHardLimit /\ \E body \in Body : XAdd(body))
             /\ delayed' = delayed \/ \E body \in Body : ZAddDroppingFarthest(body)
             /\ dlq' = dlq
  <2>1. NewBody(t) \in Body
    BY DEF NewBody, Body
  <2> QED BY <1>2, <2>1 DEF Client, Enqueue, EnqueueAt, CancelTask
<1>3. CASE StartGroup
  BY <1>3 DEF StartGroup
<1>4. ASSUME NEW body \in delayed, Promote(body)
      PROVE  (BelowHardLimit /\ XAdd(body)) /\ delayed' \subseteq delayed /\ dlq' = dlq /\ body \in Body
  BY <1>1, <1>4 DEF Promote, TypeOK
<1>5. ASSUME NEW e \in Executors, Deliver(e) \/ Abandon(e) \/ \E id \in MsgIds : Janitor(e, id)
      PROVE  UNCHANGED <<stream, delayed, dlq>>
  BY <1>5 DEF Deliver, Abandon, Janitor, Reclaim, ReclaimLive, ReclaimUncounted, ReclaimAs, redisVars
<1>6. ASSUME NEW e \in Executors, Process(e)
      PROVE  /\ \A id \in MsgIds : stream'[id] # NoBody => stream[id] # NoBody
             /\ delayed' = delayed \/ \E body \in Body : ZAddDroppingFarthest(body)
             /\ dlq' = dlq \/ \E t \in Tasks : ZAddDLQ(t)
  <2>1. stream' = stream \/ stream' = [stream EXCEPT ![msg[e]] = NoBody]
    BY <1>6 DEF Process, DiscardAck, DiscardDel, RouteExceededMaxRetry, DiscardIfCancelled, Execute,
      ReleaseAtStart, Admit, DeferRateLimited, DeferFails, DeferReplyLost, HandlerSucceeds,
      HandlerFails, ReleaseOnError, ScheduleRetry, MoveToDLQ, CompleteTask, DeadLetter, Complete,
      AckAndDel, redisVars
  <2>2. \A id \in MsgIds : stream'[id] # NoBody => stream[id] # NoBody
    BY <1>1, <2>1 DEF TypeOK
  <2>3. pc[e] # "idle"
    BY <1>6 DEF Process, DiscardAck, DiscardDel, RouteExceededMaxRetry, DiscardIfCancelled, Execute,
      ReleaseAtStart, Admit, DeferRateLimited, DeferFails, DeferReplyLost, HandlerSucceeds,
      HandlerFails, ReleaseOnError, ScheduleRetry, MoveToDLQ, CompleteTask, Decoded
  <2>4. job[e] \in Body /\ [job[e] EXCEPT !.retry = @ + 1] \in Body /\ job[e].task \in Tasks
    BY <1>1, <2>3 DEF Body
  <2>5. delayed' = delayed \/ \E body \in Body : ZAddDroppingFarthest(body)
    BY <1>6, <2>4 DEF Process, DiscardAck, DiscardDel, RouteExceededMaxRetry, DiscardIfCancelled,
      Execute, ReleaseAtStart, Admit, DeferRateLimited, DeferFails, DeferReplyLost, HandlerSucceeds,
      HandlerFails, ReleaseOnError, ScheduleRetry, MoveToDLQ, CompleteTask, DeadLetter, Complete,
      redisVars
  <2>6. dlq' = dlq \/ \E t \in Tasks : ZAddDLQ(t)
    BY <1>6, <2>4 DEF Process, DiscardAck, DiscardDel, RouteExceededMaxRetry, DiscardIfCancelled,
      Execute, ReleaseAtStart, Admit, DeferRateLimited, DeferFails, DeferReplyLost, HandlerSucceeds,
      HandlerFails, ReleaseOnError, ScheduleRetry, MoveToDLQ, CompleteTask, DeadLetter, Complete,
      redisVars
  <2> QED BY <2>2, <2>5, <2>6
<1>7. ASSUME (\E k \in Keys : LockExpires(k)) \/ \E id \in MsgIds : ReclaimDeleted(id)
      PROVE  UNCHANGED <<stream, delayed, dlq>>
  BY <1>7 DEF LockExpires, ReclaimDeleted
<1> QED BY <1>2, <1>3, <1>4, <1>5, <1>6, <1>7 DEF Next

\* Every path that adds to the stream, the delayed ZSET or the DLQ respects the
\* configured limit, whatever executors, clients and the scheduler add at once.
THEOREM LimitsHold == Spec => []CapacityBounds
<1>1. Init => Bounded
  <2> SUFFICES ASSUME Init PROVE Bounded
    OBVIOUS
  <2>1. {id \in MsgIds : stream[id] # NoBody} = {} /\ delayed = {} /\ dlq = {}
    BY DEF Init
  <2> QED BY <2>1, FS_EmptySet, BoundsAssumption DEF Bounded, CapacityBounds, XLen
<1>2. IInv /\ Bounded /\ [Next]_vars => Bounded'
  <2> SUFFICES ASSUME IInv, Bounded, Next PROVE Bounded'
    BY DEF Bounded, CapacityBounds, XLen, vars, redisVars
  <2>0. TypeOK
    BY DEF IInv, Structure
  <2>1. HardLimit > 0 => XLen' <= HardLimit
    BY <2>0, GuardedAdditions, StreamShrinks, StreamGrows DEF Bounded
  <2>2. IsFiniteSet(delayed') /\ (DelayedMax > 0 => Cardinality(delayed') <= DelayedMax)
    <3>1. CASE delayed' \subseteq delayed
      <4>1. /\ IsFiniteSet(delayed') /\ Cardinality(delayed') <= Cardinality(delayed)
            /\ Cardinality(delayed') \in Nat /\ Cardinality(delayed) \in Nat
        BY <3>1, FS_Subset, FS_CardinalityType DEF Bounded
      <4> QED BY <4>1, BoundsAssumption DEF Bounded, CapacityBounds
    <3>2. CASE \E body \in Body : ZAddDroppingFarthest(body)
      BY <3>2, DelayedBounded
    <3> QED BY <3>1, <3>2, GuardedAdditions
  <2>3. DLQMax > 0 => Cardinality(dlq') <= DLQMax
    BY <2>0, GuardedAdditions, DLQBounded DEF Bounded, CapacityBounds
  <2> QED BY <2>1, <2>2, <2>3 DEF Bounded, CapacityBounds
<1>3. Bounded => CapacityBounds
  BY DEF Bounded
<1> QED BY <1>1, <1>2, <1>3, Invariance, PTL DEF Spec

-----------------------------------------------------------------------------
(* Poison pills. *)

\* Nobody is robbed of a message and every delivery is counted.
Counted == {"overlap", "miscount"} \cap Disruptions = {}

\* At the gate a delivery after the first is charged to the task's retries; past
\* the gate that charge has been compared with MaxRetry.
Charged ==
  \A e \in Executors :
    /\ pc[e] = "gate" => pel[msg[e]] <= 1 \/ pel[msg[e]] <= job[e].retry + 1
    /\ pc[e] \in {"start", "limit", "run"} => pel[msg[e]] <= MaxRetry + 1

\* An executor's own step counts no delivery, and goes past the gate only with a
\* charge within MaxRetry.
LEMMA ProcessCharged ==
  ASSUME IInv, Charged, NEW e \in Executors, Process(e)
  PROVE  Charged'
<1> USE DEF IInv, Structure
<1>1. TypeOK /\ \A d \in Executors : pc[d] # "idle" => msg[d] \in MsgIds /\ job[d] \in Body
  BY DEF Holding
<1>2. /\ \A d \in Executors \ {e} : pc'[d] = pc[d] /\ msg'[d] = msg[d] /\ job'[d] = job[d]
      /\ \A id \in MsgIds : pel'[id] = pel[id] \/ pel'[id] = 0
      /\ \/ pc'[e] \notin {"gate", "start", "limit", "run"}
         \/ /\ pc[e] = "gate" /\ job[e].retry <= MaxRetry /\ pc'[e] # "gate"
            /\ msg'[e] = msg[e] /\ pel' = pel
         \/ /\ pc[e] \in {"start", "limit"} /\ pc'[e] \in {"limit", "run"}
            /\ msg'[e] = msg[e] /\ pel' = pel
  <2>1. CASE DiscardAck(e) \/ DiscardDel(e) \/ RouteExceededMaxRetry(e) \/ DiscardIfCancelled(e)
    BY <1>1, <2>1 DEF DiscardAck, DiscardDel, RouteExceededMaxRetry, DiscardIfCancelled, DeadLetter,
      Complete, AckAndDel, Finish, Goto, Decoded, TypeOK
  <2>2. CASE Execute(e) \/ ReleaseAtStart(e) \/ Admit(e)
    BY <1>1, <2>2 DEF Execute, ReleaseAtStart, Admit, Goto, Decoded, redisVars, TypeOK
  <2>3. CASE DeferRateLimited(e) \/ ScheduleRetry(e) \/ MoveToDLQ(e) \/ CompleteTask(e)
    BY <1>1, <2>3 DEF DeferRateLimited, ScheduleRetry, MoveToDLQ, CompleteTask, DeadLetter, Complete,
      AckAndDel, Finish, Goto, TypeOK
  <2>4. CASE DeferFails(e) \/ DeferReplyLost(e) \/ HandlerSucceeds(e) \/ HandlerFails(e) \/ ReleaseOnError(e)
    BY <1>1, <2>4 DEF DeferFails, DeferReplyLost, HandlerSucceeds, HandlerFails, ReleaseOnError, Raise,
      AckAndDel, Goto, redisVars, TypeOK
  <2> QED BY <2>1, <2>2, <2>3, <2>4, <1>1 DEF Process
<1>3. ASSUME NEW d \in Executors \ {e}
      PROVE  /\ pc'[d] = "gate" => pel'[msg'[d]] <= 1 \/ pel'[msg'[d]] <= job'[d].retry + 1
             /\ pc'[d] \in {"start", "limit", "run"} => pel'[msg'[d]] <= MaxRetry + 1
  <2>1. pc[d] # "idle" => /\ msg[d] \in MsgIds /\ job[d].retry \in Nat
                          /\ pel'[msg[d]] = pel[msg[d]] \/ pel'[msg[d]] = 0
    BY <1>1, <1>2 DEF Body
  <2> QED BY <2>1, <1>2, BoundsAssumption DEF Charged
<1>4. /\ pc'[e] = "gate" => pel'[msg'[e]] <= 1 \/ pel'[msg'[e]] <= job'[e].retry + 1
      /\ pc'[e] \in {"start", "limit", "run"} => pel'[msg'[e]] <= MaxRetry + 1
  <2>1. pc[e] = "gate" => pel[msg[e]] \in Nat /\ job[e].retry \in Nat
    BY <1>1 DEF Body, TypeOK
  <2> QED BY <2>1, <1>2, BoundsAssumption DEF Charged
<1> QED BY <1>3, <1>4 DEF Charged

\* A delivery: the janitor takes only what nobody holds and charges all
\* deliveries before it, XREADGROUP hands out what nobody has had.
LEMMA DeliveryCharged ==
  ASSUME IInv, Charged, Counted, NEW e \in Executors,
         Deliver(e) \/ \E id \in MsgIds : Janitor(e, id)
  PROVE  Charged'
<1> USE DEF IInv, Structure
<1>1. TypeOK /\ \A d \in Executors : pc[d] # "idle" => msg[d] \in MsgIds /\ msg[d] <= cursor
  BY DEF Holding
<1>2. PICK id \in MsgIds, retry \in Nat :
        /\ Load(e, id, retry)
        /\ \A d \in Executors : ~Holds(d, id)
        /\ \/ pel' = [pel EXCEPT ![id] = 1]
           \/ pel' = [pel EXCEPT ![id] = pel[id] + 1] /\ retry = pel[id]
  <2>1. CASE Deliver(e)
    <3>1. PICK id \in Undelivered : pel' = [pel EXCEPT ![id] = 1] /\ Load(e, id, stream[id].retry)
      BY <2>1 DEF Deliver
    <3>2. id \in MsgIds /\ stream[id].retry \in Nat
      BY <3>1, <1>1 DEF Undelivered, TypeOK, Body
    <3>3. \A d \in Executors : ~Holds(d, id)
      BY <3>1, <1>1 DEF Undelivered, Holds, TypeOK, MsgIds
    <3> QED BY <3>1, <3>2, <3>3
  <2>2. CASE \E id \in MsgIds : Janitor(e, id)
    <3>1. PICK id \in MsgIds : Janitor(e, id)
      BY <2>2
    <3>2. Reclaim(e, id)
      BY <3>1 DEF Janitor, ReclaimLive, ReclaimUncounted, Disrupt, Counted
    <3>3. pel[id] \in Nat
      BY <1>1 DEF TypeOK
    <3> QED BY <3>2, <3>3 DEF Reclaim, ReclaimAs
  <2> QED BY <2>1, <2>2
<1>3. /\ pc' = [pc EXCEPT ![e] = "gate"] /\ msg' = [msg EXCEPT ![e] = id]
      /\ job' = [job EXCEPT ![e] = [task |-> stream[id].task, retry |-> retry]]
  BY <1>2 DEF Load
<1>4. ASSUME NEW d \in Executors \ {e}, pc[d] # "idle"
      PROVE  pel'[msg'[d]] = pel[msg[d]] /\ pc'[d] = pc[d] /\ job'[d] = job[d]
  BY <1>1, <1>2, <1>3, <1>4 DEF Holds, TypeOK
<1>5. pc'[e] = "gate" /\ (pel'[msg'[e]] <= 1 \/ pel'[msg'[e]] <= job'[e].retry + 1)
  BY <1>1, <1>2, <1>3 DEF TypeOK
<1>6. \A d \in Executors \ {e} : pc[d] = "idle" => pc'[d] = "idle"
  BY <1>1, <1>3 DEF TypeOK
<1> QED BY <1>4, <1>5, <1>6 DEF Charged

\* A message is never handed to the handler on a delivery beyond the MaxRetry +
\* 1st, however often the workers that run it crash.
THEOREM PoisonPillsStop == Spec => []PoisonPillCutOff
<1>1. Init => (Counted => Charged)
  BY DEF Init, Charged
<1>2. IInv /\ (Counted => Charged) /\ [Next]_vars => (Counted => Charged)'
  <2> SUFFICES ASSUME IInv, Counted, Charged, [Next]_vars PROVE Charged'
    BY DEF Counted
  <2>1. ASSUME UNCHANGED <<pel, pc, msg, job>> PROVE Charged'
    BY <2>1 DEF Charged
  <2>2. CASE UNCHANGED vars
    BY <2>1, <2>2 DEF vars, redisVars, execVars
  <2>3. ASSUME \/ \E t \in Tasks : Client(t)
               \/ StartGroup
               \/ \E body \in delayed : Promote(body)
               \/ \E k \in Keys : LockExpires(k)
        PROVE  Charged'
    BY <2>1, <2>3 DEF Client, Enqueue, EnqueueAt, CancelTask, StartGroup, Promote, LockExpires, execVars
  <2>4. ASSUME NEW e \in Executors, Abandon(e) PROVE Charged'
    <3>1. pel' = pel /\ pc' = [pc EXCEPT ![e] = "idle"] /\ TypeOK
          /\ \A d \in Executors \ {e} : msg'[d] = msg[d] /\ job'[d] = job[d]
      BY <2>4 DEF Abandon, Finish, Goto, redisVars, IInv, Structure, TypeOK
    <3> QED BY <3>1 DEF Charged, TypeOK
  <2>5. ASSUME NEW id \in MsgIds, ReclaimDeleted(id) PROVE Charged'
    <3>1. /\ UNCHANGED <<pc, msg, job>> /\ TypeOK /\ pel' = [pel EXCEPT ![id] = 0]
          /\ \A d \in Executors : pc[d] # "idle" => msg[d] \in MsgIds /\ job[d] \in Body
      BY <2>5 DEF ReclaimDeleted, execVars, IInv, Structure, Holding
    <3>2. \A d \in Executors : pc[d] # "idle" => pel'[msg[d]] = pel[msg[d]] \/ pel'[msg[d]] = 0
      BY <3>1 DEF TypeOK
    <3>3. \A d \in Executors : pc[d] # "idle" => job[d].retry \in Nat
      BY <3>1 DEF Body
    <3> QED BY <3>1, <3>2, <3>3, BoundsAssumption DEF Charged
  <2> QED BY <2>2, <2>3, <2>4, <2>5, ProcessCharged, DeliveryCharged DEF Next
<1>3. (Counted => Charged) => PoisonPillCutOff
  BY DEF Counted, Charged, PoisonPillCutOff
<1> QED BY <1>1, <1>2, <1>3, Invariance, PTL DEF Spec

-----------------------------------------------------------------------------
(* Exclusion: what Exclusive buys. *)

\* No two executors have the same message.
Alone ==
  \A d, e \in Executors : pc[d] # "idle" /\ pc[e] # "idle" /\ msg[d] = msg[e] => d = e

\* Who has a message has not settled it: its entry is in the stream.
Entry == \A e \in Executors : pc[e] # "idle" => stream[msg[e]] # NoBody

\* What the gates and the scopes say about the stages behind them.
PastGate ==
  \A e \in Executors :
    /\ pc[e] \notin {"idle", "gate", "xdel"} => job[e].task \notin Undecodable
    /\ pc[e] = "start" => HasScope(job[e].task, "UntilStart")
    /\ pc[e] = "unlock" => HasScope(job[e].task, "UntilSuccess")

\* OnePlace; and whatever is somewhere was accepted.
OneStreamPlace ==
  \A i, j \in MsgIds : stream[i] # NoBody /\ stream[i].task = stream[j].task => i = j

OneDelayedPlace ==
  /\ \A a, b \in delayed : a.task = b.task => a = b
  /\ \A i \in MsgIds, b \in delayed : stream[i].task # b.task

OneStatus ==
  \A t \in Tasks :
    /\ t \in dlq => ~Held(t)
    /\ ends[t] # {} => t \notin dlq /\ ~Held(t)
    /\ Held(t) \/ t \in dlq \/ ends[t] # {} => t \in accepted

Places == OneStreamPlace /\ OneDelayedPlace /\ OneStatus

Grip == Alone /\ Entry /\ PastGate

\* How a step may change the status of the tasks.
Moved ==
  \A t \in Tasks :
    \/ Status(t)' = Status(t)
    \/ <<Status(t), Status(t)'>> \in Contract!Moves

\* The status by where the task is, before and after a step.
LEMMA StatusCases ==
  ASSUME NEW t \in Tasks
  PROVE  /\ Held(t) => Status(t) = "queued"
         /\ ~Held(t) /\ t \in dlq => Status(t) = "dead"
         /\ ~Held(t) /\ t \notin dlq /\ ends[t] # {} => Status(t) = "ended"
         /\ ~Held(t) /\ t \notin dlq /\ ends[t] = {} /\ t \in accepted => Status(t) = "lost"
         /\ ~Held(t) /\ t \notin dlq /\ ends[t] = {} /\ t \notin accepted => Status(t) = "new"
         /\ Held(t)' => Status(t)' = "queued"
         /\ ~Held(t)' /\ t \in dlq' => Status(t)' = "dead"
         /\ ~Held(t)' /\ t \notin dlq' /\ ends'[t] # {} => Status(t)' = "ended"
         /\ ~Held(t)' /\ t \notin dlq' /\ ends'[t] = {} /\ t \in accepted' => Status(t)' = "lost"
         /\ ~Held(t)' /\ t \notin dlq' /\ ends'[t] = {} /\ t \notin accepted' => Status(t)' = "new"
BY DEF Status

\* A task that is where it was has the status it had.
LEMMA StatusKept ==
  ASSUME NEW t \in Tasks, Held(t)' <=> Held(t), t \in dlq' <=> t \in dlq,
         ends'[t] = {} <=> ends[t] = {}, t \in accepted' <=> t \in accepted
  PROVE  Status(t)' = Status(t)
BY StatusCases

\* One entry leaves the stream: its task leaves it, and no other does.
LEMMA EntryLeaves ==
  ASSUME TypeOK, Places, NEW id \in MsgIds, stream[id] # NoBody,
         stream' = [stream EXCEPT ![id] = NoBody]
  PROVE  /\ stream[id].task \in Tasks
         /\ InStream(stream[id].task)
         /\ \A u \in Tasks : InStream(u)' <=> InStream(u) /\ u # stream[id].task
         /\ ~InDelayed(stream[id].task)
         /\ OneStreamPlace'
<1>1. stream[id] \in Body
  BY DEF TypeOK
<1>2. stream[id].task \in Tasks
  BY <1>1 DEF Body
<1>3. \A i \in MsgIds : stream'[i] = IF i = id THEN NoBody ELSE stream[i]
  BY DEF TypeOK
<1>4. \A u \in Tasks : InStream(u)' <=> InStream(u) /\ u # stream[id].task
  <2> TAKE u \in Tasks
  <2>1. u # NoTask
    BY QueueAssumption
  <2>2. ASSUME InStream(u)' PROVE InStream(u) /\ u # stream[id].task
    <3>1. PICK i \in MsgIds : stream'[i].task = u
      BY <2>2 DEF InStream
    <3>2. i # id /\ stream[i].task = u
      BY <3>1, <2>1, <1>3 DEF NoBody
    <3> QED BY <3>2 DEF InStream, Places, OneStreamPlace
  <2>3. ASSUME InStream(u), u # stream[id].task PROVE InStream(u)'
    BY <2>3, <1>3 DEF InStream
  <2> QED BY <2>2, <2>3
<1>5. ~InDelayed(stream[id].task)
  BY DEF Places, OneDelayedPlace, InDelayed
<1>6. OneStreamPlace'
  <2> SUFFICES ASSUME NEW i \in MsgIds, NEW j \in MsgIds,
                      stream'[i] # NoBody, stream'[i].task = stream'[j].task
               PROVE  i = j
    BY DEF OneStreamPlace
  <2>1. i # id /\ stream'[i] = stream[i] /\ stream[i] \in Body
    BY <1>3 DEF TypeOK
  <2>2. stream[i].task \in Tasks
    BY <2>1 DEF Body
  <2>3. j # id
    BY <2>1, <2>2, <1>3, QueueAssumption DEF NoBody
  <2> QED BY <2>1, <2>3, <1>3 DEF Places, OneStreamPlace
<1> QED BY <1>2, <1>4, <1>5, <1>6 DEF InStream

\* The task of an entry goes to the delayed ZSET, which may drop others.
LEMMA RequeueEffect ==
  ASSUME TypeOK, Places, NEW id \in MsgIds, stream[id] # NoBody,
         NEW body \in Body, body.task = stream[id].task,
         stream' = [stream EXCEPT ![id] = NoBody], ZAddDroppingFarthest(body),
         UNCHANGED <<dlq, accepted>>
  PROVE  Places' /\ Moved /\ \A u \in Tasks : Held(u)' => Held(u)
<1> DEFINE t == stream[id].task
<1>1. /\ t \in Tasks /\ InStream(t) /\ ~InDelayed(t) /\ OneStreamPlace'
      /\ \A u \in Tasks : InStream(u)' <=> InStream(u) /\ u # t
  BY EntryLeaves
<1>2. PICK drop \in SUBSET delayed :
        /\ delayed' = (delayed \ drop) \cup {body}
        /\ ends' = EndsWith({m.task : m \in drop}, "dropped")
  BY DEF ZAddDroppingFarthest
<1> DEFINE D == {m.task : m \in drop}
<1>3. \A u \in Tasks : ends'[u] = IF u \in D THEN ends[u] \cup {"dropped"} ELSE ends[u]
  BY <1>2 DEF EndsWith
<1>4. t \notin D /\ \A u \in D : InDelayed(u) /\ ~InStream(u)
  BY <1>1, <1>2 DEF InDelayed, InStream, Places, OneDelayedPlace
<1>5. \A u \in Tasks : InDelayed(u)' <=> (InDelayed(u) /\ u \notin D) \/ u = t
  BY <1>2 DEF InDelayed, Places, OneDelayedPlace
<1>6. OneDelayedPlace'
  <2>1. \A a, b \in delayed' : a.task = b.task => a = b
    BY <1>1, <1>2 DEF Places, OneDelayedPlace, InDelayed
  <2>2. \A i \in MsgIds, b \in delayed' : stream'[i].task # b.task
    <3> TAKE i \in MsgIds, b \in delayed'
    <3>1. b.task \in Tasks
      BY <1>2 DEF TypeOK, Body
    <3>2. CASE b = body
      BY <1>1, <3>1, <3>2 DEF InStream
    <3>3. CASE b \in delayed
      BY <1>1, <3>1, <3>3 DEF InStream, Places, OneDelayedPlace
    <3> QED BY <1>2, <3>2, <3>3
  <2> QED BY <2>1, <2>2 DEF OneDelayedPlace
<1> HIDE DEF D, t
<1>7. \A u \in Tasks : /\ Held(u)' <=> Held(u) /\ u \notin D
                       /\ u \in D => ~Held(u)' /\ Held(u)
  BY <1>1, <1>4, <1>5 DEF Held
<1>8. OneStatus'
  BY <1>3, <1>7 DEF Places, OneStatus
<1>9. Moved
  <2> SUFFICES ASSUME NEW u \in Tasks
               PROVE  Status(u)' = Status(u) \/ <<Status(u), Status(u)'>> \in Contract!Moves
    BY DEF Moved
  <2>1. CASE u \notin D
    <3>1. /\ Held(u)' <=> Held(u) /\ ends'[u] = ends[u]
      BY <2>1, <1>3, <1>7
    <3> QED BY <1>3, <1>7, <2>1, StatusKept
  <2>2. CASE u \in D
    <3>1. Held(u) /\ ~Held(u)' /\ u \notin dlq' /\ ends'[u] # {}
      BY <2>2, <1>3, <1>7 DEF Places, OneStatus
    <3>2. Status(u) = "queued" /\ Status(u)' = "ended"
      BY <3>1, StatusCases
    <3> QED BY <3>2 DEF Contract!Moves
  <2> QED BY <2>1, <2>2
<1> QED BY <1>1, <1>6, <1>7, <1>8, <1>9 DEF Places

\* The task of an entry goes to the DLQ, which may evict others, or it at once.
LEMMA DeadEffect ==
  ASSUME TypeOK, Places, NEW id \in MsgIds, stream[id] # NoBody,
         stream' = [stream EXCEPT ![id] = NoBody], ZAddDLQ(stream[id].task),
         UNCHANGED <<delayed, accepted>>
  PROVE  /\ Places' /\ Moved
         /\ \A u \in Tasks : Held(u)' <=> Held(u) /\ u # stream[id].task
<1> DEFINE t == stream[id].task
<1>1. /\ t \in Tasks /\ InStream(t) /\ ~InDelayed(t) /\ OneStreamPlace'
      /\ \A u \in Tasks : InStream(u)' <=> InStream(u) /\ u # t
  BY EntryLeaves
<1>2. PICK evict \in SUBSET (dlq \cup {t}) :
        dlq' = (dlq \cup {t}) \ evict /\ ends' = EndsWith(evict, "evicted")
  BY DEF ZAddDLQ
<1>3. \A u \in Tasks : ends'[u] = IF u \in evict THEN ends[u] \cup {"evicted"} ELSE ends[u]
  BY <1>2 DEF EndsWith
<1>4. \A u \in Tasks : InDelayed(u)' <=> InDelayed(u)
  BY DEF InDelayed
<1>5. OneDelayedPlace'
  <2>1. \A i \in MsgIds, b \in delayed : stream'[i].task # b.task
    <3> TAKE i \in MsgIds, b \in delayed
    <3>1. b.task \in Tasks
      BY DEF TypeOK, Body
    <3> QED BY <1>1, <3>1 DEF InStream, Places, OneDelayedPlace
  <2> QED BY <2>1 DEF Places, OneDelayedPlace
<1> HIDE DEF t
<1>6. \A u \in Tasks : Held(u)' <=> Held(u) /\ u # t
  BY <1>1, <1>4 DEF Held
<1>7. Held(t) /\ t \notin dlq /\ ends[t] = {} /\ t \in accepted
  BY <1>1 DEF Held, Places, OneStatus, t
<1>8. OneStatus'
  BY <1>2, <1>3, <1>6, <1>7 DEF Places, OneStatus
<1>9. Moved
  <2> SUFFICES ASSUME NEW u \in Tasks
               PROVE  Status(u)' = Status(u) \/ <<Status(u), Status(u)'>> \in Contract!Moves
    BY DEF Moved
  <2>1. CASE u = t
    <3>1. Status(u) = "queued" /\ Status(u)' \in {"dead", "ended"}
      BY <2>1, <1>2, <1>3, <1>6, <1>7, StatusCases
    <3> QED BY <3>1 DEF Contract!Moves
  <2>2. CASE u # t /\ u \notin evict
    BY <2>2, <1>2, <1>3, <1>6, StatusKept
  <2>3. CASE u # t /\ u \in evict
    <3>1. u \in dlq /\ ~Held(u) /\ ~Held(u)' /\ u \notin dlq' /\ ends'[u] # {}
      BY <2>3, <1>2, <1>3, <1>6 DEF Places, OneStatus
    <3>2. Status(u) = "dead" /\ Status(u)' = "ended"
      BY <3>1, StatusCases
    <3> QED BY <3>2 DEF Contract!Moves
  <2> QED BY <2>1, <2>2, <2>3
<1> QED BY <1>1, <1>5, <1>6, <1>8, <1>9 DEF Places, t

\* The task of an entry ends.
LEMMA EndEffect ==
  ASSUME TypeOK, Places, NEW id \in MsgIds, stream[id] # NoBody,
         stream' = [stream EXCEPT ![id] = NoBody],
         ends'[stream[id].task] # {},
         \A u \in Tasks : u # stream[id].task => ends'[u] = ends[u],
         UNCHANGED <<delayed, dlq, accepted>>
  PROVE  /\ Places' /\ Moved
         /\ \A u \in Tasks : Held(u)' <=> Held(u) /\ u # stream[id].task
<1> DEFINE t == stream[id].task
<1>1. /\ t \in Tasks /\ InStream(t) /\ ~InDelayed(t) /\ OneStreamPlace'
      /\ \A u \in Tasks : InStream(u)' <=> InStream(u) /\ u # t
  BY EntryLeaves
<1>2. \A u \in Tasks : InDelayed(u)' <=> InDelayed(u)
  BY DEF InDelayed
<1>3. OneDelayedPlace'
  <2>1. \A i \in MsgIds, b \in delayed : stream'[i].task # b.task
    <3> TAKE i \in MsgIds, b \in delayed
    <3>1. b.task \in Tasks
      BY DEF TypeOK, Body
    <3> QED BY <1>1, <3>1 DEF InStream, Places, OneDelayedPlace
  <2> QED BY <2>1 DEF Places, OneDelayedPlace
<1>4. ends'[t] # {} /\ \A u \in Tasks : u # t => ends'[u] = ends[u]
  OBVIOUS
<1> HIDE DEF t
<1>5. \A u \in Tasks : Held(u)' <=> Held(u) /\ u # t
  BY <1>1, <1>2 DEF Held
<1>6. Held(t) /\ t \notin dlq /\ t \in accepted
  BY <1>1 DEF Held, Places, OneStatus
<1>7. OneStatus'
  BY <1>4, <1>5, <1>6 DEF Places, OneStatus
<1>8. Moved
  <2> SUFFICES ASSUME NEW u \in Tasks
               PROVE  Status(u)' = Status(u) \/ <<Status(u), Status(u)'>> \in Contract!Moves
    BY DEF Moved
  <2>1. CASE u = t
    <3>1. Status(u) = "queued" /\ Status(u)' = "ended"
      BY <2>1, <1>4, <1>5, <1>6, StatusCases
    <3> QED BY <3>1 DEF Contract!Moves
  <2>2. CASE u # t
    BY <2>2, <1>4, <1>5, StatusKept
  <2> QED BY <2>1, <2>2
<1> QED BY <1>1, <1>3, <1>5, <1>7, <1>8 DEF Places, t

\* Nothing moves.
LEMMA NoEffect ==
  ASSUME Places, UNCHANGED <<stream, delayed, dlq, accepted, ends>>
  PROVE  Places' /\ Moved /\ \A u \in Tasks : Held(u)' <=> Held(u)
<1>1. \A u \in Tasks : Held(u)' <=> Held(u)
  BY DEF Held, InStream, InDelayed
<1>2. Places'
  BY <1>1 DEF Places, OneStreamPlace, OneDelayedPlace, OneStatus
<1>3. Moved
  BY <1>1, StatusKept DEF Moved
<1> QED BY <1>1, <1>2, <1>3

\* An entry with a new id enters the stream.
LEMMA EntryEnters ==
  ASSUME TypeOK, IdsInOrder, OneStreamPlace, NEW body \in Body, XAdd(body),
         ~InStream(body.task)
  PROVE  /\ OneStreamPlace'
         /\ \A u \in Tasks : InStream(u)' <=> InStream(u) \/ u = body.task
         /\ \A i \in MsgIds : stream[i] # NoBody => stream'[i] # NoBody
         /\ \A i \in MsgIds : stream'[i] = stream[i] \/ stream'[i] = body
<1> DEFINE new == lastId + 1
<1>1. new \in MsgIds /\ stream[new] = NoBody
  BY BoundsAssumption DEF XAdd, TypeOK, IdsInOrder, MsgIds
<1>2. \A i \in MsgIds : stream'[i] = IF i = new THEN body ELSE stream[i]
  BY DEF XAdd, TypeOK
<1>3. body.task \in Tasks /\ body # NoBody
  BY BodyIsSomething DEF Body
<1> HIDE DEF new
<1>4. \A u \in Tasks : InStream(u)' <=> InStream(u) \/ u = body.task
  <2> TAKE u \in Tasks
  <2>1. stream[new].task # u
    BY <1>1, QueueAssumption DEF NoBody
  <2> QED BY <2>1, <1>1, <1>2 DEF InStream
<1>5. OneStreamPlace'
  <2> SUFFICES ASSUME NEW i \in MsgIds, NEW j \in MsgIds,
                      stream'[i] # NoBody, stream'[i].task = stream'[j].task
               PROVE  i = j
    BY DEF OneStreamPlace
  <2>1. CASE i = new
    BY <2>1, <1>2 DEF InStream
  <2>2. CASE i # new /\ j = new
    BY <2>2, <1>2 DEF InStream
  <2>3. CASE i # new /\ j # new
    BY <2>3, <1>2 DEF OneStreamPlace
  <2> QED BY <2>1, <2>2, <2>3
<1> QED BY <1>1, <1>2, <1>3, <1>4, <1>5

\* A client enqueues a task for now.
LEMMA EnqueueEffect ==
  ASSUME TypeOK, IdsInOrder, Places, NEW t \in Tasks, Enqueue(t)
  PROVE  /\ Places' /\ Moved
         /\ \A u \in Tasks : Held(u)' <=> Held(u) \/ u = t
         /\ \A i \in MsgIds : stream[i] # NoBody => stream'[i] # NoBody
<1>1. ~Held(t) /\ t \notin dlq /\ ends[t] = {} /\ t \notin accepted
  BY DEF Enqueue, Places, OneStatus
<1>2. XAdd(NewBody(t)) /\ NewBody(t) \in Body /\ NewBody(t).task = t
  BY DEF Enqueue, NewBody, Body
<1>3. /\ OneStreamPlace'
      /\ \A u \in Tasks : InStream(u)' <=> InStream(u) \/ u = t
      /\ \A i \in MsgIds : stream[i] # NoBody => stream'[i] # NoBody
      /\ \A i \in MsgIds : stream'[i] = stream[i] \/ stream'[i] = NewBody(t)
  BY <1>1, <1>2, EntryEnters DEF Places, Held
<1>4. \A u \in Tasks : Held(u)' <=> Held(u) \/ u = t
  BY <1>3 DEF Held, InDelayed, Enqueue
<1>5. OneDelayedPlace'
  BY <1>1, <1>2, <1>3 DEF Places, OneDelayedPlace, Held, InDelayed, Enqueue
<1>6. dlq' = dlq /\ ends' = ends /\ accepted' = accepted \cup {t}
  BY DEF Enqueue
<1>7. OneStatus'
  BY <1>1, <1>4, <1>6 DEF Places, OneStatus
<1>8. Moved
  <2> SUFFICES ASSUME NEW u \in Tasks
               PROVE  Status(u)' = Status(u) \/ <<Status(u), Status(u)'>> \in Contract!Moves
    BY DEF Moved
  <2>1. CASE u = t
    <3>1. Status(u) = "new" /\ Status(u)' = "queued"
      BY <2>1, <1>1, <1>4, StatusCases
    <3> QED BY <3>1 DEF Contract!Moves
  <2>2. CASE u # t
    BY <2>2, <1>4, <1>6, StatusKept
  <2> QED BY <2>1, <2>2
<1> QED BY <1>3, <1>4, <1>5, <1>7, <1>8 DEF Places

\* The scheduler moves a task from the delayed ZSET to the stream.
LEMMA PromoteEffect ==
  ASSUME TypeOK, IdsInOrder, Places, NEW body \in delayed, Promote(body)
  PROVE  /\ Places' /\ Moved
         /\ \A u \in Tasks : Held(u)' <=> Held(u)
         /\ \A i \in MsgIds : stream[i] # NoBody => stream'[i] # NoBody
<1>1. body \in Body /\ body.task \in Tasks
  BY DEF TypeOK, Body
<1>2. ~InStream(body.task)
  BY DEF Places, OneDelayedPlace, InStream
<1>3. /\ OneStreamPlace'
      /\ \A u \in Tasks : InStream(u)' <=> InStream(u) \/ u = body.task
      /\ \A i \in MsgIds : stream[i] # NoBody => stream'[i] # NoBody
      /\ \A i \in MsgIds : stream'[i] = stream[i] \/ stream'[i] = body
  BY <1>1, <1>2, EntryEnters DEF Places, Promote
<1>4. delayed' = delayed \ {body}
  BY DEF Promote
<1>5. \A u \in Tasks : InDelayed(u)' <=> InDelayed(u) /\ u # body.task
  BY <1>4 DEF InDelayed, Places, OneDelayedPlace
<1>6. OneDelayedPlace'
  BY <1>3, <1>4 DEF Places, OneDelayedPlace
<1>7. \A u \in Tasks : Held(u)' <=> Held(u)
  BY <1>3, <1>5 DEF Held, InDelayed
<1>8. dlq' = dlq /\ ends' = ends /\ accepted' = accepted
  BY DEF Promote, histVars
<1>9. OneStatus'
  BY <1>7, <1>8 DEF Places, OneStatus
<1>10. Moved
  BY <1>7, <1>8, StatusKept DEF Moved
<1> QED BY <1>3, <1>6, <1>7, <1>9, <1>10 DEF Places

\* A client schedules a task, and the overflow policy may drop others.
LEMMA EnqueueAtEffect ==
  ASSUME TypeOK, Places, NEW t \in Tasks, EnqueueAt(t)
  PROVE  /\ Places' /\ Moved
         /\ \A u \in Tasks : Held(u)' => Held(u) \/ u = t
<1>1. ~Held(t) /\ t \notin dlq /\ ends[t] = {} /\ t \notin accepted
  BY DEF EnqueueAt, Places, OneStatus
<1>2. NewBody(t) \in Body /\ NewBody(t).task = t
  BY DEF NewBody, Body
<1>3. PICK drop \in SUBSET delayed :
        /\ delayed' = (delayed \ drop) \cup {NewBody(t)}
        /\ ends' = EndsWith({m.task : m \in drop}, "dropped")
  BY DEF EnqueueAt, ZAddDroppingFarthest
<1> DEFINE D == {m.task : m \in drop}
<1>4. \A u \in Tasks : ends'[u] = IF u \in D THEN ends[u] \cup {"dropped"} ELSE ends[u]
  BY <1>3 DEF EndsWith
<1>5. t \notin D /\ \A u \in D : InDelayed(u) /\ ~InStream(u)
  BY <1>1, <1>3 DEF Held, InDelayed, InStream, Places, OneDelayedPlace
<1>6. \A u \in Tasks : /\ InDelayed(u)' <=> (InDelayed(u) /\ u \notin D) \/ u = t
                       /\ InStream(u)' <=> InStream(u)
  BY <1>2, <1>3 DEF InDelayed, InStream, Places, OneDelayedPlace, EnqueueAt
<1>7. OneDelayedPlace' /\ OneStreamPlace'
  BY <1>1, <1>2, <1>3 DEF Places, OneDelayedPlace, OneStreamPlace, Held, InDelayed, InStream, EnqueueAt
<1> HIDE DEF D
<1>8. dlq' = dlq /\ accepted' = accepted \cup {t}
  BY DEF EnqueueAt
<1>9. \A u \in Tasks : /\ Held(u)' <=> (Held(u) /\ u \notin D) \/ u = t
                       /\ u \in D => Held(u)
  BY <1>5, <1>6 DEF Held
<1>10. OneStatus'
  BY <1>1, <1>4, <1>5, <1>8, <1>9 DEF Places, OneStatus
<1>11. Moved
  <2> SUFFICES ASSUME NEW u \in Tasks
               PROVE  Status(u)' = Status(u) \/ <<Status(u), Status(u)'>> \in Contract!Moves
    BY DEF Moved
  <2>1. CASE u = t
    <3>1. Status(u) = "new" /\ Status(u)' = "queued"
      BY <2>1, <1>1, <1>9, StatusCases
    <3> QED BY <3>1 DEF Contract!Moves
  <2>2. CASE u # t /\ u \notin D
    BY <2>2, <1>4, <1>8, <1>9, StatusKept
  <2>3. CASE u # t /\ u \in D
    <3>1. Held(u) /\ ~Held(u)' /\ u \notin dlq' /\ ends'[u] # {}
      BY <2>3, <1>4, <1>8, <1>9 DEF Places, OneStatus
    <3>2. Status(u) = "queued" /\ Status(u)' = "ended"
      BY <3>1, StatusCases
    <3> QED BY <3>2 DEF Contract!Moves
  <2> QED BY <2>1, <2>2, <2>3
<1> QED BY <1>7, <1>9, <1>10, <1>11 DEF Places

-----------------------------------------------------------------------------
(* The executors' hold on their messages. *)

\* Clients and the scheduler take no entry away.
LEMMA GripKept ==
  ASSUME IInv, Grip, UNCHANGED <<pc, msg, job>>,
         \A i \in MsgIds : stream[i] # NoBody => stream'[i] # NoBody
  PROVE  Grip'
<1>1. Alone' /\ PastGate'
  BY DEF Grip, Alone, PastGate
<1>2. Entry'
  BY DEF Grip, Entry, IInv, Structure, Holding
<1> QED BY <1>1, <1>2 DEF Grip

\* An executor goes on with its message.
LEMMA GripStays ==
  ASSUME IInv, Grip, NEW e \in Executors, pc[e] # "idle",
         NEW stage, pc' = [pc EXCEPT ![e] = stage],
         stage \notin {"idle", "gate", "xdel"} => job[e].task \notin Undecodable,
         stage = "start" => HasScope(job[e].task, "UntilStart"),
         stage = "unlock" => HasScope(job[e].task, "UntilSuccess"),
         UNCHANGED <<stream, msg, job>>
  PROVE  Grip'
<1>1. \A d \in Executors : pc'[d] = IF d = e THEN stage ELSE pc[d]
  BY DEF IInv, Structure, TypeOK
<1>2. Alone' /\ Entry'
  BY <1>1 DEF Grip, Alone, Entry
<1>3. PastGate'
  BY <1>1 DEF Grip, PastGate
<1> QED BY <1>2, <1>3 DEF Grip

\* An executor settles its message or gives it up.
LEMMA GripLeaves ==
  ASSUME IInv, Grip, NEW e \in Executors, pc[e] # "idle", Finish(e),
         \A i \in MsgIds : i # msg[e] => stream'[i] = stream[i]
  PROVE  Grip'
<1>1. \A d \in Executors :
        pc'[d] # "idle" => d # e /\ pc[d] # "idle" /\ pc'[d] = pc[d] /\ msg'[d] = msg[d] /\ job'[d] = job[d]
  BY DEF Finish, Goto, IInv, Structure, TypeOK
<1>2. Alone'
  BY <1>1 DEF Grip, Alone
<1>3. Entry'
  BY <1>1 DEF Grip, Alone, Entry, IInv, Structure, Holding
<1>4. PastGate'
  BY <1>1 DEF Grip, PastGate
<1> QED BY <1>2, <1>3, <1>4 DEF Grip

\* An executor gets a message nobody holds.
LEMMA GripLoads ==
  ASSUME IInv, Grip, NEW e \in Executors, pc[e] = "idle",
         NEW id \in MsgIds, stream[id] # NoBody, NEW retry, Load(e, id, retry),
         \A d \in Executors : ~Holds(d, id),
         UNCHANGED stream
  PROVE  Grip'
<1>1. \A d \in Executors : IF d = e THEN pc'[d] = "gate" /\ msg'[d] = id
                           ELSE pc'[d] = pc[d] /\ msg'[d] = msg[d] /\ job'[d] = job[d]
  BY DEF Load, IInv, Structure, TypeOK
<1>2. Alone' /\ Entry'
  BY <1>1 DEF Grip, Alone, Entry, Holds
<1>3. PastGate'
  BY <1>1 DEF Grip, PastGate
<1> QED BY <1>2, <1>3 DEF Grip

-----------------------------------------------------------------------------
(* The locks of tasks with UniqueUntilSucceeded. *)

\* Such a task owns its lock for as long as it is in the queue.
LockKept ==
  \A t \in Tasks : HasScope(t, "UntilSucceeded") /\ Held(t) => lock[KeyOf[t]] = t

\* Nothing enters and no lock moves.
LEMMA LockUntouched ==
  ASSUME LockKept, UNCHANGED lock, \A u \in Tasks : Held(u)' => Held(u)
  PROVE  LockKept'
BY DEF LockKept, HasScope

\* A client's script takes the lock only where no other task owns it.
LEMMA LockTaken ==
  ASSUME LockKept, NEW t \in Tasks, LockAvailable(t), lock' = Locked(t),
         \A u \in Tasks : Held(u)' => Held(u) \/ u = t
  PROVE  LockKept'
<1> SUFFICES ASSUME NEW u \in Tasks, HasScope(u, "UntilSucceeded"), Held(u)'
             PROVE  lock'[KeyOf[u]] = u
  BY DEF LockKept, HasScope
<1>1. KeyOf[u] \in Keys
  BY QueueAssumption DEF HasScope
<1>2. CASE u = t
  BY <1>1, <1>2 DEF Locked
<1>3. CASE u # t
  <2>1. lock[KeyOf[u]] = u
    BY <1>3 DEF LockKept
  <2>2. KeyOf[u] # KeyOf[t]
    BY <1>1, <1>3, <2>1, QueueAssumption DEF LockAvailable
  <2> QED BY <1>1, <2>1, <2>2 DEF Locked
<1> QED BY <1>2, <1>3

\* A release concerns the lock of its task, which is gone or of another scope.
LEMMA LockReleased ==
  ASSUME LockKept, NEW t \in Tasks, lock' = Unlocked(t),
         \A u \in Tasks : Held(u)' => Held(u),
         ~Held(t)' \/ ~HasScope(t, "UntilSucceeded")
  PROVE  LockKept'
<1> SUFFICES ASSUME NEW u \in Tasks, HasScope(u, "UntilSucceeded"), Held(u)'
             PROVE  lock'[KeyOf[u]] = u
  BY DEF LockKept, HasScope
<1>1. KeyOf[u] \in Keys /\ u # t
  BY QueueAssumption DEF HasScope
<1>2. lock[KeyOf[u]] = u
  BY DEF LockKept
<1> QED BY <1>1, <1>2 DEF Unlocked

-----------------------------------------------------------------------------
(* One step. *)

\* What every step does, when entries are exclusive and no lock's TTL ends.
Orderly == Grip' /\ Places' /\ Moved /\ (LockKept => LockKept')

\* What an executor knows of the message it works on.
LEMMA OwnMessage ==
  ASSUME IInv, Grip, NEW e \in Executors, pc[e] # "idle"
  PROVE  /\ msg[e] \in MsgIds /\ stream[msg[e]] # NoBody
         /\ job[e] \in Body /\ job[e].task \in Tasks
         /\ stream[msg[e]].task = job[e].task
         /\ Held(job[e].task)
<1>1. /\ msg[e] \in MsgIds /\ stream[msg[e]] # NoBody /\ job[e] \in Body
      /\ stream[msg[e]].task = job[e].task
  BY DEF IInv, Structure, Holding, Grip, Entry
<1>2. Held(job[e].task)
  BY <1>1 DEF Held, InStream
<1> QED BY <1>1, <1>2 DEF Body

\* Enqueue, EnqueueAt, CancelTask.
LEMMA ClientOrderly ==
  ASSUME IInv, Grip, Places, NEW t \in Tasks, Client(t)
  PROVE  Orderly
<1>1. TypeOK /\ IdsInOrder
  BY DEF IInv, Structure
<1>2. CASE Enqueue(t)
  <2>1. /\ Places' /\ Moved
        /\ \A u \in Tasks : Held(u)' => Held(u) \/ u = t
        /\ \A i \in MsgIds : stream[i] # NoBody => stream'[i] # NoBody
    BY <1>1, <1>2, EnqueueEffect
  <2>2. /\ LockAvailable(t) /\ lock' = Locked(t)
        /\ UNCHANGED <<pc, msg, job>>
    BY <1>2 DEF Enqueue, execVars
  <2>3. Grip'
    BY <2>1, <2>2, GripKept
  <2>4. LockKept => LockKept'
    BY <2>1, <2>2, LockTaken
  <2> QED BY <2>1, <2>3, <2>4 DEF Orderly
<1>3. CASE EnqueueAt(t)
  <2>1. /\ Places' /\ Moved
        /\ \A u \in Tasks : Held(u)' => Held(u) \/ u = t
    BY <1>1, <1>3, EnqueueAtEffect
  <2>2. /\ LockAvailable(t) /\ lock' = Locked(t)
        /\ UNCHANGED <<stream, pc, msg, job>>
    BY <1>3 DEF EnqueueAt, execVars
  <2>3. Grip'
    BY <2>2, GripKept
  <2>4. LockKept => LockKept'
    BY <2>1, <2>2, LockTaken
  <2> QED BY <2>1, <2>3, <2>4 DEF Orderly
<1>4. CASE CancelTask(t)
  <2>1. UNCHANGED <<stream, delayed, dlq, accepted, ends, lock, pc, msg, job>>
    BY <1>4 DEF CancelTask, execVars, histVars
  <2>2. Places' /\ Moved /\ \A u \in Tasks : Held(u)' <=> Held(u)
    BY <2>1, NoEffect
  <2>3. Grip'
    BY <2>1, GripKept
  <2>4. LockKept => LockKept'
    BY <2>1, <2>2, LockUntouched
  <2> QED BY <2>2, <2>3, <2>4 DEF Orderly
<1> QED BY <1>2, <1>3, <1>4 DEF Client

\* StartGroup, an id that leaves the PEL, or no step at all.
LEMMA IdleOrderly ==
  ASSUME IInv, Grip, Places,
         StartGroup \/ (\E id \in MsgIds : ReclaimDeleted(id)) \/ UNCHANGED vars
  PROVE  Orderly
<1>1. UNCHANGED <<stream, delayed, dlq, accepted, ends, lock, pc, msg, job>>
  BY DEF StartGroup, ReclaimDeleted, vars, redisVars, execVars, histVars
<1>2. Places' /\ Moved /\ \A u \in Tasks : Held(u)' <=> Held(u)
  BY <1>1, NoEffect
<1>3. Grip'
  BY <1>1, GripKept
<1>4. LockKept => LockKept'
  BY <1>1, <1>2, LockUntouched
<1> QED BY <1>2, <1>3, <1>4 DEF Orderly

\* The delayed scheduler.
LEMMA PromoteOrderly ==
  ASSUME IInv, Grip, Places, NEW body \in delayed, Promote(body)
  PROVE  Orderly
<1>1. /\ Places' /\ Moved
      /\ \A u \in Tasks : Held(u)' <=> Held(u)
      /\ \A i \in MsgIds : stream[i] # NoBody => stream'[i] # NoBody
  BY PromoteEffect DEF IInv, Structure
<1>2. UNCHANGED <<lock, pc, msg, job>>
  BY DEF Promote, execVars
<1>3. Grip'
  BY <1>1, <1>2, GripKept
<1>4. LockKept => LockKept'
  BY <1>1, <1>2, LockUntouched
<1> QED BY <1>1, <1>3, <1>4 DEF Orderly

\* XREADGROUP hands out an entry beyond all that are held; the janitor claims
\* an entry of a live executor only in an overlap.
LEMMA LoadOrderly ==
  ASSUME IInv, Grip, Places, Exclusive, NEW e \in Executors,
         Deliver(e) \/ \E id \in MsgIds : Janitor(e, id)
  PROVE  Orderly
<1>1. PICK id \in MsgIds, retry \in {stream[i].retry : i \in MsgIds} \cup {pel[i] : i \in MsgIds} \cup {0} :
        /\ Load(e, id, retry) /\ pc[e] = "idle"
        /\ stream[id] # NoBody
        /\ \A d \in Executors : ~Holds(d, id)
  <2>1. CASE Deliver(e)
    <3>1. PICK id \in Undelivered : Load(e, id, stream[id].retry)
      BY <2>1 DEF Deliver
    <3>2. id \in MsgIds /\ stream[id] # NoBody /\ id > cursor
      BY <3>1 DEF Undelivered
    <3>3. \A d \in Executors : ~Holds(d, id)
      BY <3>2 DEF Holds, IInv, Structure, Holding, TypeOK, MsgIds
    <3> QED BY <2>1, <3>1, <3>2, <3>3 DEF Deliver
  <2>2. CASE \E id \in MsgIds : Janitor(e, id)
    <3>1. PICK id \in MsgIds : Reclaim(e, id) \/ ReclaimUncounted(e, id)
      BY <2>2 DEF Janitor, ReclaimLive, Disrupt, Exclusive
    <3>2. stream[id] # NoBody
      BY <3>1 DEF Reclaim, ReclaimUncounted, ReclaimAs, IInv, Structure, DeliveryCoverage
    <3> QED BY <3>1, <3>2 DEF Reclaim, ReclaimUncounted, ReclaimAs
  <2> QED BY <2>1, <2>2
<1>2. UNCHANGED <<stream, delayed, dlq, accepted, ends, lock>>
  BY DEF Deliver, Janitor, Reclaim, ReclaimLive, ReclaimUncounted, ReclaimAs, histVars
<1>3. Places' /\ Moved /\ \A u \in Tasks : Held(u)' <=> Held(u)
  BY <1>2, NoEffect
<1>4. Grip'
  BY <1>1, <1>2, GripLoads
<1>5. LockKept => LockKept'
  BY <1>2, <1>3, LockUntouched
<1> QED BY <1>3, <1>4, <1>5 DEF Orderly

\* A crash of the executor.
LEMMA AbandonOrderly ==
  ASSUME IInv, Grip, Places, NEW e \in Executors, Abandon(e)
  PROVE  Orderly
<1>1. UNCHANGED <<stream, delayed, dlq, accepted, ends, lock>> /\ pc[e] # "idle" /\ Finish(e)
  BY DEF Abandon, redisVars
<1>2. Places' /\ Moved /\ \A u \in Tasks : Held(u)' <=> Held(u)
  BY <1>1, NoEffect
<1>3. Grip'
  BY <1>1, GripLeaves
<1>4. LockKept => LockKept'
  BY <1>1, <1>2, LockUntouched
<1> QED BY <1>2, <1>3, <1>4 DEF Orderly

\* The steps of Process that settle nothing.
LEMMA StageOrderly ==
  ASSUME IInv, Grip, Places, NEW e \in Executors,
         \/ Execute(e) \/ ReleaseAtStart(e) \/ Admit(e) \/ DeferFails(e)
         \/ HandlerSucceeds(e) \/ HandlerFails(e) \/ ReleaseOnError(e)
  PROVE  Orderly
<1>1. pc[e] # "idle" /\ UNCHANGED <<stream, delayed, dlq, accepted, ends, msg, job>>
  BY DEF Execute, ReleaseAtStart, Admit, DeferFails, HandlerSucceeds, HandlerFails,
         ReleaseOnError, Decoded, Raise, redisVars, histVars
<1>2. Places' /\ Moved /\ \A u \in Tasks : Held(u)' <=> Held(u)
  BY <1>1, NoEffect
<1>3. job[e].task \notin Undecodable
  BY DEF Execute, ReleaseAtStart, Admit, DeferFails, HandlerSucceeds, HandlerFails,
         ReleaseOnError, Decoded, Grip, PastGate
<1>4. PICK stage \in Stages :
        /\ pc' = [pc EXCEPT ![e] = stage]
        /\ stage = "start" => HasScope(job[e].task, "UntilStart")
        /\ stage = "unlock" => HasScope(job[e].task, "UntilSuccess")
  BY DEF Execute, ReleaseAtStart, Admit, DeferFails, HandlerSucceeds, HandlerFails,
         ReleaseOnError, Raise, Goto, Stages
<1>5. Grip'
  BY <1>1, <1>3, <1>4, GripStays
<1>6. ASSUME LockKept PROVE LockKept'
  <2>1. CASE UNCHANGED lock
    BY <1>2, <1>6, <2>1, LockUntouched
  <2>2. CASE lock' = Unlocked(job[e].task) /\ (ReleaseAtStart(e) \/ ReleaseOnError(e))
    <3>1. ~HasScope(job[e].task, "UntilSucceeded")
      BY <2>2 DEF ReleaseAtStart, ReleaseOnError, Grip, PastGate, HasScope
    <3> QED BY <1>1, <1>2, <1>6, <2>2, <3>1, OwnMessage, LockReleased
  <2> QED BY <2>1, <2>2 DEF Execute, ReleaseAtStart, Admit, DeferFails, HandlerSucceeds,
                            HandlerFails, ReleaseOnError, redisVars
<1> QED BY <1>2, <1>5, <1>6 DEF Orderly

\* The steps of Process that settle the message: discard, dead letter,
\* complete, defer, retry.
LEMMA SettleOrderly ==
  ASSUME IInv, Grip, Places, NEW e \in Executors,
         \/ DiscardAck(e) \/ DiscardDel(e) \/ RouteExceededMaxRetry(e)
         \/ DiscardIfCancelled(e) \/ DeferRateLimited(e) \/ ScheduleRetry(e)
         \/ MoveToDLQ(e) \/ CompleteTask(e)
  PROVE  Orderly
<1> DEFINE t == job[e].task
<1>1. TypeOK
  BY DEF IInv, Structure
<1>2. pc[e] # "idle"
  BY DEF DiscardAck, DiscardDel, RouteExceededMaxRetry, DiscardIfCancelled, DeferRateLimited,
         ScheduleRetry, MoveToDLQ, CompleteTask, Decoded
<1>3. /\ msg[e] \in MsgIds /\ stream[msg[e]] # NoBody
      /\ job[e] \in Body /\ t \in Tasks
      /\ stream[msg[e]].task = t
      /\ Held(t)
  BY <1>2, OwnMessage
<1>4. stream' = [stream EXCEPT ![msg[e]] = NoBody] =>
        \A i \in MsgIds : i # msg[e] => stream'[i] = stream[i]
  BY <1>1 DEF TypeOK
<1>5. CASE DiscardAck(e)
  <2>1. UNCHANGED <<stream, delayed, dlq, accepted, ends, lock, msg, job>> /\ pc' = [pc EXCEPT ![e] = "xdel"]
    BY <1>5 DEF DiscardAck, Goto
  <2>2. Places' /\ Moved /\ \A u \in Tasks : Held(u)' <=> Held(u)
    BY <2>1, NoEffect
  <2>3. Grip'
    BY <1>2, <2>1, GripStays
  <2>4. LockKept => LockKept'
    BY <2>1, <2>2, LockUntouched
  <2> QED BY <2>2, <2>3, <2>4 DEF Orderly
<1>6. CASE DiscardDel(e)
  <2>1. Finish(e) /\ UNCHANGED <<delayed, dlq, accepted, lock>>
    BY <1>6 DEF DiscardDel
  <2>2. CASE stream' = [stream EXCEPT ![msg[e]] = NoBody] /\ ends' = EndsWith({t}, "undecodable")
    <3>1. ends'[t] # {} /\ \A u \in Tasks : u # t => ends'[u] = ends[u]
      BY <1>3, <2>2 DEF EndsWith
    <3>2. Places' /\ Moved /\ \A u \in Tasks : Held(u)' <=> Held(u) /\ u # t
      BY <1>1, <1>3, <2>1, <2>2, <3>1, EndEffect
    <3>3. Grip'
      BY <1>2, <1>4, <2>1, <2>2, GripLeaves
    <3>4. LockKept => LockKept'
      BY <2>1, <3>2, LockUntouched
    <3> QED BY <3>2, <3>3, <3>4 DEF Orderly
  <2>3. CASE UNCHANGED <<stream, ends>>
    <3>1. Places' /\ Moved /\ \A u \in Tasks : Held(u)' <=> Held(u)
      BY <2>1, <2>3, NoEffect
    <3>2. Grip'
      BY <1>2, <2>1, <2>3, GripLeaves
    <3>3. LockKept => LockKept'
      BY <2>1, <3>1, LockUntouched
    <3> QED BY <3>1, <3>2, <3>3 DEF Orderly
  <2> QED BY <1>6, <2>2, <2>3 DEF DiscardDel
<1>7. CASE RouteExceededMaxRetry(e) \/ MoveToDLQ(e)
  <2>1. DeadLetter(e)
    BY <1>7 DEF RouteExceededMaxRetry, MoveToDLQ, Decoded, Grip, PastGate
  <2>2. /\ stream' = [stream EXCEPT ![msg[e]] = NoBody] /\ Finish(e)
        /\ ZAddDLQ(t) /\ lock' = Unlocked(t)
        /\ UNCHANGED <<delayed, accepted>>
    BY <2>1 DEF DeadLetter, AckAndDel
  <2>3. Places' /\ Moved /\ \A u \in Tasks : Held(u)' <=> Held(u) /\ u # t
    BY <1>1, <1>3, <2>1, <2>2, DeadEffect
  <2>4. Grip'
    BY <1>2, <1>4, <2>2, GripLeaves
  <2>5. LockKept => LockKept'
    BY <1>3, <2>2, <2>3, LockReleased
  <2> QED BY <2>3, <2>4, <2>5 DEF Orderly
<1>8. CASE DiscardIfCancelled(e) \/ CompleteTask(e)
  <2>1. PICK kind \in EndKinds : Complete(e, kind)
    BY <1>8 DEF DiscardIfCancelled, CompleteTask, EndKinds
  <2>2. /\ stream' = [stream EXCEPT ![msg[e]] = NoBody] /\ Finish(e)
        /\ lock' = Unlocked(t) /\ ends' = EndsWith({t}, kind)
        /\ UNCHANGED <<delayed, dlq, accepted>>
    BY <2>1 DEF Complete, AckAndDel
  <2>3. ends'[t] # {} /\ \A u \in Tasks : u # t => ends'[u] = ends[u]
    BY <1>3, <2>2 DEF EndsWith
  <2>4. Places' /\ Moved /\ \A u \in Tasks : Held(u)' <=> Held(u) /\ u # t
    BY <1>1, <1>3, <2>2, <2>3, EndEffect
  <2>5. Grip'
    BY <1>2, <1>4, <2>2, GripLeaves
  <2>6. LockKept => LockKept'
    BY <1>3, <2>2, <2>4, LockReleased
  <2> QED BY <2>4, <2>5, <2>6 DEF Orderly
<1>9. CASE DeferRateLimited(e) \/ ScheduleRetry(e)
  <2>1. [job[e] EXCEPT !.retry = @ + 1] \in Body /\ [job[e] EXCEPT !.retry = @ + 1].task = t
    BY <1>3 DEF Body
  <2>2. PICK body \in Body : body.task = t /\ ZAddDroppingFarthest(body)
    <3>1. CASE DeferRateLimited(e)
      BY <1>3, <3>1 DEF DeferRateLimited
    <3>2. CASE ScheduleRetry(e)
      <4> DEFINE again == [job[e] EXCEPT !.retry = @ + 1]
      <4>1. ZAddDroppingFarthest(again) /\ again \in Body /\ again.task = t
        BY <3>2, <2>1 DEF ScheduleRetry
      <4> HIDE DEF again
      <4> QED BY <4>1
    <3> QED BY <1>9, <3>1, <3>2
  <2>3. /\ stream' = [stream EXCEPT ![msg[e]] = NoBody] /\ Finish(e)
        /\ UNCHANGED <<dlq, accepted, lock>>
    BY <1>9 DEF DeferRateLimited, ScheduleRetry, AckAndDel, Grip, PastGate
  <2>4. Places' /\ Moved /\ \A u \in Tasks : Held(u)' => Held(u)
    BY <1>1, <1>3, <2>2, <2>3, RequeueEffect
  <2>5. Grip'
    BY <1>2, <1>4, <2>3, GripLeaves
  <2>6. LockKept => LockKept'
    BY <2>3, <2>4, LockUntouched
  <2> QED BY <2>4, <2>5, <2>6 DEF Orderly
<1> QED BY <1>5, <1>6, <1>7, <1>8, <1>9

\* Every step, but the end of a lock's TTL.
LEMMA NextOrderly ==
  ASSUME IInv, Grip, Places, Exclusive, [Next]_vars,
         ~\E k \in Keys : LockExpires(k)
  PROVE  Orderly
<1>1. ASSUME NEW e \in Executors, Process(e) PROVE Orderly
  BY <1>1, StageOrderly, SettleOrderly DEF Process, DeferReplyLost, Disrupt, Exclusive
<1> QED BY <1>1, ClientOrderly, IdleOrderly, PromoteOrderly, LoadOrderly, AbandonOrderly DEF Next

\* The end of a lock's TTL moves no task.
LEMMA ExpiryOrderly ==
  ASSUME IInv, Grip, Places, NEW k \in Keys, LockExpires(k)
  PROVE  Grip' /\ Places' /\ Moved
<1>1. UNCHANGED <<stream, delayed, dlq, accepted, ends, pc, msg, job>>
  BY DEF LockExpires, execVars
<1>2. Places' /\ Moved
  BY <1>1, NoEffect
<1>3. Grip'
  BY <1>1, GripKept
<1> QED BY <1>2, <1>3

-----------------------------------------------------------------------------
(* The theorems. *)

\* The empty queue.
LEMMA InitOrderly == Init => Grip /\ Places /\ LockKept
<1> SUFFICES ASSUME Init PROVE Grip /\ Places /\ LockKept
  OBVIOUS
<1>1. \A t \in Tasks : ~Held(t)
  BY QueueAssumption DEF Init, Held, InStream, InDelayed, NoBody
<1>2. Grip
  BY DEF Init, Grip, Alone, Entry, PastGate
<1>3. Places
  BY <1>1 DEF Init, Places, OneStreamPlace, OneDelayedPlace, OneStatus
<1> QED BY <1>1, <1>2, <1>3 DEF LockKept

\* Without overlaps and lost replies no two executors hold the same message
\* and no task is in two places.
LEMMA PlacesInvariance == Spec => [](Exclusive => Grip /\ Places)
<1>1. Init => (Exclusive => Grip /\ Places)
  BY InitOrderly
<1>2. IInv /\ (Exclusive => Grip /\ Places) /\ [Next]_vars => (Exclusive => Grip /\ Places)'
  BY NextOrderly, ExpiryOrderly DEF Orderly, Exclusive
<1> QED BY <1>1, <1>2, Invariance, PTL DEF Spec

\* OnePlace, for every number of tasks, executors and disruptions: crashes,
\* reclaims, retries, deferrals and overflow never duplicate a task.
THEOREM NoTaskDuplicated == Spec => []OnePlace
<1>1. IInv /\ (Exclusive => Grip /\ Places) => OnePlace
  <2> SUFFICES ASSUME IInv, Exclusive, Places, NEW t \in Tasks
               PROVE  /\ \A i, j \in MsgIds : stream[i].task = t /\ stream[j].task = t => i = j
                      /\ \A a, b \in delayed : a.task = t /\ b.task = t => a = b
                      /\ InStream(t) => ~InDelayed(t)
                      /\ Held(t) => t \notin dlq
                      /\ Held(t) \/ t \in dlq => ends[t] = {}
    BY DEF OnePlace
  <2>1. \A i, j \in MsgIds : stream[i].task = t /\ stream[j].task = t => i = j
    BY QueueAssumption DEF Places, OneStreamPlace, NoBody
  <2>2. InStream(t) => ~InDelayed(t)
    BY DEF Places, OneDelayedPlace, InStream, InDelayed
  <2> QED BY <2>1, <2>2 DEF Places, OneDelayedPlace, OneStatus
<1> QED BY <1>1, Invariance, PlacesInvariance, PTL

\* UniqueInFlight: the lock, which only the task's own end releases, keeps a
\* second task with the same key out of the queue.
THEOREM UniqueTasksExclusive == Spec => []UniqueInFlight
<1> DEFINE Safe == Exclusive /\ "lockExpiry" \notin Disruptions
           LInv == Safe => LockKept
<1>1. Init => LInv
  BY InitOrderly
<1>2. IInv /\ (Exclusive => Grip /\ Places) /\ LInv /\ [Next]_vars => LInv'
  <2>1. "lockExpiry" \notin Disruptions => ~\E k \in Keys : LockExpires(k)
    BY DEF LockExpires, Disrupt
  <2> QED BY <2>1, NextOrderly DEF Orderly, Exclusive
<1>3. LInv => UniqueInFlight
  BY DEF LockKept, UniqueInFlight
<1> QED BY <1>1, <1>2, <1>3, Invariance, PlacesInvariance, PTL DEF Spec

\* The queue implements TaskContract when entries are exclusive: every step
\* leaves the status of a task or moves it forward.
THEOREM QueueImplementsContract ==
  ASSUME Exclusive
  PROVE  Spec => ImplementsContract
<1>1. Init => Contract!Init
  <2> SUFFICES ASSUME Init, NEW t \in Tasks PROVE Status(t) = "new"
    BY DEF Contract!Init
  <2>1. ~Held(t)
    BY QueueAssumption DEF Init, Held, InStream, InDelayed, NoBody
  <2> QED BY <2>1, StatusCases DEF Init
<1>2. IInv /\ IInv' /\ (Exclusive => Grip /\ Places) /\ [Next]_vars
        => [Contract!Next]_[t \in Tasks |-> Status(t)]
  <2> SUFFICES ASSUME IInv, IInv', Grip, Places, [Next]_vars PROVE Contract!Next
    OBVIOUS
  <2>1. Moved
    BY NextOrderly, ExpiryOrderly DEF Orderly
  <2>2. ASSUME NEW t \in Tasks PROVE Status(t)' \in Contract!Statuses
    <3>1. t \in accepted' => Held(t)' \/ t \in dlq' \/ ends'[t] # {}
      BY DEF IInv, Conservation
    <3> QED BY <3>1, StatusCases DEF Contract!Statuses
  <2> QED BY <2>1, <2>2 DEF Moved, Contract!Next
<1> QED BY <1>1, <1>2, Invariance, PlacesInvariance, PTL DEF Spec, ImplementsContract, Contract!Spec

=============================================================================
