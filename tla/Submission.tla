------------------------------ MODULE Submission ------------------------------
(***************************************************************************)
(* How a submitted task reaches Redis and what its submitter is told: the  *)
(* gRPC and HTTP front ends, the client's checks and encoding, the         *)
(* admission scripts run one by one over a connection that may break, the  *)
(* rejection counters, the reply, and the decoding by a worker.            *)
(*                                                                         *)
(* A single submission is a batch of one command.  Metadata and events     *)
(* written after an acceptance belong to TaskExecution.                    *)
(***************************************************************************)
EXTENDS Codec, FiniteSets, TLC

CONSTANTS
  Clients,     \* submitters, each with one request
  Requests,    \* requests each client chooses from
  Settings,    \* configurations to choose from
  ChunkSize,   \* maxBulkChunkSize
  Nil,         \* a nil task of a bulk
  NoLock,      \* a unique key nobody holds
  MaxBreaks    \* bound: broken connections

\* A task as a front end receives it.
Items ==
  [id : Seq(Int), queue : Seq(Int), name : Seq(Int), payload : Seq(Int), maxRetry : Int, timeout : Int,
   unique : Seq(Int), ttl : Int, cron : Seq(Int)]

\* A string that protobuf, or a JSON decoder, hands to a front end.
IsUTF8(v) == \A j \in DOMAIN v : v[j] \notin NotUTF8

\* Only gRPC messages and Go callers can have a nil task in a bulk, only Go
\* callers a string that is not UTF-8.
IsRequest(r) ==
  /\ r \in [api : {"grpc", "http", "go"}, bulk : BOOLEAN, failFast : BOOLEAN, at : Nat, items : Seq(Items \cup {Nil})]
  /\ r.api = "http" => r.items \in Seq(Items)
  /\ r.api # "go" => \A i \in DOMAIN r.items : r.items[i] # Nil =>
       \A f \in {"id", "queue", "name", "unique", "cron"} : IsUTF8(r.items[i][f])

\* A lifecycle configuration; 0 or less is no limit.
IsSetting(s) ==
  s \in [hard : Int, soft : Int, delayedMax : Int, overflow : {"reject", "drop_farthest"}, maxPayload : Int, maxDelay : Int,
         clientCodec : {"json", "binary"}, workerCodec : {"json", "binary"}]

ASSUME SubmissionAssumption ==
  /\ IsFiniteSet(Clients)
  /\ \A c \in Clients : \A r \in Requests[c] : IsRequest(r)
  /\ \A s \in Settings : IsSetting(s)
  /\ {ChunkSize, MaxBreaks} \subseteq Nat
  /\ ChunkSize > 0

VARIABLES
  setting,   \* lifecycle limits and codecs
  stream,    \* stream entries of all queues, in order
  delayed,   \* delayed members of all queues
  lock,      \* the owner of each unique key of each queue
  call,      \* the state of each client's request
  counter,   \* LifecycleMetrics
  stored,    \* history: how often each task of each request was stored
  wrong,     \* history: tasks a worker discarded or decoded to something else
  breaks     \* history: broken connections

submissionVars == <<setting, stream, delayed, lock, call, counter, stored, wrong, breaks>>

Some(s) == s # <<>>

Refusals == {"payload", "tooFar", "duplicate", "full", "delayedFull"}

\* What a script or the connection answers to a command.
Results == {"ok", "duplicate", "full", "delayedFull"}

Indexes(c) == DOMAIN call[c].tasks

Calls ==
  [phase : {"idle", "grouped", "sending", "done"}, api : {"", "grpc", "http", "go"}, bulk : BOOLEAN, failFast : BOOLEAN,
   at : Nat, tasks : Seq({Nil} \cup TaskValues), todo : SUBSET Seq(Int), batch : Seq(Nat), sent : Nat,
   results : Seq(Results \cup {"redis"}), errors : Seq(Refusals \cup {"none", "nil", "redis"}),
   succeeded : SUBSET Nat, failed : SUBSET Nat, stopped : BOOLEAN,
   reply : {"", "OK", "MultiStatus", "Internal", "InvalidArgument"}, broken : BOOLEAN]

SubmissionTypeOK ==
  /\ setting \in Settings
  /\ call \in [Clients -> Calls]
  /\ counter \in [enqueueRejected : Nat, delayedRejected : Nat, payloadRejected : Nat, softLimitHits : Nat]
  /\ stored \in [Clients -> Seq(Nat)]
  /\ \A c \in Clients : Len(call[c].errors) = Len(call[c].tasks) /\ Len(stored[c]) = Len(call[c].tasks)
  /\ \A e \in Range(stream) \cup delayed : e.client \in Clients /\ e.index \in Indexes(e.client)
  /\ \A w \in wrong : w[1] \in Clients /\ w[2] \in Indexes(w[1])
  /\ breaks \in 0 .. MaxBreaks

Idle ==
  [phase |-> "idle", api |-> "", bulk |-> FALSE, failFast |-> FALSE, at |-> 0, tasks |-> <<>>, todo |-> {},
   batch |-> <<>>, sent |-> 0, results |-> <<>>, errors |-> <<>>, succeeded |-> {}, failed |-> {},
   stopped |-> FALSE, reply |-> "", broken |-> FALSE]

SubmissionInit ==
  /\ setting \in Settings
  /\ stream = <<>>
  /\ delayed = {}
  /\ lock = <<>>
  /\ call = [c \in Clients |-> Idle]
  /\ counter = [enqueueRejected |-> 0, delayedRejected |-> 0, payloadRejected |-> 0, softLimitHits |-> 0]
  /\ stored = [c \in Clients |-> <<>>]
  /\ wrong = {}
  /\ breaks = 0

-----------------------------------------------------------------------------
(* Requests and tasks. *)

DefaultQueue == <<0>>
DefaultName == <<0>>
DefaultMaxRetry == 3
DefaultTimeout == 30

\* NewTask with the options of a request; CreatedAt tells tasks apart.
NewTask(p, created) ==
  <<IF Some(p.id) THEN p.id ELSE <<0, created>>,       \* generateUUID
    IF Some(p.queue) THEN p.queue ELSE DefaultQueue,
    p.name, p.payload, 0,
    p.maxRetry,
    IF p.timeout > 0 THEN p.timeout ELSE DefaultTimeout,
    p.unique,
    IF Some(p.unique) THEN p.ttl ELSE 0,
    <<>>, p.cron, created, 0, <<>>, 0>>

\* toTaskmqTask: MaxRetry is taken as it comes, 0 if the message leaves it out.
ToTaskmqTask(p, created) == IF p = Nil THEN Nil ELSE NewTask(p, created)

\* BulkEnqueue and EnqueueTest: only an id, a name and a payload.
HttpTask(p, created) ==
  NewTask([p EXCEPT !.name = IF Some(@) THEN @ ELSE DefaultName, !.maxRetry = DefaultMaxRetry,
                    !.timeout = 0, !.unique = <<>>, !.cron = <<>>], created)

\* The requests so far number the times at which their tasks are created.
TaskOf(r, i) ==
  LET created == 10 * Cardinality({c \in Clients : call[c].phase # "idle"}) + i
  IN  IF r.api = "http" THEN HttpTask(r.items[i], created) ELSE ToTaskmqTask(r.items[i], created)

-----------------------------------------------------------------------------
(* The client up to the scripts. *)

TooLarge(t) == setting.maxPayload > 0 /\ Len(Payload(t)) > setting.maxPayload
TooFar(at) == setting.maxDelay > 0 /\ at > setting.maxDelay

\* The tasks of queue q.
OfQueue(c, q) == {i \in Indexes(c) : call[c].tasks[i] # Nil /\ Queue(call[c].tasks[i]) = q}

\* Some of them, in the order of the request: there is one such sequence.
InOrder(S) == {s \in [1 .. Cardinality(S) -> S] : \A i, j \in DOMAIN s : i < j => s[i] < s[j]}

\* A front end takes a request.  gRPC refuses a nil task; EnqueueBulk itself
\* lists it as failed, and under fail-fast goes no further.
Open(c, r) ==
  LET tasks == [i \in 1 .. Len(r.items) |-> TaskOf(r, i)]
      nils == {i \in DOMAIN tasks : tasks[i] = Nil}
      noted == IF r.failFast THEN {i \in nils : \A j \in nils : i <= j} ELSE nils
      opened == [Idle EXCEPT !.api = r.api, !.bulk = r.bulk, !.failFast = r.failFast, !.at = r.at, !.tasks = tasks,
                             !.errors = [i \in DOMAIN tasks |-> "none"]] IN
  /\ call[c].phase = "idle"
  /\ stored' = [stored EXCEPT ![c] = [i \in DOMAIN tasks |-> 0]]
  /\ \/ /\ r.api = "grpc" /\ nils # {}
        /\ call' = [call EXCEPT ![c] = [opened EXCEPT !.phase = "done", !.reply = "InvalidArgument"]]
     \/ /\ ~(r.api = "grpc" /\ nils # {})
        /\ call' = [call EXCEPT ![c] =
             [opened EXCEPT
               !.phase = "grouped",
               !.errors = [i \in DOMAIN tasks |-> IF i \in noted THEN "nil" ELSE "none"],
               !.failed = noted,
               !.stopped = r.failFast /\ nils # {},
               !.todo = {Queue(tasks[i]) : i \in DOMAIN tasks \ nils}]]
  /\ UNCHANGED <<setting, stream, delayed, lock, counter, wrong, breaks>>

\* The task an entry was made of; entries of a queue.
Origin(e) == call[e.client].tasks[e.index]
Length(q) == Cardinality({i \in DOMAIN stream : Queue(Origin(stream[i])) = q})
Members(q) == {m \in delayed : Queue(Origin(m)) = q}

\* NoteSoftLimitIfNeeded.
SoftLimitHits(q) ==
  IF setting.soft > 0 /\ Length(q) >= setting.soft THEN counter.softLimitHits + 1 ELSE counter.softLimitHits

\* The tasks the payload check sees: under fail-fast none after the first that
\* is too large.
Checked(c, q) ==
  LET large == {i \in OfQueue(c, q) : TooLarge(call[c].tasks[i])}
  IN  {i \in OfQueue(c, q) : call[c].failFast => \A j \in large : i <= j}

\* pipelineImmediate up to the pipeline, in any order of the queues; for a
\* delayed task the horizon is checked too.  Under fail-fast one task too large
\* keeps its whole queue, and what was not begun, from being sent.
Prepare(c, q) ==
  LET checked == Checked(c, q)
      large == {i \in checked : TooLarge(call[c].tasks[i])}
      far == {i \in checked \ large : call[c].at > 0 /\ TooFar(call[c].at)}
      stop == call[c].failFast /\ large # {} IN
  /\ call[c].phase = "grouped"
  /\ ~call[c].stopped
  /\ q \in call[c].todo
  /\ counter' = [counter EXCEPT
       !.payloadRejected = @ + Cardinality(large),
       !.delayedRejected = @ + Cardinality(far),
       !.softLimitHits = IF call[c].at > 0 \/ (~call[c].bulk /\ large # {}) THEN @ ELSE SoftLimitHits(q)]
  /\ \E batch \in InOrder(IF stop THEN {} ELSE checked \ (large \cup far)) :
       call' = [call EXCEPT ![c] =
         [call[c] EXCEPT
           !.todo = @ \ {q},
           !.errors = [i \in DOMAIN @ |-> IF i \in large THEN "payload" ELSE IF i \in far THEN "tooFar" ELSE @[i]],
           !.failed = @ \cup large \cup far,
           !.stopped = stop,
           !.phase = "sending",
           !.batch = batch,
           !.sent = 0,
           !.results = <<>>]]
  /\ UNCHANGED <<setting, stream, delayed, lock, stored, wrong, breaks>>

-----------------------------------------------------------------------------
(* The scripts. *)

Chunk(c) == SubSeq(call[c].batch, 1, IF Len(call[c].batch) < ChunkSize THEN Len(call[c].batch) ELSE ChunkSize)

LockOf(t) == <<Queue(t), UniqueKey(t)>>
Owner(t) == IF LockOf(t) \in DOMAIN lock THEN lock[LockOf(t)] ELSE NoLock
Lock(t) == IF Some(UniqueKey(t)) THEN (LockOf(t) :> ID(t)) @@ lock ELSE lock

EntryOf(c, i) ==
  [client |-> c, index |-> i, data |-> Marshal(setting.clientCodec, call[c].tasks[i]), at |-> call[c].at]

Locked(t) == Some(UniqueKey(t)) /\ Owner(t) \notin {NoLock, ID(t)}

\* enqueue_stream.lua, enqueue_unique_with_limit.lua.
EnqueueStream(c, i, result) ==
  LET t == call[c].tasks[i]
      full == setting.hard > 0 /\ Length(Queue(t)) >= setting.hard IN
  /\ \/ result = "duplicate" /\ Locked(t) /\ UNCHANGED <<stream, lock, stored>>
     \/ result = "full" /\ ~Locked(t) /\ full /\ UNCHANGED <<stream, lock, stored>>
     \/ /\ result = "ok" /\ ~Locked(t) /\ ~full
        /\ stream' = Append(stream, EntryOf(c, i))
        /\ lock' = Lock(t)
        /\ stored' = [stored EXCEPT ![c][i] = @ + 1]
  /\ UNCHANGED delayed

\* enqueue_delayed_with_limit.lua, enqueue_unique_delayed_with_limit.lua: at the
\* limit the farthest members make room, or the task is refused; adding a
\* member again changes nothing.
EnqueueDelayed(c, i, result) ==
  LET t == call[c].tasks[i]
      members == Members(Queue(t))
      excess == IF setting.delayedMax > 0 /\ Cardinality(members) >= setting.delayedMax
                THEN Cardinality(members) - setting.delayedMax + 1 ELSE 0
      refused == excess > 0 /\ setting.overflow # "drop_farthest" IN
  /\ \/ result = "duplicate" /\ Locked(t) /\ UNCHANGED <<delayed, lock, stored>>
     \/ result = "delayedFull" /\ ~Locked(t) /\ refused /\ UNCHANGED <<delayed, lock, stored>>
     \/ /\ result = "ok" /\ ~Locked(t) /\ ~refused
        /\ \E drop \in SUBSET members :
             /\ Cardinality(drop) = excess
             /\ \A m \in drop, n \in members \ drop : n.at <= m.at
             /\ delayed' = (delayed \ drop) \cup {EntryOf(c, i)}
        /\ lock' = Lock(t)
        /\ stored' = [stored EXCEPT ![c][i] = @ + 1]
  /\ UNCHANGED stream

\* Redis runs the next command of the chunk; commands of others run in between.
Run(c) ==
  /\ call[c].phase = "sending"
  /\ call[c].sent < Len(Chunk(c))
  /\ \E result \in Results :
       /\ IF call[c].at > 0 THEN EnqueueDelayed(c, Chunk(c)[call[c].sent + 1], result)
                            ELSE EnqueueStream(c, Chunk(c)[call[c].sent + 1], result)
       /\ call' = [call EXCEPT ![c].sent = @ + 1, ![c].results = Append(@, result)]
  /\ UNCHANGED <<setting, counter, wrong, breaks>>

\* The connection breaks after some commands ran and some of their replies were
\* read; the others are reported as failed.
Break(c, read) ==
  /\ call[c].phase = "sending"
  /\ breaks < MaxBreaks
  /\ breaks' = breaks + 1
  /\ Len(Chunk(c)) > read
  /\ read <= call[c].sent
  /\ call' = [call EXCEPT
       ![c].sent = Len(Chunk(c)),
       ![c].results = [j \in 1 .. Len(Chunk(c)) |-> IF j <= read THEN @[j] ELSE "redis"],
       ![c].broken = TRUE]
  /\ UNCHANGED <<setting, stream, delayed, lock, counter, stored, wrong>>

\* The Redis client sends the chunk again, over a new connection.
Resend(c) ==
  /\ call[c].phase = "sending"
  /\ breaks < MaxBreaks
  /\ breaks' = breaks + 1
  /\ call[c].sent > 0
  /\ call' = [call EXCEPT ![c].sent = 0, ![c].results = <<>>, ![c].broken = TRUE]
  /\ UNCHANGED <<setting, stream, delayed, lock, counter, stored, wrong>>

-----------------------------------------------------------------------------
(* The result of a chunk, and the reply. *)

\* MapEnqueueScriptResult: what each refusal adds to the counters.
MapEnqueueScriptResult(results) ==
  [counter EXCEPT
    !.enqueueRejected = @ + Cardinality({j \in DOMAIN results : results[j] = "full"}),
    !.delayedRejected = @ + Cardinality({j \in DOMAIN results : results[j] = "delayedFull"})]

\* Mutant: under fail-fast the results after the first error are not looked at.
NotedUpToError(c) ==
  LET bad == {j \in DOMAIN call[c].results : call[c].results[j] # "ok"}
  IN  {j \in DOMAIN call[c].results : call[c].failFast => \A k \in bad : j <= k}

\* The loop over the commands of a chunk notes every one of them.
Noted(c) == DOMAIN call[c].results

\* The tail of pipelineImmediate; fail-fast stops between chunks.
Collect(c) ==
  LET chunk == Chunk(c)
      results == call[c].results
      good == {j \in Noted(c) : results[j] = "ok"}
      bad == Noted(c) \ good
      stop == call[c].failFast /\ bad # {}
      rest == SubSeq(call[c].batch, Len(chunk) + 1, Len(call[c].batch)) IN
  /\ call[c].phase = "sending"
  /\ call[c].sent = Len(chunk)
  /\ counter' = MapEnqueueScriptResult(results)
  /\ call' = [call EXCEPT ![c] =
       [call[c] EXCEPT
         !.succeeded = @ \cup {chunk[j] : j \in good},
         !.failed = @ \cup {chunk[j] : j \in bad},
         !.errors = [i \in DOMAIN @ |-> IF \E j \in bad : chunk[j] = i
                                       THEN results[CHOOSE j \in bad : chunk[j] = i] ELSE @[i]],
         !.stopped = @ \/ stop,
         !.batch = IF stop THEN <<>> ELSE rest,
         !.sent = 0,
         !.results = <<>>,
         !.phase = IF stop \/ rest = <<>> THEN "grouped" ELSE "sending"]]
  /\ UNCHANGED <<setting, stream, delayed, lock, stored, wrong, breaks>>

\* BulkEnqueue: 200, 207 or 500.  The gRPC service answers OK to a partial
\* success.
ReplyOf(c) ==
  IF call[c].failed = {} THEN "OK"
  ELSE IF ~call[c].bulk \/ call[c].succeeded = {} THEN "Internal"
  ELSE IF call[c].api = "grpc" THEN "OK"
  ELSE "MultiStatus"

Answer(c) ==
  /\ call[c].phase = "grouped"
  /\ call[c].stopped \/ call[c].todo = {}
  /\ call' = [call EXCEPT ![c].phase = "done", ![c].reply = ReplyOf(c)]
  /\ UNCHANGED <<setting, stream, delayed, lock, counter, stored, wrong, breaks>>

-----------------------------------------------------------------------------
(* A worker. *)

\* CompleteTask releases the key of the task as decoded; a message that cannot
\* be decoded is acknowledged and deleted, and its key stays.
Decode(e) ==
  LET d == Unmarshal(setting.workerCodec, e.data) IN
  /\ wrong' = IF d.ok /\ d.task = Origin(e) THEN wrong ELSE wrong \cup {<<e.client, e.index>>}
  /\ lock' = IF d.ok /\ Some(UniqueKey(d.task)) /\ Owner(d.task) = ID(d.task)
             THEN [k \in DOMAIN lock \ {LockOf(d.task)} |-> lock[k]] ELSE lock

Process(i) ==
  /\ \A j \in 1 .. i - 1 : Queue(Origin(stream[j])) # Queue(Origin(stream[i]))
  /\ Decode(stream[i])
  /\ stream' = RemoveAt(stream, i)
  /\ UNCHANGED <<setting, delayed, call, counter, stored, breaks>>

\* A due member, promoted and fetched.
ProcessDelayed(m) ==
  /\ Decode(m)
  /\ delayed' = delayed \ {m}
  /\ UNCHANGED <<setting, stream, call, counter, stored, breaks>>

SubmissionNext ==
  \/ \E c \in Clients :
       \/ \E r \in Requests[c] : Open(c, r)
       \/ \E q \in call[c].todo : Prepare(c, q)
       \/ Run(c) \/ Resend(c) \/ Collect(c) \/ Answer(c)
       \/ \E read \in 0 .. call[c].sent : Break(c, read)
  \/ \E i \in DOMAIN stream : Process(i)
  \/ \E m \in delayed : ProcessDelayed(m)

-----------------------------------------------------------------------------
(* Properties. *)

Done(c) == call[c].phase = "done"

ReplyAgrees ==
  \A c \in Clients : Done(c) =>
    LET listed == call[c].succeeded \cup call[c].failed IN
    /\ \A i \in call[c].succeeded : stored[c][i] > 0
    /\ \A i \in call[c].failed : call[c].errors[i] \in Refusals /\ ~call[c].broken => stored[c][i] = 0
    /\ \A i \in Indexes(c) \ listed : stored[c][i] = 0
    /\ call[c].reply # "InvalidArgument" /\ ~call[c].failFast => listed = Indexes(c)
    /\ call[c].reply = "OK" /\ call[c].failed = {} => \A i \in Indexes(c) : stored[c][i] > 0
    /\ ~call[c].broken => \A i \in Indexes(c) : stored[c][i] <= 1

\* The tasks whose submitters were told one of these errors.
Told(errs) == UNION {{c} \X {i \in Indexes(c) : call[c].errors[i] \in errs} : c \in Clients}

CountersAgree ==
  /\ counter.payloadRejected = Cardinality(Told({"payload"}))
  /\ counter.enqueueRejected = Cardinality(Told({"full"}))
  /\ counter.delayedRejected = Cardinality(Told({"tooFar", "delayedFull"}))

\* The reply tells what is in Redis, for bulks over several queues and chunks
\* that race with other submitters: a task reported as enqueued was stored, one
\* refused by a check or a script was not unless its connection broke, a task a
\* fail-fast bulk does not mention was not, and an OK that lists no failure
\* means every task was stored; no task is stored twice but over a connection
\* that broke.
\* The rejection counters count exactly the refusals that submitters were told
\* of, once each, whichever path a task took and whatever was sent again.
ReportsTruthful == ReplyAgrees /\ CountersAgree

\* A worker with the submitter's codec gets the submitted task.  The exceptions:
\* in the binary format, a string of 64 KiB or more, or a number beyond 32 bits,
\* is discarded as corrupt or taken for another task; in JSON, a string that is
\* not UTF-8, which only a Go caller can submit, comes out as another one.
DeliveredAsSubmitted ==
  \A w \in wrong :
    \/ setting.clientCodec # setting.workerCodec
    \/ ~Encodable(setting.clientCodec, call[w[1]].tasks[w[2]])

=============================================================================
