------------------------------ MODULE MCServices ------------------------------
(***************************************************************************)
(* Deployment, TaskPolicies and Submission share no state.  One run checks *)
(* the three, one after the other: a behaviour is about one of them, while *)
(* the other two keep an initial state.                                    *)
(***************************************************************************)
EXTENDS Deployment, TaskPolicies, Submission

CONSTANTS q1, q2, p1, p2, t1, t2, g, c1, c2

VARIABLE focus

servicesVars == <<deploymentVars, policyVars, submissionVars>>

\* Queue configurations: the defaults, a group of its own without cron jobs, a
\* priority queue with switches it ignores.
QueueConfigsMC ==
  {[group |-> <<>>, priority |-> FALSE, disabled |-> {}],
   [group |-> <<"g">>, priority |-> FALSE, disabled |-> {"cron"}],
   [group |-> <<"g">>, priority |-> TRUE, disabled |-> {"cron", "janitor"}]}

\* One task whose backoff outgrows a Duration, with a timeout and a deadline.
Unlimited ==
  [tasks |-> t1 :> [key |-> g, field |-> NoField], max |-> 0, emission |-> 0, extractor |-> FALSE, keyField |-> FALSE,
   base |-> 3, maxDelay |-> 8, jitter |-> FALSE, filtered |-> FALSE, maxRetry |-> 6, timeout |-> 4, deadline |-> 6]

\* The same with jitter and a filter; one whose retries need tokens; and two tasks
\* that reach one limiter key by different ways.
PoliciesMC ==
  {Unlimited,
   [Unlimited EXCEPT !.jitter = TRUE, !.filtered = TRUE, !.maxRetry = 3, !.timeout = 0, !.deadline = 0],
   [Unlimited EXCEPT !.max = 1, !.emission = 5, !.base = 1, !.maxRetry = 3],
   [Unlimited EXCEPT !.tasks = t1 :> [key |-> NoGroup, field |-> g] @@ t2 :> [key |-> g, field |-> NoField],
                     !.max = 2, !.emission = 5, !.keyField = TRUE,
                     !.base = 1, !.maxRetry = 1, !.timeout = 0, !.deadline = 10]}

Plain ==
  [id |-> <<>>, queue |-> <<>>, name |-> <<2>>, payload |-> <<1>>, maxRetry |-> 0, timeout |-> 0,
   unique |-> <<>>, ttl |-> 0, cron |-> <<>>]
Unique(id) == [Plain EXCEPT !.id = <<id>>, !.unique = <<4>>, !.ttl = 5]
OtherQueue == [Plain EXCEPT !.queue = <<2>>, !.maxRetry = -1]
Large == [Plain EXCEPT !.payload = <<1, 1, 1>>]
Raw == [Plain EXCEPT !.id = <<6>>, !.unique = <<9, 4>>, !.ttl = 5]
LongName == [Plain EXCEPT !.name = <<1, 2, 1, 1>>]

Single(task, at) == [api |-> "grpc", bulk |-> FALSE, failFast |-> FALSE, at |-> at, items |-> <<task>>]
Bulk(api, failFast, items) == [api |-> api, bulk |-> TRUE, failFast |-> failFast, at |-> 0, items |-> items]

RequestsMC ==
  c1 :> {Bulk("grpc", FALSE, <<Plain, Unique(3), OtherQueue>>),
         Bulk("grpc", TRUE, <<Plain, Plain, OtherQueue, Plain>>),
         Bulk("grpc", TRUE, <<Plain, Large, OtherQueue>>),
         Bulk("grpc", FALSE, <<Plain, Nil>>),
         Bulk("http", FALSE, <<Plain, Large, LongName>>),
         Bulk("go", TRUE, <<Plain, Nil, Plain>>),
         [Single(Raw, 0) EXCEPT !.api = "go"],
         Single(Unique(5), 3),
         Single(Plain, 4)}
  @@ c2 :> {Single(Unique(1), 0), Single(Unique(2), 2), Single(Plain, 9)}

Small ==
  [hard |-> 2, soft |-> 1, delayedMax |-> 1, overflow |-> "reject", maxPayload |-> 2, maxDelay |-> 5,
   clientCodec |-> "binary", workerCodec |-> "binary"]
SettingsMC ==
  {Small, [Small EXCEPT !.overflow = "drop_farthest", !.maxDelay = 0, !.hard = 1,
                        !.clientCodec = "json", !.workerCodec = "json"]}

\* Processes are alike, and so are queues.
Alike == Permutations(Procs) \cup Permutations(Queues)

Init ==
  /\ focus \in {"deployment", "policies", "submission"}
  /\ DeploymentInit /\ PolicyInit /\ SubmissionInit
  /\ focus = "deployment" \/ cfg = [q \in Queues |-> CHOOSE x \in QueueConfigs : x.disabled = {}]
  /\ focus = "policies" \/ policy = Unlimited
  /\ focus = "submission" \/ setting = Small

Next ==
  /\ \/ focus = "deployment" /\ DeploymentNext /\ UNCHANGED <<policyVars, submissionVars>>
     \/ focus = "policies" /\ PolicyNext /\ UNCHANGED <<deploymentVars, submissionVars>>
     \/ focus = "submission" /\ SubmissionNext /\ UNCHANGED <<deploymentVars, policyVars>>
  /\ UNCHANGED focus

Spec == Init /\ [][Next]_<<focus, servicesVars>>

=============================================================================
