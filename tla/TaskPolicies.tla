----------------------------- MODULE TaskPolicies -----------------------------
(***************************************************************************)
(* The policies between a fetched message and its handler: the GCRA rate   *)
(* limit, the retry and backoff policy, and the time a handler may run.    *)
(* Time is counted in units finer than the formats the code stores it in:  *)
(* a delayed task's score has whole milliseconds, the limiter's TAT is     *)
(* printed with 14 significant digits and its key lives whole seconds.     *)
(*                                                                         *)
(* Workers, the scheduler and Redis read the same clock.  A message whose  *)
(* settlement fails stays pending until the janitor hands it out again;    *)
(* deliveries lost with a process, or reclaimed while their handler still  *)
(* runs, are TaskQueue's subject.                                          *)
(***************************************************************************)
EXTENDS Integers, FiniteSets

CONSTANTS
  Tasks,         \* submitted tasks
  Policies,      \* configurations and submitted tasks to choose from
  Groups,        \* values of a task's GroupKey or of the configured payload field
  NoGroup,       \* the empty group
  NoField,       \* a payload that is no JSON object, or has no such field
  Grain,         \* units in the last digit of a printed TAT
  Milli,         \* units in a millisecond
  Second,        \* units in a second
  Width,         \* bits of a time.Duration
  NoLimit,       \* a context without a deadline
  MaxTime,       \* bound: the clock
  MaxFaults      \* bound: failed calls to Redis

ASSUME PolicyAssumption ==
  /\ {Grain, Milli, Second, Width} \subseteq Nat \ {0}
  /\ {MaxTime, MaxFaults} \subseteq Nat
  /\ NoLimit \notin Nat
  /\ Policies \subseteq
       [tasks : UNION {[S -> [key : Groups \cup {NoGroup}, field : Groups \cup {NoField}]] : S \in SUBSET Tasks},
        max : Nat, emission : Nat, extractor : BOOLEAN, keyField : BOOLEAN,
        base : Nat, maxDelay : Nat, jitter : BOOLEAN, filtered : BOOLEAN,
        maxRetry : Nat, timeout : Nat, deadline : Nat]

VARIABLES
  policy,    \* the configuration of the queue, the submitted tasks with their GroupKey and
             \* what their payload has in the configured field
  now,       \* the clock
  tat,       \* the stored TAT of each limiter key
  keyEnds,   \* when the limiter key expires
  place,     \* where each task is
  retry,     \* task.Retry of the stored body, or as the delivery count sets it
  deliveries, \* delivery count of the task's stream entry, 1 while it has none
  score,     \* millisecond at which a delayed task is due, 0 for others
  expires,   \* when the context of a running handler ends
  debt,      \* history: time until an ideal bucket has regained what was granted
  runs,      \* history: executions of the handler
  refused,   \* history: deferrals of the task since its key last granted a token
  failedAt,  \* history: when a task that waits for its retry failed, -1 for others
  ended,     \* history: whether a dead task failed for an ordinary error, or for one that forbids a retry
  redisFaults

policyVars ==
  <<policy, now, tat, keyEnds, place, retry, deliveries, score, expires,
    debt, runs, refused, failedAt, ended, redisFaults>>

Errors == {"error", "skip", "noHandler", "nonRetryable"}
Keys == Groups \cup {NoGroup}
Submitted == DOMAIN policy.tasks
Places == {"absent", "ready", "running", "pending", "delayed", "done", "dead"}

PolicyTypeOK ==
  /\ policy \in Policies
  /\ now \in 0 .. MaxTime
  /\ tat \in [Keys -> Nat]
  /\ keyEnds \in [Keys -> Nat]
  /\ place \in [Tasks -> Places]
  /\ retry \in [Tasks -> Nat]
  /\ deliveries \in [Tasks -> Nat \ {0}]
  /\ score \in [Tasks -> Int]
  /\ expires \in [Tasks -> Nat \cup {NoLimit}]
  /\ debt \in [Keys -> Nat]
  /\ runs \in [Tasks -> Nat]
  /\ refused \in [Tasks -> Nat]
  /\ failedAt \in [Tasks -> Nat \cup {-1}]
  /\ ended \in [Tasks -> {"none", "spent", "permanent"}]
  /\ redisFaults \in 0 .. MaxFaults

PolicyInit ==
  /\ policy \in Policies
  /\ now = 0
  /\ tat = [k \in Keys |-> 0]
  /\ keyEnds = [k \in Keys |-> 0]
  /\ place = [t \in Tasks |-> IF t \in Submitted THEN "ready" ELSE "absent"]
  /\ retry = [t \in Tasks |-> 0]
  /\ deliveries = [t \in Tasks |-> 1]
  /\ score = [t \in Tasks |-> 0]
  /\ expires = [t \in Tasks |-> NoLimit]
  /\ debt = [k \in Keys |-> 0]
  /\ runs = [t \in Tasks |-> 0]
  /\ refused = [t \in Tasks |-> 0]
  /\ failedAt = [t \in Tasks |-> -1]
  /\ ended = [t \in Tasks |-> "none"]
  /\ redisFaults = 0

-----------------------------------------------------------------------------
(* Arithmetic of the stored formats. *)

Larger(a, b) == IF a > b THEN a ELSE b
Smaller(a, b) == IF a < b THEN a ELSE b
Ceiling(a, b) == (a + b - 1) \div b

\* tostring keeps whole grains; a tie may go either way.
Printed(x) == {m \in {(x \div Grain) * Grain, Ceiling(x, Grain) * Grain} : 2 * (x - m) <= Grain /\ 2 * (m - x) <= Grain}

\* Two's complement product of Durations.
Wrap(x) == ((x + 2 ^ (Width - 1)) % 2 ^ Width) - 2 ^ (Width - 1)

\* time.Duration(math.Pow(2, n)): out of range, the conversion gives the least
\* value on amd64 and the greatest on arm64.
PowerOfTwo(n) ==
  IF n < Width - 1 THEN {2 ^ n} ELSE {-(2 ^ (Width - 1)), 2 ^ (Width - 1) - 1}

-----------------------------------------------------------------------------
(* GCRALimiter. *)

\* RateLimitMiddleware: the task's own group, else the extractor's, else the
\* field's; a payload that cannot be inspected shares the empty group.
LimitKey(t) ==
  LET task == policy.tasks[t] IN
  IF task.key # NoGroup THEN task.key
  ELSE IF (policy.extractor \/ policy.keyField) /\ task.field # NoField THEN task.field
  ELSE NoGroup

Limited == policy.max > 0 /\ policy.emission > 0

Tat(k) == IF now < keyEnds[k] THEN Larger(tat[k], now) ELSE now

\* Mutant: a burst of max on top of the first token.
BurstOfMax == policy.max

Burst == policy.max - 1

\* Milliseconds until the key has a token, 0 if it has one.
Wait(k) ==
  LET allowAt == Tat(k) - policy.emission * Burst
  IN  IF now < allowAt THEN Ceiling(allowAt - now, Milli) ELSE 0

\* An ideal bucket that forgives what printing may lose of one token.
Owed(k) == debt[k] + Larger(policy.emission - Grain \div 2, 0)

\* gcraTryConsumeScript with a token to spare.
TryConsume(k) ==
  LET newTat == Tat(k) + policy.emission IN
  /\ Wait(k) = 0
  /\ \E m \in Printed(newTat) : tat' = [tat EXCEPT ![k] = m]
  /\ keyEnds' = [keyEnds EXCEPT ![k] = now + Ceiling(newTat - now, Second) * Second]
  /\ debt' = [debt EXCEPT ![k] = Owed(k)]
  /\ refused' = [t \in Tasks |-> IF t \in Submitted /\ LimitKey(t) = k THEN 0 ELSE refused[t]]

-----------------------------------------------------------------------------
(* Retry, backoff and timeout policies. *)

\* Mutant: the task is charged only after the decision.
ShouldRetryOnceMore(t, err) ==
  /\ err \in {"error", "nonRetryable", "broker"}
  /\ retry[t] < policy.maxRetry
  /\ ~(policy.filtered /\ err = "nonRetryable")

\* ShouldRetry of ExponentialBackoff, and of ErrorFilterRetryPolicy around it;
\* the middleware has already charged the failure.
ShouldRetry(t, err) ==
  /\ err \in {"error", "nonRetryable", "broker"}
  /\ retry[t] + 1 < policy.maxRetry
  /\ ~(policy.filtered /\ err = "nonRetryable")

\* Mutant: no cap.
NextBackoffUncapped(r) ==
  UNION {IF policy.jitter /\ Wrap(policy.base * f) > 0
         THEN 0 .. Wrap(policy.base * f) - 1
         ELSE {Wrap(policy.base * f)} : f \in PowerOfTwo(r)}

\* ExponentialBackoff.NextBackoff.
NextBackoff(r) ==
  UNION {LET backoff == Smaller(Wrap(policy.base * f), policy.maxDelay)
         IN  IF policy.jitter /\ backoff > 0 THEN 0 .. backoff - 1 ELSE {backoff} : f \in PowerOfTwo(r)}

\* Mutant: a deadline that has passed is taken for no deadline.
ContextEndExpired ==
  LET byTimeout == IF policy.timeout > 0 THEN now + policy.timeout ELSE NoLimit IN
  IF policy.deadline <= now THEN byTimeout
  ELSE IF byTimeout = NoLimit \/ policy.deadline < byTimeout THEN policy.deadline
  ELSE byTimeout

\* EffectiveTimeout, as the end of the context; a deadline of 0 is none, one
\* that has passed ends it at once.
ContextEnd ==
  LET byTimeout == IF policy.timeout > 0 THEN now + policy.timeout ELSE NoLimit IN
  IF policy.deadline = 0 THEN byTimeout
  ELSE IF policy.deadline <= now THEN now
  ELSE IF byTimeout = NoLimit \/ policy.deadline < byTimeout THEN policy.deadline
  ELSE byTimeout

-----------------------------------------------------------------------------
(* The chain: retry and DLQ, rate limit, recovery, handler. *)

\* n calls to Redis fail.
Faults(n) ==
  /\ redisFaults + n <= MaxFaults
  /\ redisFaults' = redisFaults + n

Execute(t) ==
  /\ place' = [place EXCEPT ![t] = "running"]
  /\ runs' = [runs EXCEPT ![t] = @ + 1]
  /\ expires' = [expires EXCEPT ![t] = ContextEnd]

\* The settlement fails: nothing is written, the message stays in the PEL.
StaysPending(t) ==
  /\ place' = [place EXCEPT ![t] = "pending"]
  /\ expires' = [expires EXCEPT ![t] = NoLimit]
  /\ UNCHANGED <<retry, score, failedAt, ended>>

\* RetryAndDLQMiddleware on an error, after f failed calls: charge, then dead
\* letter or retry.  The charge is in the body that MoveToDLQ or ScheduleRetry
\* writes, and is lost with it.
Charge(t, err, f) ==
  \/ /\ ~ShouldRetry(t, err)
     /\ place' = [place EXCEPT ![t] = "dead"]
     /\ retry' = [retry EXCEPT ![t] = @ + 1]
     /\ expires' = [expires EXCEPT ![t] = NoLimit]
     /\ ended' = [ended EXCEPT ![t] = IF err \in {"error", "broker"} THEN "spent" ELSE "permanent"]
     /\ Faults(f)
     /\ UNCHANGED <<score, failedAt>>
  \/ /\ ShouldRetry(t, err)
     /\ place' = [place EXCEPT ![t] = "delayed"]
     /\ retry' = [retry EXCEPT ![t] = @ + 1]
     /\ expires' = [expires EXCEPT ![t] = NoLimit]
     /\ failedAt' = [failedAt EXCEPT ![t] = now]
     /\ \E b \in NextBackoff(retry[t] + 1) : score' = [score EXCEPT ![t] = (now + b) \div Milli]
     /\ Faults(f)
     /\ UNCHANGED ended
  \/ StaysPending(t) /\ Faults(f + 1)

\* The message has passed the gate of routeExceededMaxRetry.
Deliverable(t) == place[t] = "ready" /\ retry[t] <= policy.maxRetry

\* The gate: a delivery count beyond MaxRetry sends the task to the DLQ.  An
\* error of MoveToDLQ is logged.
RouteExceeded(t) ==
  /\ place[t] = "ready"
  /\ retry[t] > policy.maxRetry
  /\ \/ /\ place' = [place EXCEPT ![t] = "dead"]
        /\ ended' = [ended EXCEPT ![t] = "spent"]
        /\ UNCHANGED <<retry, score, expires, failedAt, redisFaults>>
     \/ StaysPending(t) /\ Faults(1)
  /\ UNCHANGED <<policy, now, tat, keyEnds, deliveries, debt, runs, refused>>

\* The limiter grants a token, or none is needed.
Admit(t) ==
  /\ Deliverable(t)
  /\ IF Limited THEN TryConsume(LimitKey(t)) ELSE UNCHANGED <<tat, keyEnds, debt, refused>>
  /\ Execute(t)
  /\ UNCHANGED <<policy, now, retry, deliveries, score, failedAt, ended, redisFaults>>

\* TryConsume returns an error: the task runs without a token.
AdmitUnlimited(t) ==
  /\ Deliverable(t)
  /\ Limited
  /\ Faults(1)
  /\ Execute(t)
  /\ UNCHANGED <<policy, now, tat, keyEnds, retry, deliveries, score, debt, refused, failedAt, ended>>

\* Mutant: the task is due at once.
DueAtOnce(t) == now \div Milli

\* runAt of a refused task, as the delayed set stores it.
DueAfterWait(t) == (now + Wait(LimitKey(t)) * Milli) \div Milli

\* No token: DeferRateLimitedTask; the task is not charged.
Defer(t) ==
  /\ Deliverable(t)
  /\ Limited
  /\ Wait(LimitKey(t)) > 0
  /\ place' = [place EXCEPT ![t] = "delayed"]
  /\ score' = [score EXCEPT ![t] = DueAfterWait(t)]
  /\ refused' = [refused EXCEPT ![t] = @ + 1]
  /\ UNCHANGED <<policy, now, tat, keyEnds, retry, deliveries, expires, debt, runs, failedAt, ended, redisFaults>>

\* The deferral fails: its error reaches the retry middleware like a handler's.
DeferFails(t) ==
  /\ Deliverable(t)
  /\ Limited
  /\ Wait(LimitKey(t)) > 0
  /\ Charge(t, "broker", 1)
  /\ UNCHANGED <<policy, now, tat, keyEnds, deliveries, debt, runs, refused>>

\* The handler returns and CompleteTask settles the message, or fails.
Succeed(t) ==
  /\ place[t] = "running"
  /\ \/ /\ place' = [place EXCEPT ![t] = "done"]
        /\ expires' = [expires EXCEPT ![t] = NoLimit]
        /\ UNCHANGED <<retry, score, failedAt, ended, redisFaults>>
     \/ StaysPending(t) /\ Faults(1)
  /\ UNCHANGED <<policy, now, tat, keyEnds, deliveries, debt, runs, refused>>

\* The handler returns an error, panics (RecoveryMiddleware makes it one), or
\* does not exist.
FailWith(t, err) ==
  /\ place[t] = "running"
  /\ Charge(t, err, 0)
  /\ UNCHANGED <<policy, now, tat, keyEnds, deliveries, debt, runs, refused>>

\* The janitor claims the message and hands it to Process; the delivery count
\* replaces the retries of the body (applyDeliveryCount).  If XPENDING fails,
\* the count is taken to be 1.
ReclaimPending(t) ==
  /\ place[t] = "pending"
  /\ place' = [place EXCEPT ![t] = "ready"]
  /\ deliveries' = [deliveries EXCEPT ![t] = @ + 1]
  /\ \/ retry' = [retry EXCEPT ![t] = deliveries[t]] /\ UNCHANGED redisFaults
     \/ retry' = [retry EXCEPT ![t] = 0] /\ Faults(1)
  /\ UNCHANGED <<policy, now, tat, keyEnds, score, expires, debt, runs, refused, failedAt, ended>>

\* The scheduler compares the score with the current millisecond; it adds a new
\* stream entry.
PromoteDue(t) ==
  /\ place[t] = "delayed"
  /\ score[t] <= now \div Milli
  /\ place' = [place EXCEPT ![t] = "ready"]
  /\ deliveries' = [deliveries EXCEPT ![t] = 1]
  /\ score' = [score EXCEPT ![t] = 0]
  /\ failedAt' = [failedAt EXCEPT ![t] = -1]
  /\ UNCHANGED <<policy, now, tat, keyEnds, retry, expires, debt, runs, refused, ended, redisFaults>>

Tick ==
  /\ now < MaxTime
  /\ now' = now + 1
  /\ debt' = [k \in Keys |-> Larger(debt[k] - 1, 0)]
  /\ UNCHANGED <<policy, tat, keyEnds, place, retry, deliveries, score, expires, runs, refused, failedAt, ended, redisFaults>>

PolicyNext ==
  \/ Tick
  \/ \E t \in Submitted :
       \/ Admit(t) \/ AdmitUnlimited(t) \/ Defer(t) \/ DeferFails(t)
       \/ RouteExceeded(t) \/ Succeed(t) \/ ReclaimPending(t) \/ PromoteDue(t)
       \/ \E err \in Errors : FailWith(t, err)

-----------------------------------------------------------------------------
(* Properties. *)

\* Executions admitted with a token never run ahead of a bucket of max tokens
\* that regains one every emission interval, up to the half grain per token
\* that printing the TAT loses; the expiry of the key forgets nothing.
BucketAgrees == Limited => \A k \in Keys : debt[k] <= policy.max * policy.emission

\* A refused task that competes with nobody is refused at most twice: truncated
\* to its millisecond, the time it is given may come up to a millisecond before
\* the token, the next one does not.
DeferralsBounded == \A t \in Tasks : refused[t] <= 2

\* Waiting for a token costs no attempt.  While no call fails, a task is executed
\* at most MaxRetry times (once if MaxRetry is 0); a failed call can start its
\* count over at the delivery count, and so buys it MaxRetry - 1 more executions
\* (one at least).  It is dead-lettered for an ordinary error only when its
\* executions and the failed calls have used the budget.
RetryBudget ==
  LET budget == Larger(1, policy.maxRetry) IN
  \A t \in Tasks :
    /\ runs[t] <= budget + redisFaults * Larger(1, policy.maxRetry - 1)
    /\ place[t] = "dead" /\ ended[t] = "spent" => budget <= runs[t] + redisFaults

\* While Base * 2^Retry fits a Duration, a retry is due no later than MaxDelay
\* after the failure and, without jitter, no earlier than the smaller of the two
\* less the millisecond that truncating the score can take.
RetrySpacing ==
  \A t \in Tasks :
    place[t] = "delayed" /\ failedAt[t] >= 0 =>
      LET ideal == policy.base * 2 ^ retry[t] IN
      /\ score[t] <= (failedAt[t] + policy.maxDelay) \div Milli
      /\ ideal < 2 ^ (Width - 1) /\ ~policy.jitter
           => (score[t] + 1) * Milli > failedAt[t] + Smaller(ideal, policy.maxDelay)

\* A handler's context does not outlive the task's deadline, however late the
\* retries and deferrals before it made the task start.
ContextEnds ==
  \A t \in Tasks :
    place[t] = "running" /\ policy.deadline > 0 /\ now >= policy.deadline => expires[t] # NoLimit /\ expires[t] <= now

=============================================================================
