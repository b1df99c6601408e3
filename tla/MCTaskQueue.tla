----------------------------- MODULE MCTaskQueue -----------------------------
(* Values of the constants of TaskQueue for TLC. *)
EXTENDS TaskQueue, TLC

CONSTANTS t1, t2, t3, e1, e2, k1

\* No task is unique.
KeyOfNone == [t \in Tasks |-> NoKey]

\* All tasks compete for one key.
KeyOfAll == [t \in Tasks |-> k1]

ScopeSucceeded == [t \in Tasks |-> "UntilSucceeded"]

\* One task releases its lock on start, the others on failure.
ScopeMixed ==
  [t \in Tasks |-> IF t = t1 THEN "UntilStart" ELSE "UntilSuccess"]

\* t1 and t2 keep the lock until they succeed, t3 gives it up on an error.
ScopeKept ==
  [t \in Tasks |-> IF t = t3 THEN "UntilSuccess" ELSE "UntilSucceeded"]

Symmetry == Permutations(Executors)

=============================================================================
