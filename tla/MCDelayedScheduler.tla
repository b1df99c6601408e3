-------------------------- MODULE MCDelayedScheduler --------------------------
(* Model values for the run of DelayedScheduler.  Two tasks meet every      *)
(* combination of calls and faults; once all three were submitted, calls go *)
(* on only if nothing has failed.                                           *)
EXTENDS DelayedScheduler, TLC

CONSTANTS t1, t2, t3, s1, a1

\* The tasks of the unique key differ in nothing else.
UniqueTasksAlike == Permutations(UniqueTasks)

Focused ==
  \/ accepted # Tasks
  \/ faults = 0
  \/ deleted = {} /\ \A a \in Admins : apc[a] = "idle"

MCSpec == Init /\ [][Next /\ Focused']_vars

=============================================================================
