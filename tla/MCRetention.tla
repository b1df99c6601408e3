----------------------------- MODULE MCRetention -----------------------------
(* Model values for the run of Retention.  The two halves of the janitor's  *)
(* work share nothing but its program counter; an instance has a stream in  *)
(* use or delayed tasks, and the janitor does all of its work in either.    *)
EXTENDS Retention, TLC

CONSTANTS c1, c2, c3, t1, t2, t3, t4

Focused == scheduled = {} \/ (lastId = 0 /\ ~group)

MCSpec == Init /\ [][Next /\ Focused']_vars /\ WF_vars(Janitor)

=============================================================================
