--------------------------- MODULE MCTaskExecution ---------------------------
(* Model values for the run of TaskExecution. *)
EXTENDS TaskExecution

CONSTANTS t1

=============================================================================
