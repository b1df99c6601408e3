------------------------------ MODULE MCCronJobs ------------------------------
(* Model values for the runs of CronJobs. *)
EXTENDS CronJobs

CONSTANTS j1, v1, v2, a1, h1

=============================================================================
