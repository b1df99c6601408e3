------------------------------ MODULE MCDLQAdmin ------------------------------
(* Values of the constants of DLQAdmin for TLC. *)
EXTENDS DLQAdmin, TLC

CONSTANTS t1, a1, a2

=============================================================================
