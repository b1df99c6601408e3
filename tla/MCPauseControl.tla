---------------------------- MODULE MCPauseControl ----------------------------
(* Values of the constants of PauseControl for TLC. *)
EXTENDS PauseControl, TLC

CONSTANTS c1, c2, a1, a2

=============================================================================
