--------------------------- MODULE MCPriorityWorker ---------------------------
(* Model values for the run of PriorityWorker. *)
EXTENDS PriorityWorker

CONSTANTS high, low, c1, c2

\* A queue without a weight and one with.
Weights == [q \in {high, low} |-> IF q = high THEN 2 ELSE 0]

=============================================================================
