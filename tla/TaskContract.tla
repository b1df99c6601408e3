----------------------------- MODULE TaskContract -----------------------------
(***************************************************************************)
(* What a queue promises about a task, whatever happens inside: it is new  *)
(* until a client enqueues it, then queued until it ends or is dead        *)
(* lettered; a dead letter may be evicted; nothing that has ended comes    *)
(* back.                                                                   *)
(***************************************************************************)
CONSTANT Tasks

VARIABLE status

Statuses == {"new", "queued", "dead", "ended"}

Moves ==
  { <<"new", "queued">>,
    <<"queued", "dead">>,
    <<"queued", "ended">>,
    <<"dead", "ended">> }

Init == status = [t \in Tasks |-> "new"]

\* One script may move several tasks: it adds one and evicts others.
Next ==
  /\ status' \in [Tasks -> Statuses]
  /\ \A t \in Tasks :
       status'[t] = status[t] \/ <<status[t], status'[t]>> \in Moves

Spec == Init /\ [][Next]_status

=============================================================================
