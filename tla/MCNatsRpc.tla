----------------------------- MODULE MCNatsRpc ------------------------------
(* Instances of NatsRpc for TLC. *)
EXTENDS NatsRpc

TwoNodes == {"game", "battle"}

(* Two calls of one process to another, which casts back.                  *)
CallsAndCasts ==
    {[id |-> 1, from |-> "game", to |-> "battle", cast |-> FALSE],
     [id |-> 2, from |-> "game", to |-> "battle", cast |-> FALSE],
     [id |-> 3, from |-> "battle", to |-> "game", cast |-> TRUE]}

Caller == {"game"}

AllFaults == FaultKinds
=============================================================================
