---------------------------- MODULE MCGateLogin -----------------------------
(* Instances of GateLogin for TLC. *)
EXTENDS GateLogin

(* One client logs in again or registers, the other only logs in.          *)
TwoAndOne == [c \in Conns |-> IF c = "c1" THEN 2 ELSE 1]

Patient == InputKinds \ {"retry", "burst"}
AllFaults == FaultKinds
=============================================================================
