--------------------------- MODULE MCGateSession ----------------------------
(* Instances of GateSession for TLC. *)
EXTENDS GateSession, TLC

AllInputs == InputKinds
NoInputs == {}
AllFaults == FaultKinds
StreamFaults == {"timeout", "sendFails"}
NoFaults == {}

Symmetry == Permutations(Streams)
=============================================================================
