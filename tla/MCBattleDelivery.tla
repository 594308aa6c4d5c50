-------------------------- MODULE MCBattleDelivery --------------------------
(* Instances of BattleDelivery for TLC. *)
EXTENDS BattleDelivery, TLC

NoFaults == {}
LossFaults == {"loss", "create", "run"}
CreateFault == {"create"}
AllFaults == FaultKinds

Symmetry == Permutations(Battles)
=============================================================================
