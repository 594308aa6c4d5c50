----------------------------- MODULE ConfTables -----------------------------
(***************************************************************************)
(* glconf: the configuration tables of a process.  Every table has a       *)
(* variable of its own that its loader stores into; a lookup in a table    *)
(* nobody loaded answers nil, as for an unknown id.                        *)
(***************************************************************************)
EXTENDS Integers, Sequences, SequencesExt

CONSTANTS
    Collections,    \* for each table, its records by id: MongoDB's or a test's
    Faults          \* "readFails": MongoDB fails, or a collection has a duplicate id

VARIABLES
    loaded,     \* the tables stored
    booting     \* of main: "no", "loaded", "failed", or "test"

confVars == <<loaded, booting>>

BattleKeys == {"BattleRoleCfg", "BattleSkillCfg", "BattleEquipCfg", "BattleMonsterCfg",
               "BattleMonsterGroupCfg", "BattleRuleCfg", "BattleStatusCfg"}
ConfKeys == BattleKeys \cup {"ActvOnlineCfg", "D2DailyGiftCfg"}

(* The rows of the battle tables, without the id they are found by.  An    *)
(* attribute modifier is signed; that the other amounts are not negative   *)
(* is an assumption: no code checks it.                                    *)
Status == {"STUN", "SILENCE", "DOT", "HOT", "ATTRIBUTE_MODIFIER"}
TargetRules == {"UNSPECIFIED", "SELF", "ENEMY_SINGLE", "ENEMY_ALL", "ALLY_LOWEST_HP"}
Ids == Seq(Nat)

BattleAttributeModifierCfg == [maxHP : Int, attack : Int, defense : Int, speed : Int]
BattleStatusCfg ==
    [kind : Status, duration : Nat, potency : Nat, modifier : BattleAttributeModifierCfg]
BattleEffectCfg == [kind : {"DAMAGE", "HEAL", "STATUS"}, coefficient : Nat, flat : Int]
BattleSkillCfg ==
    [id : Nat, cooldown : Nat, target : TargetRules, effects : Seq(BattleEffectCfg)]
BattleMonsterCfg ==
    [maxHP : Int, attack : Int, defense : Int, speed : Int,
     basic : Nat, active : Ids, statuses : Ids]
BattleRoleCfg ==
    [maxHP : Int, attack : Int, defense : Int, speed : Int, position : Nat,
     basic : Nat, active : Ids, statuses : Ids]
BattleMonsterGroupCfg == Seq([config : Nat, position : Nat])
BattleRuleCfg ==
    [threshold : Int, maxActions : Int, variance : Nat, critChance : Nat, critMultiplier : Nat]

Rows ==
    [BattleRoleCfg |-> BattleRoleCfg, BattleSkillCfg |-> BattleSkillCfg,
     BattleEquipCfg |-> BattleAttributeModifierCfg, BattleMonsterCfg |-> BattleMonsterCfg,
     BattleMonsterGroupCfg |-> BattleMonsterGroupCfg, BattleRuleCfg |-> BattleRuleCfg,
     BattleStatusCfg |-> BattleStatusCfg]

(* A skill is found by its own id: the table is indexed by the records'    *)
(* CfgID.                                                                  *)
CollectionsAssumption ==
    /\ \A key \in BattleKeys : \A id \in DOMAIN Collections[key] :
         Collections[key][id] \in Rows[key]
    /\ \A id \in DOMAIN Collections["BattleSkillCfg"] :
         Collections["BattleSkillCfg"][id].id = id

TypeOK ==
    /\ loaded \subseteq ConfKeys
    /\ booting \in {"no", "loaded", "failed", "test"}

Init == loaded = {} /\ booting = "no"

(* getBattleCfg: table.Get(id), or nil.                                    *)
Has(key, id) == key \in loaded /\ id \in DOMAIN Collections[key]
Get(key, id) == Collections[key][id]

-----------------------------------------------------------------------------
(* InitGameCfg: the tables LoadAllConfs knows, in the order it loads them. *)
InitGameCfg == <<"ActvOnlineCfg", "D2DailyGiftCfg">>

(* A table cannot be read, decoded or indexed; none of it is stored.       *)
ReadFails == "readFails" \in Faults

(* LoadAllConfs: the first table that cannot be read ends it; the tables   *)
(* before it stay stored, and main returns.                                *)
LoadAllConfs ==
    /\ booting = "no"
    /\ \/ /\ loaded' = loaded \cup ToSet(InitGameCfg)
          /\ booting' = "loaded"
       \/ /\ ReadFails
          /\ \E n \in 0 .. Len(InitGameCfg) - 1 :
               loaded' = loaded \cup ToSet(SubSeq(InitGameCfg, 1, n))
          /\ booting' = "failed"

(* SetBattleConfigsForTest and SetBattleStatusConfigsForTest.              *)
SetBattleConfigs ==
    /\ booting = "no"
    /\ loaded' = loaded \cup BattleKeys
    /\ booting' = "test"

=============================================================================
