--------------------------- MODULE BattleFactory ----------------------------
(***************************************************************************)
(* battle/battle/internal/factory.go: a StartBattleReq and the             *)
(* configuration tables give the setup of a battle, or an error.  Which    *)
(* error is not told apart: a request is Buildable or it is not.           *)
(*                                                                         *)
(* An instance id is a number: a role's is the client's, a monster's is    *)
(* put together of its configuration and its position.                     *)
(***************************************************************************)
EXTENDS Integers, Sequences, SequencesExt

CONSTANT Collections, Faults
VARIABLES loaded, booting

Conf == INSTANCE ConfTables

NoId == 0

(* The request.  Of a skill or an equip the factory reads only the id of   *)
(* its configuration; levels, stars and refinements are never read.        *)
BattleType == {"UNSPECIFIED", "PVE", "PVP", "BOSS", "STORY", "TEST"}
RoleSkill == Nat
RoleEquip == Nat
Role == [id : Nat, config : Nat, skills : Seq(RoleSkill), equips : Seq(RoleEquip)]
StartBattleReq ==
    [type : BattleType, attackers : Seq(Role), defenders : Seq(Role), group : Nat]

validateBattleRequest(r) ==
    \/ /\ r.type \in {"PVE", "BOSS", "STORY", "TEST"}
       /\ r.attackers # <<>>
       /\ r.defenders = <<>>
       /\ r.group # NoId
    \/ /\ r.type = "PVP"
       /\ Len(r.attackers) = 1
       /\ Len(r.defenders) = 1
       /\ r.group = NoId

-----------------------------------------------------------------------------
HasAll(key, ids) == \A i \in DOMAIN ids : Conf!Has(key, ids[i])
GetAll(key, ids) == [i \in DOMAIN ids |-> Conf!Get(key, ids[i])]

(* buildRoleSkills: the role's skills, or else those of its configuration. *)
RoleSkills(role) ==
    IF role.skills # <<>> THEN role.skills ELSE Conf!Get("BattleRoleCfg", role.config).active

(* A role's or a monster's configuration, every skill and status of which  *)
(* is found.                                                               *)
Found(config, active) ==
    /\ Conf!Has("BattleSkillCfg", config.basic)
    /\ HasAll("BattleSkillCfg", active)
    /\ HasAll("BattleStatusCfg", config.statuses)

Unit(id, team, position, config, active) ==
    [id |-> id, team |-> team, position |-> position,
     maxHP |-> config.maxHP, attack |-> config.attack,
     defense |-> config.defense, speed |-> config.speed,
     basic |-> Conf!Get("BattleSkillCfg", config.basic),
     active |-> GetAll("BattleSkillCfg", active),
     initial |-> GetAll("BattleStatusCfg", config.statuses)]

(* What the equips add to each of the attributes.                          *)
applyRoleEquips(role, config) ==
    LET Worn(attribute) ==
          SumFunction([i \in DOMAIN role.equips |->
                         Conf!Get("BattleEquipCfg", role.equips[i])[attribute]])
    IN  [config EXCEPT !.maxHP = @ + Worn("maxHP"), !.attack = @ + Worn("attack"),
                       !.defense = @ + Worn("defense"), !.speed = @ + Worn("speed")]

RoleBuilds(role) ==
    /\ role.id # NoId
    /\ role.config # NoId
    /\ Conf!Has("BattleRoleCfg", role.config)
    /\ Found(Conf!Get("BattleRoleCfg", role.config), RoleSkills(role))
    /\ HasAll("BattleEquipCfg", role.equips)

buildRoleUnit(role, team) ==
    LET config == Conf!Get("BattleRoleCfg", role.config)
    IN  Unit(role.id, team, config.position, applyRoleEquips(role, config), RoleSkills(role))

(* "monster-<cfg>-<pos>": two members of a group differ in the position.   *)
MonsterId(m) == 100 * m.config + m.position

MonsterBuilds(m) ==
    /\ m.config # NoId
    /\ Conf!Has("BattleMonsterCfg", m.config)
    /\ LET config == Conf!Get("BattleMonsterCfg", m.config)
       IN  Found(config, config.active)

buildMonsterUnit(m) ==
    LET config == Conf!Get("BattleMonsterCfg", m.config)
    IN  Unit(MonsterId(m), "DEFENDER", m.position, config, config.active)

-----------------------------------------------------------------------------
(* ValidateBattleMonsterGroupCfg, and the units of the members.            *)
GroupBuilds(id) ==
    /\ Conf!Has("BattleMonsterGroupCfg", id)
    /\ LET members == Conf!Get("BattleMonsterGroupCfg", id)
       IN  /\ members # <<>>
           /\ IsInjective([i \in DOMAIN members |-> members[i].position])
           /\ \A i \in DOMAIN members : MonsterBuilds(members[i])

(* The attackers' positions differ: those of their configurations.         *)
AttackersBuild(roles) ==
    /\ \A i \in DOMAIN roles : RoleBuilds(roles[i])
    /\ IsInjective([i \in DOMAIN roles |->
                      Conf!Get("BattleRoleCfg", roles[i].config).position])

UnitsBuild(r) ==
    /\ AttackersBuild(r.attackers)
    /\ IF r.type = "PVP" THEN \A i \in DOMAIN r.defenders : RoleBuilds(r.defenders[i])
                         ELSE GroupBuilds(r.group)

buildBattleUnits(r) ==
    LET Roles(roles, team) == [i \in DOMAIN roles |-> buildRoleUnit(roles[i], team)]
        members == Conf!Get("BattleMonsterGroupCfg", r.group)
    IN  Roles(r.attackers, "ATTACKER") \o
        IF r.type = "PVP" THEN Roles(r.defenders, "DEFENDER")
                          ELSE [i \in DOMAIN members |-> buildMonsterUnit(members[i])]

(* newBattleFromRequest, up to engine.NewBattle.                           *)
Buildable(r) ==
    /\ validateBattleRequest(r)
    /\ Conf!Has("BattleRuleCfg", r.type)
    /\ UnitsBuild(r)

Setup(r) == [rules |-> Conf!Get("BattleRuleCfg", r.type), units |-> buildBattleUnits(r)]
=============================================================================
