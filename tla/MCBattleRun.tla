---------------------------- MODULE MCBattleRun -----------------------------
(* Instances of BattleRun for TLC. *)
EXTENDS BattleRun

Does(kind, coefficient, flat) == [kind |-> kind, coefficient |-> coefficient, flat |-> flat]
ASkill(id, cooldown, target, effects) ==
    [id |-> id, cooldown |-> cooldown, target |-> target, effects |-> effects]

Skills == <<
    ASkill(1, 0, "ENEMY_SINGLE", <<Does("DAMAGE", 1000, 0)>>),
    \* leeches' gift: what it hurts it heals, dead or not
    ASkill(2, 2, "ENEMY_SINGLE", <<Does("DAMAGE", 1500, 1), Does("HEAL", 500, 0)>>),
    ASkill(3, 3, "ENEMY_ALL", <<Does("DAMAGE", 500, 0), Does("STATUS", 0, 0)>>),
    ASkill(4, 1, "ALLY_LOWEST_HP", <<Does("HEAL", 1000, 1)>>),
    ASkill(5, 2, "SELF", <<Does("DAMAGE", 1000, 1), Does("HEAL", 0, 1)>>),
    \* a target rule the table does not set
    ASkill(6, 0, "UNSPECIFIED", <<Does("DAMAGE", 1000, 1)>>)>>

Modifies(maxHP, attack, speed) ==
    [maxHP |-> maxHP, attack |-> attack, defense |-> 0, speed |-> speed]
AStatus(kind, duration, potency, speed) ==
    [kind |-> kind, duration |-> duration, potency |-> potency,
     modifier |-> Modifies(0, 0, speed)]
Statuses == <<
    AStatus("STUN", 1, 0, 0), AStatus("SILENCE", 2, 0, 0),
    AStatus("DOT", 3, 2, 0), AStatus("HOT", 2, 2, 0),
    AStatus("ATTRIBUTE_MODIFIER", 2, 0, 4), AStatus("DOT", 0, 1, 0)>>

AMonster(maxHP, attack, defense, speed, active, statuses) ==
    [maxHP |-> maxHP, attack |-> attack, defense |-> defense, speed |-> speed,
     basic |-> 1, active |-> active, statuses |-> statuses]
Monsters == <<AMonster(7, 3, 1, 3, <<5, 2>>, <<1, 5>>), AMonster(6, 4, 0, 3, <<>>, <<2>>)>>
At(position, body) == ("position" :> position) @@ body
Roles == <<
    At(1, AMonster(9, 4, 1, 3, <<2, 3>>, <<3, 4>>)),
    At(2, AMonster(8, 3, 0, 7, <<4>>, <<6>>)),
    At(2, AMonster(6, 4, 0, 3, <<>>, <<3>>))>>

Member(conf, position) == [config |-> conf, position |-> position]
Groups == << <<Member(1, 1), Member(2, 2)>>, <<Member(2, 1), Member(2, 1)>>,
             <<Member(2, 1), Member(2, 2)>>, <<Member(9, 1)>> >>
Equips == <<Modifies(1, 1, -1), Modifies(0, 0, -3)>>
ARule(maxActions, variance, chance) ==
    [threshold |-> 5, maxActions |-> maxActions, variance |-> variance,
     critChance |-> chance, critMultiplier |-> 1500]

MCCollections == [key \in {"BattleRoleCfg", "BattleSkillCfg", "BattleEquipCfg",
                           "BattleMonsterCfg", "BattleMonsterGroupCfg", "BattleRuleCfg",
                           "BattleStatusCfg", "ActvOnlineCfg", "D2DailyGiftCfg"} |->
    CASE key = "BattleRoleCfg" -> Roles
      [] key = "BattleSkillCfg" -> Skills
      [] key = "BattleEquipCfg" -> Equips
      [] key = "BattleMonsterCfg" -> Monsters
      [] key = "BattleMonsterGroupCfg" -> Groups
      [] key = "BattleRuleCfg" -> [PVE |-> ARule(10, 300, 100), PVP |-> ARule(12, 300, 0)]
      [] key = "BattleStatusCfg" -> Statuses
      [] OTHER -> <<>>]

ARole(id, conf, skills, equips) ==
    [id |-> id, config |-> conf, skills |-> skills, equips |-> equips]
PVE(roles, group) == [type |-> "PVE", attackers |-> roles, defenders |-> <<>>, group |-> group]
PVP(left, right) == [type |-> "PVP", attackers |-> <<left>>, defenders |-> <<right>>, group |-> 0]

Builds == {<<>>, <<2, 3>>, <<4>>, <<5, 3>>}
Duels ==
    {PVP(ARole(1, c, s, e), ARole(2, d, t, <<>>)) :
        c, d \in 1 .. 3, s, t \in Builds, e \in {<<>>, <<1>>}}
Raids ==
    {PVE(<<ARole(1, c, s, e), ARole(2, 2, t, <<>>)>>, g) :
        c \in {1, 3}, s, t \in Builds, e \in {<<>>, <<1>>}, g \in {1, 3}}
Refused == {
    \* the same role against itself, and twice
    PVP(ARole(1, 3, <<>>, <<>>), ARole(1, 3, <<>>, <<>>)),
    PVE(<<ARole(1, 1, <<>>, <<>>), ARole(1, 2, <<>>, <<>>)>>, 1),
    \* a group's members in one position, a missing monster
    PVE(<<ARole(1, 2, <<>>, <<>>)>>, 2),
    PVE(<<ARole(1, 2, <<>>, <<>>)>>, 4),
    \* a missing skill, a speed of 0, and a type with no rules
    PVE(<<ARole(1, 2, <<9>>, <<>>)>>, 3),
    PVE(<<ARole(1, 3, <<>>, <<2>>)>>, 3),
    [PVE(<<ARole(1, 2, <<>>, <<>>)>>, 3) EXCEPT !.type = "BOSS"]}
Idle == {PVP(ARole(1, 1, <<6>>, <<>>), ARole(2, 2, <<6>>, <<>>))}
MCRequests == Idle \cup Duels \cup Raids \cup Refused

AnyBoot == {"main", "test"}
AnyFault == {"readFails"}
=============================================================================
