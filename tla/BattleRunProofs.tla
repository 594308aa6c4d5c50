-------------------------- MODULE BattleRunProofs ---------------------------
(***************************************************************************)
(* Proofs about BattleRun: types, the clock, the hit points a client       *)
(* shows, the outcome, cooldowns, and that nothing but the setup and the   *)
(* dice decides a battle.                                                  *)
(***************************************************************************)
EXTENDS BattleRun, BattleLemmas

(* The library's operators, as the instances of BattleRun name them.       *)
LEMMA SameMin == \A S : Engine!Min(S) = Min(S)
BY DEF Engine!Min, Min

LEMMA SameSum == \A f : Engine!SumFunction(f) = SumFunction(f) /\ Factory!SumFunction(f) = SumFunction(f)
BY DEF Engine!SumFunction, Engine!SumFunctionOnSet, Engine!FoldFunctionOnSet, Engine!MapThenFoldSet,
       Factory!SumFunction, Factory!SumFunctionOnSet, Factory!FoldFunctionOnSet, Factory!MapThenFoldSet,
       SumFunction, SumFunctionOnSet, FoldFunctionOnSet, MapThenFoldSet

LEMMA SameSeqs == \A S : Engine!SetToSeqs(S) = SetToSeqs(S)
BY DEF Engine!SetToSeqs, SetToSeqs, Engine!Cardinality, Cardinality, Engine!IsFiniteSet, IsFiniteSet

-----------------------------------------------------------------------------
(* What the factory makes of a unit, and the facts of a setup that the     *)
(* engine accepts.                                                         *)
UnitConfig ==
    {c \in [id : Nat, team : Engine!Teams, position : Nat,
            maxHP : Int, attack : Int, defense : Int, speed : Int,
            basic : Conf!BattleSkillCfg, active : Seq(Conf!BattleSkillCfg),
            initial : Seq(Conf!BattleStatusCfg)] :
       \A i, j \in DOMAIN c.active : c.active[i].id = c.active[j].id => c.active[i] = c.active[j]}

LEMMA RowsTyped ==
  ASSUME NEW key \in Conf!BattleKeys, NEW id, Factory!Conf!Has(key, id)
  PROVE  Factory!Conf!Get(key, id) \in Conf!Rows[key]
BY RunAssumption DEF Conf!CollectionsAssumption, Factory!Conf!Has, Factory!Conf!Get

LEMMA SkillsTyped ==
  ASSUME NEW id, Factory!Conf!Has("BattleSkillCfg", id)
  PROVE  /\ Factory!Conf!Get("BattleSkillCfg", id) \in Conf!BattleSkillCfg
         /\ Factory!Conf!Get("BattleSkillCfg", id).id = id
<1>1. Factory!Conf!Get("BattleSkillCfg", id) \in Conf!Rows["BattleSkillCfg"]
  BY RowsTyped DEF Conf!BattleKeys
<1>2. Factory!Conf!Get("BattleSkillCfg", id).id = id
  BY RunAssumption DEF Conf!CollectionsAssumption, Factory!Conf!Has, Factory!Conf!Get
<1>3. QED
  BY <1>1, <1>2 DEF Conf!Rows

(* A function on the places of a sequence is one.                          *)
LEMMA PlacesSeq ==
  ASSUME NEW X, NEW q \in Seq(X), NEW Y, NEW t, t = [i \in DOMAIN q |-> t[i]],
         \A i \in DOMAIN q : t[i] \in Y
  PROVE  t \in Seq(Y) /\ Len(t) = Len(q)
<1>1. t = [i \in 1 .. Len(q) |-> t[i]] /\ \A i \in 1 .. Len(q) : t[i] \in Y
  OBVIOUS
<1>2. QED
  BY <1>1

LEMMA PlacesIn ==
  ASSUME NEW X, NEW q \in Seq(X)
  PROVE  \A i \in DOMAIN q : q[i] \in X
OBVIOUS

LEMMA UnitTyped ==
  ASSUME NEW id \in Nat, NEW team \in Engine!Teams, NEW position \in Nat,
         NEW own, own.maxHP \in Int, own.attack \in Int, own.defense \in Int, own.speed \in Int,
         own.statuses \in Seq(Nat), NEW active \in Seq(Nat), Factory!Found(own, active)
  PROVE  Factory!Unit(id, team, position, own, active) \in UnitConfig
<1>1. Factory!Conf!Get("BattleSkillCfg", own.basic) \in Conf!BattleSkillCfg
  BY SkillsTyped DEF Factory!Found
<1>2. PICK a : a = Factory!GetAll("BattleSkillCfg", active)
  OBVIOUS
<1>3. /\ \A i \in DOMAIN active : /\ a[i] \in Conf!BattleSkillCfg
                                  /\ a[i].id = active[i]
      /\ DOMAIN a = DOMAIN active
  BY <1>2, SkillsTyped DEF Factory!Found, Factory!HasAll, Factory!GetAll
<1>4. a \in Seq(Conf!BattleSkillCfg)
  <2>1. a = [i \in DOMAIN active |-> a[i]]
    BY <1>2 DEF Factory!GetAll
  <2>2. QED
    BY <1>3, <2>1, PlacesSeq
<1>5. \A i, j \in DOMAIN a : a[i].id = a[j].id => a[i] = a[j]
  BY <1>2, <1>3 DEF Factory!GetAll
<1>6. PICK s : s = Factory!GetAll("BattleStatusCfg", own.statuses)
  OBVIOUS
<1>7. \A i \in DOMAIN own.statuses : s[i] \in Conf!BattleStatusCfg
  <2>1. ASSUME NEW i \in DOMAIN own.statuses PROVE s[i] \in Conf!Rows["BattleStatusCfg"]
    BY <1>6, RowsTyped DEF Factory!Found, Factory!HasAll, Factory!GetAll, Conf!BattleKeys
  <2>2. Conf!Rows["BattleStatusCfg"] = Conf!BattleStatusCfg
    BY DEF Conf!Rows
  <2>3. QED
    BY <2>1, <2>2
<1>8. s \in Seq(Conf!BattleStatusCfg)
  <2>1. s = [i \in DOMAIN own.statuses |-> s[i]]
    BY <1>6 DEF Factory!GetAll
  <2>2. QED
    BY <1>7, <2>1, PlacesSeq
<1>9. QED
  BY <1>1, <1>2, <1>4, <1>5, <1>6, <1>8 DEF Factory!Unit, UnitConfig

LEMMA EquipsTyped ==
  ASSUME NEW role \in Factory!Role, NEW own \in Conf!BattleRoleCfg,
         Factory!HasAll("BattleEquipCfg", role.equips),
         NEW worn, worn = Factory!applyRoleEquips(role, own)
  PROVE  /\ worn.maxHP \in Int /\ worn.attack \in Int /\ worn.defense \in Int /\ worn.speed \in Int
         /\ worn.basic = own.basic /\ worn.statuses = own.statuses
<1>1. \A i \in DOMAIN role.equips :
        Factory!Conf!Get("BattleEquipCfg", role.equips[i]) \in Conf!BattleAttributeModifierCfg
  <2>1. \A i \in DOMAIN role.equips :
          Factory!Conf!Get("BattleEquipCfg", role.equips[i]) \in Conf!Rows["BattleEquipCfg"]
    BY RowsTyped DEF Factory!HasAll, Conf!BattleKeys
  <2>2. Conf!Rows["BattleEquipCfg"] = Conf!BattleAttributeModifierCfg
    BY DEF Conf!Rows
  <2>3. QED
    BY <2>1, <2>2
<1>2. PICK D : D = DOMAIN role.equips /\ IsFiniteSet(D)
  <2>1. role.equips \in Seq(Factory!RoleEquip)
    BY DEF Factory!Role
  <2>2. DOMAIN role.equips = 1 .. Len(role.equips) /\ Len(role.equips) \in Nat
    BY <2>1
  <2>3. QED
    BY <2>2, FS_Interval
<1>3. ASSUME NEW a \in {"maxHP", "attack", "defense", "speed"}
      PROVE  Factory!SumFunction([i \in DOMAIN role.equips |->
               Factory!Conf!Get("BattleEquipCfg", role.equips[i])[a]]) \in Int
  <2>1. [i \in D |-> Factory!Conf!Get("BattleEquipCfg", role.equips[i])[a]] \in [D -> Int]
    BY <1>1, <1>2 DEF Conf!BattleAttributeModifierCfg
  <2>2. QED
    BY <1>2, <2>1, SameSum, SumInt
<1>4. QED
  <2>1. PICK m, a, d, s :
          /\ m \in Int /\ a \in Int /\ d \in Int /\ s \in Int
          /\ worn = [own EXCEPT !.maxHP = @ + m, !.attack = @ + a,
                                !.defense = @ + d, !.speed = @ + s]
    BY <1>3 DEF Factory!applyRoleEquips
  <2>2. QED
    BY <2>1 DEF Conf!BattleRoleCfg

LEMMA RoleTyped ==
  ASSUME NEW role \in Factory!Role, NEW team \in Engine!Teams, Factory!RoleBuilds(role)
  PROVE  Factory!buildRoleUnit(role, team) \in UnitConfig
<1>1. PICK own : own = Factory!Conf!Get("BattleRoleCfg", role.config)
  OBVIOUS
<1>2. own \in Conf!BattleRoleCfg
  <2>1. own \in Conf!Rows["BattleRoleCfg"]
    BY <1>1, RowsTyped DEF Factory!RoleBuilds, Conf!BattleKeys
  <2>2. QED
    BY <2>1 DEF Conf!Rows
<1>3. PICK worn : worn = Factory!applyRoleEquips(role, own)
  OBVIOUS
<1>4. /\ worn.maxHP \in Int /\ worn.attack \in Int /\ worn.defense \in Int /\ worn.speed \in Int
      /\ worn.basic = own.basic /\ worn.statuses = own.statuses
  BY <1>1, <1>2, <1>3, EquipsTyped DEF Factory!RoleBuilds
<1>5. Factory!RoleSkills(role) \in Seq(Nat)
  BY <1>1, <1>2 DEF Factory!RoleSkills, Factory!Role, Factory!RoleSkill, Conf!BattleRoleCfg, Conf!Ids
<1>6. Factory!Found(worn, Factory!RoleSkills(role))
  BY <1>1, <1>4 DEF Factory!RoleBuilds, Factory!Found
<1>7. own.statuses \in Seq(Nat) /\ own.position \in Nat /\ role.id \in Nat
  BY <1>2 DEF Conf!BattleRoleCfg, Conf!Ids, Factory!Role
<1>8. Factory!Unit(role.id, team, own.position, worn, Factory!RoleSkills(role)) \in UnitConfig
  BY <1>4, <1>5, <1>6, <1>7, UnitTyped
<1>9. QED
  BY <1>1, <1>3, <1>8 DEF Factory!buildRoleUnit

LEMMA MonsterTyped ==
  ASSUME NEW m \in [config : Nat, position : Nat], Factory!MonsterBuilds(m)
  PROVE  Factory!buildMonsterUnit(m) \in UnitConfig
<1>1. PICK own : own = Factory!Conf!Get("BattleMonsterCfg", m.config)
  OBVIOUS
<1>2. own \in Conf!BattleMonsterCfg
  <2>1. own \in Conf!Rows["BattleMonsterCfg"]
    BY <1>1, RowsTyped DEF Factory!MonsterBuilds, Conf!BattleKeys
  <2>2. QED
    BY <2>1 DEF Conf!Rows
<1>3. /\ own.maxHP \in Int /\ own.attack \in Int /\ own.defense \in Int /\ own.speed \in Int
      /\ own.statuses \in Seq(Nat) /\ own.active \in Seq(Nat)
  BY <1>2 DEF Conf!BattleMonsterCfg, Conf!Ids
<1>4. Factory!Found(own, own.active)
  BY <1>1 DEF Factory!MonsterBuilds
<1>5. Factory!MonsterId(m) \in Nat /\ "DEFENDER" \in Engine!Teams
  BY DEF Factory!MonsterId, Engine!Teams
<1>6. Factory!Unit(Factory!MonsterId(m), "DEFENDER", m.position, own, own.active) \in UnitConfig
  BY <1>3, <1>4, <1>5, UnitTyped
<1>7. QED
  BY <1>1, <1>6 DEF Factory!buildMonsterUnit

(* The setup of a request that can be built.                               *)
LEMMA SetupTyped ==
  ASSUME NEW r \in Factory!StartBattleReq, Factory!Buildable(r)
  PROVE  /\ Factory!Setup(r).rules \in Conf!BattleRuleCfg
         /\ Factory!Setup(r).units \in Seq(UnitConfig)
<1>1. Factory!Conf!Get("BattleRuleCfg", r.type) \in Conf!BattleRuleCfg
  <2>1. Factory!Conf!Get("BattleRuleCfg", r.type) \in Conf!Rows["BattleRuleCfg"]
    BY RowsTyped DEF Factory!Buildable, Conf!BattleKeys
  <2>2. QED
    BY <2>1 DEF Conf!Rows
<1>2. ASSUME NEW roles \in Seq(Factory!Role), NEW team \in Engine!Teams,
             \A i \in DOMAIN roles : Factory!RoleBuilds(roles[i])
      PROVE  [i \in DOMAIN roles |-> Factory!buildRoleUnit(roles[i], team)] \in Seq(UnitConfig)
  <2>1. PICK t : t = [i \in DOMAIN roles |-> Factory!buildRoleUnit(roles[i], team)]
    OBVIOUS
  <2>2. t = [i \in DOMAIN roles |-> t[i]] /\ \A i \in DOMAIN roles : t[i] \in UnitConfig
    BY <1>2, <2>1, RoleTyped
  <2>3. t \in Seq(UnitConfig)
    BY <2>2, PlacesSeq
  <2>4. QED
    BY <2>1, <2>3
<1>3. PICK members : members = Factory!Conf!Get("BattleMonsterGroupCfg", r.group)
  OBVIOUS
<1>4. CASE r.type # "PVP"
  <2>1. Factory!GroupBuilds(r.group)
    BY <1>4 DEF Factory!Buildable, Factory!UnitsBuild
  <2>2. members \in Seq([config : Nat, position : Nat])
    <3>1. members \in Conf!Rows["BattleMonsterGroupCfg"]
      BY <1>3, <2>1, RowsTyped DEF Factory!GroupBuilds, Conf!BattleKeys
    <3>2. QED
      BY <3>1 DEF Conf!Rows, Conf!BattleMonsterGroupCfg
  <2>3. PICK t : t = [i \in DOMAIN members |-> Factory!buildMonsterUnit(members[i])]
    OBVIOUS
  <2>4. t = [i \in DOMAIN members |-> t[i]] /\ \A i \in DOMAIN members : t[i] \in UnitConfig
    <3>1. \A i \in DOMAIN members : members[i] \in [config : Nat, position : Nat]
      BY <2>2, PlacesIn
    <3>2. \A i \in DOMAIN members : Factory!MonsterBuilds(members[i])
      BY <1>3, <2>1 DEF Factory!GroupBuilds
    <3>3. QED
      BY <2>3, <3>1, <3>2, MonsterTyped
  <2>5. t \in Seq(UnitConfig)
    BY <2>2, <2>4, PlacesSeq
  <2>6. PICK a : /\ a = [i \in DOMAIN r.attackers |-> Factory!buildRoleUnit(r.attackers[i], "ATTACKER")]
                 /\ a \in Seq(UnitConfig)
    BY <1>2 DEF Factory!Buildable, Factory!UnitsBuild, Factory!AttackersBuild, Factory!StartBattleReq,
                Engine!Teams
  <2>7. Factory!buildBattleUnits(r) = a \o t
    BY <1>3, <1>4, <2>3, <2>6 DEF Factory!buildBattleUnits
  <2>8. QED
    BY <1>1, <2>5, <2>6, <2>7 DEF Factory!Setup
<1>5. CASE r.type = "PVP"
  <2>1. PICK a : /\ a = [i \in DOMAIN r.attackers |-> Factory!buildRoleUnit(r.attackers[i], "ATTACKER")]
                 /\ a \in Seq(UnitConfig)
    BY <1>2 DEF Factory!Buildable, Factory!UnitsBuild, Factory!AttackersBuild, Factory!StartBattleReq,
                Engine!Teams
  <2>2. PICK t : /\ t = [i \in DOMAIN r.defenders |-> Factory!buildRoleUnit(r.defenders[i], "DEFENDER")]
                 /\ t \in Seq(UnitConfig)
    BY <1>2, <1>5 DEF Factory!Buildable, Factory!UnitsBuild, Factory!StartBattleReq, Engine!Teams
  <2>3. Factory!buildBattleUnits(r) = a \o t
    BY <1>5, <2>1, <2>2 DEF Factory!buildBattleUnits
  <2>4. QED
    BY <1>1, <2>1, <2>2, <2>3 DEF Factory!Setup
<1>6. QED
  BY <1>4, <1>5

-----------------------------------------------------------------------------
(* The setup of the battle that has started, and the types.                *)
Started == phase \notin {"none", "invalid"}
Acting == phase \in {"begin", "choose", "effects", "end"}

SetupOK ==
    /\ config \in Seq(UnitConfig)
    /\ ~ Started => config = <<>>
    /\ Started =>
         /\ rules \in Conf!BattleRuleCfg
         /\ rules.threshold > 0 /\ rules.maxActions > 0
         /\ \A u \in Us : config[u].maxHP > 0 /\ config[u].speed > 0
         /\ \A u, v \in Us : config[u].id = config[v].id => u = v
         /\ \A t \in Engine!Teams : \E u \in Us : config[u].team = t

PartialNat == UNION {[S -> Nat] : S \in SUBSET Nat}
UnitState == [hp : Nat, shown : Nat, gauge : Nat, cooldowns : PartialNat, statuses : PartialNat]

(* A unit's HP is within its maximum and is what a client shows.           *)
Fits(u, x) ==
    /\ x \in UnitState
    /\ x.hp <= config[u].maxHP
    /\ x.shown = x.hp
    /\ DOMAIN x.cooldowns = Engine!SkillIds(u)
    /\ DOMAIN x.statuses \subseteq DOMAIN config[u].initial

Strike == [target : Us, effect : Conf!BattleEffectCfg]

Types ==
    /\ Conf!TypeOK
    /\ phase \in Engine!Phases \ {"error"}
    /\ outcome \in Engine!Outcomes
    /\ tick \in Nat /\ action \in Nat
    /\ units \in [Us -> UnitState] /\ \A u \in Us : Fits(u, units[u])
    /\ turns \in [Us -> Nat]
    /\ lastUse \in [Us -> PartialNat]
    /\ \A u \in Us : DOMAIN lastUse[u] = Engine!SkillIds(u)
    /\ IF Acting THEN actor \in Us ELSE actor = NoUnit
    /\ IF phase = "choose" THEN due \subseteq DOMAIN units[actor].statuses ELSE due = {}
    /\ todo \in Seq(Strike)
    /\ phase # "effects" => todo = <<>>
    /\ ~ Started => tick = 0 /\ action = 0

LEMMA PartialTyped ==
  /\ \A f \in PartialNat : DOMAIN f \in SUBSET Nat /\ f = [i \in DOMAIN f |-> f[i]]
                           /\ \A i \in DOMAIN f : f[i] \in Nat
  /\ \A S \in SUBSET Nat : \A f \in [S -> Nat] : f \in PartialNat
BY DEF PartialNat

LEMMA UnitsNumbered ==
  ASSUME SetupOK
  PROVE  /\ Us = 1 .. Len(config) /\ Len(config) \in Nat
         /\ IsFiniteSet(Us) /\ Us \in SUBSET Nat
         /\ \A u \in Us : config[u] \in UnitConfig
<1>1. Us = 1 .. Len(config) /\ Len(config) \in Nat
  BY DEF SetupOK, Us, Engine!Us
<1>2. \A u \in Us : config[u] \in UnitConfig
  BY PlacesIn DEF SetupOK, Us, Engine!Us
<1>3. QED
  BY <1>1, <1>2, FS_Interval

(* What a unit's configuration holds.                                      *)
LEMMA ConfigTyped ==
  ASSUME SetupOK, NEW u \in Us
  PROVE  /\ config[u].id \in Nat /\ config[u].team \in Engine!Teams /\ config[u].position \in Nat
         /\ config[u].maxHP \in Int /\ config[u].attack \in Int /\ config[u].defense \in Int
         /\ config[u].speed \in Int
         /\ config[u].basic \in Conf!BattleSkillCfg
         /\ config[u].active \in Seq(Conf!BattleSkillCfg)
         /\ \A i \in DOMAIN config[u].active : config[u].active[i] \in Conf!BattleSkillCfg
         /\ \A i, j \in DOMAIN config[u].active :
              config[u].active[i].id = config[u].active[j].id => config[u].active[i] = config[u].active[j]
         /\ \A i \in DOMAIN config[u].initial : config[u].initial[i] \in Conf!BattleStatusCfg
         /\ DOMAIN config[u].initial \in SUBSET Nat
         /\ IsFiniteSet(DOMAIN config[u].initial)
<1>1. config[u] \in UnitConfig
  BY UnitsNumbered
<1>2. config[u].active \in Seq(Conf!BattleSkillCfg) /\ config[u].initial \in Seq(Conf!BattleStatusCfg)
  BY <1>1 DEF UnitConfig
<1>3. /\ \A i \in DOMAIN config[u].active : config[u].active[i] \in Conf!BattleSkillCfg
      /\ \A i \in DOMAIN config[u].initial : config[u].initial[i] \in Conf!BattleStatusCfg
  BY <1>2, PlacesIn
<1>4. DOMAIN config[u].initial = 1 .. Len(config[u].initial) /\ Len(config[u].initial) \in Nat
  BY <1>2
<1>5. IsFiniteSet(DOMAIN config[u].initial)
  BY <1>4, FS_Interval
<1>6. DOMAIN config[u].initial \in SUBSET Nat
  BY <1>4
<1>7. QED
  BY <1>1, <1>2, <1>3, <1>5, <1>6 DEF UnitConfig

(* What a unit's statuses may add to its speed at most.                    *)
HasteOf(c) == SumFunction([i \in DOMAIN c.initial |-> Engine!max(0, c.initial[i].modifier.speed)])
Haste(u) == HasteOf(config[u])
NeverHasty(u) == \A i \in DOMAIN config[u].initial : config[u].initial[i].modifier.speed = 0

LEMMA HasteTyped ==
  ASSUME NEW c \in UnitConfig
  PROVE  HasteOf(c) \in Int /\ HasteOf(c) >= 0
<1>1. c.initial \in Seq(Conf!BattleStatusCfg)
  BY DEF UnitConfig
<1>2. PICK D : D = DOMAIN c.initial /\ IsFiniteSet(D)
  <2>1. DOMAIN c.initial = 1 .. Len(c.initial) /\ Len(c.initial) \in Nat
    BY <1>1
  <2>2. QED
    BY <2>1, FS_Interval
<1>3. \A i \in D : c.initial[i].modifier.speed \in Int
  <2>1. \A i \in D : c.initial[i] \in Conf!BattleStatusCfg
    BY <1>1, <1>2, PlacesIn
  <2>2. QED
    BY <2>1 DEF Conf!BattleStatusCfg, Conf!BattleAttributeModifierCfg
<1>4. PICK h : h = [i \in D |-> Engine!max(0, c.initial[i].modifier.speed)]
  OBVIOUS
<1>5. h \in [D -> Int] /\ \A i \in D : 0 <= h[i]
  BY <1>3, <1>4 DEF Engine!max
<1>6. PICK z : z = [i \in D |-> 0]
  OBVIOUS
<1>7. z \in [D -> Int] /\ \A i \in D : z[i] = 0
  BY <1>6
<1>8. SumFunction(z) = 0 /\ SumFunction(z) <= SumFunction(h) /\ SumFunction(h) \in Int
  BY <1>2, <1>5, <1>7, SumZero, SumLeq, SumInt
<1>9. HasteOf(c) = SumFunction(h)
  BY <1>2, <1>4 DEF HasteOf
<1>10. QED
  BY <1>8, <1>9

(* What the statuses of a unit do to its attributes.                       *)
LEMMA ModifierTyped ==
  ASSUME SetupOK, NEW u \in Us
  PROVE  /\ \A a \in {"attack", "defense", "speed"} : Engine!Modifier(u, a) \in Int
         /\ Haste(u) \in Int /\ Haste(u) >= 0
         /\ Engine!Modifier(u, "speed") <= Haste(u)
         /\ NeverHasty(u) => Engine!Modifier(u, "speed") = 0
<1>1. PICK D : D = DOMAIN config[u].initial /\ IsFiniteSet(D)
  BY ConfigTyped
<1>2. \A i \in D : config[u].initial[i].modifier \in Conf!BattleAttributeModifierCfg
  BY <1>1, ConfigTyped DEF Conf!BattleStatusCfg
<1>3. \A i \in D : \A a \in {"attack", "defense", "speed"} : config[u].initial[i].modifier[a] \in Int
  BY <1>2 DEF Conf!BattleAttributeModifierCfg
<1>4. ASSUME NEW a \in {"attack", "defense", "speed"}
      PROVE  \E f \in [D -> Int] :
               /\ Engine!Modifier(u, a) = SumFunction(f)
               /\ f = [i \in D |-> IF i \in Engine!Left(u) THEN config[u].initial[i].modifier[a] ELSE 0]
  <2>1. PICK f : f = [i \in D |-> IF i \in Engine!Left(u) THEN config[u].initial[i].modifier[a] ELSE 0]
    OBVIOUS
  <2>2. f \in [D -> Int]
    BY <1>3, <2>1
  <2>3. Engine!Modifier(u, a) = SumFunction(f)
    BY <1>1, <2>1, SameSum DEF Engine!Modifier
  <2>4. QED
    BY <2>1, <2>2, <2>3
<1>5. \A a \in {"attack", "defense", "speed"} : Engine!Modifier(u, a) \in Int
  BY <1>1, <1>4, SumInt
<1>6. PICK h \in [D -> Int] :
        /\ Haste(u) = SumFunction(h)
        /\ h = [i \in D |-> Engine!max(0, config[u].initial[i].modifier.speed)]
  <2>1. PICK h : h = [i \in D |-> Engine!max(0, config[u].initial[i].modifier.speed)]
    OBVIOUS
  <2>2. h \in [D -> Int]
    BY <1>3, <2>1 DEF Engine!max
  <2>3. Haste(u) = SumFunction(h)
    BY <1>1, <2>1 DEF Haste, HasteOf
  <2>4. QED
    BY <2>1, <2>2, <2>3
<1>7. PICK f \in [D -> Int] :
        /\ Engine!Modifier(u, "speed") = SumFunction(f)
        /\ f = [i \in D |-> IF i \in Engine!Left(u) THEN config[u].initial[i].modifier.speed ELSE 0]
  BY <1>4
<1>8. \A i \in D : f[i] <= h[i] /\ 0 <= h[i]
  BY <1>3, <1>6, <1>7 DEF Engine!max
<1>9. SumFunction(f) <= SumFunction(h)
  BY <1>1, <1>8, SumLeq
<1>10. Haste(u) \in Int /\ Haste(u) >= 0
  BY HasteTyped, UnitsNumbered DEF Haste
<1>11. ASSUME NeverHasty(u) PROVE Engine!Modifier(u, "speed") = 0
  <2>1. \A i \in D : f[i] = 0
    BY <1>1, <1>7, <1>11 DEF NeverHasty
  <2>2. QED
    BY <1>1, <1>7, <2>1, SumZero
<1>12. QED
  BY <1>5, <1>6, <1>7, <1>9, <1>10, <1>11

LEMMA Strengths ==
  ASSUME SetupOK, Started, NEW u \in Us
  PROVE  /\ Engine!Attack(u) \in Nat /\ Engine!Defense(u) \in Nat
         /\ Engine!Speed(u) \in Nat \ {0}
         /\ Engine!Speed(u) <= config[u].speed + Haste(u)
         /\ NeverHasty(u) => Engine!Speed(u) = config[u].speed
<1>1. config[u].speed > 0 /\ config[u].speed \in Int /\ config[u].attack \in Int /\ config[u].defense \in Int
  BY ConfigTyped DEF SetupOK
<1>2. Engine!Attack(u) \in Nat
  <2>1. Engine!Modifier(u, "attack") \in Int
    BY ModifierTyped
  <2>2. QED
    BY <1>1, <2>1 DEF Engine!Attack, Engine!max
<1>3. Engine!Defense(u) \in Nat
  <2>1. Engine!Modifier(u, "defense") \in Int
    BY ModifierTyped
  <2>2. QED
    BY <1>1, <2>1 DEF Engine!Defense, Engine!max
<1>4. PICK m \in Int : m = Engine!Modifier(u, "speed")
  BY ModifierTyped
<1>5. Haste(u) \in Int /\ Haste(u) >= 0 /\ m <= Haste(u) /\ (NeverHasty(u) => m = 0)
  BY <1>4, ModifierTyped
<1>6. Engine!Speed(u) = IF 1 > config[u].speed + m THEN 1 ELSE config[u].speed + m
  BY <1>4 DEF Engine!Speed, Engine!max
<1>7. QED
  BY <1>1, <1>2, <1>3, <1>4, <1>5, <1>6

-----------------------------------------------------------------------------
(* What a strike, a cure or the tick of a status does to a unit.           *)
Struck(u, x, y) ==
    /\ Fits(u, y)
    /\ y.gauge = x.gauge /\ y.cooldowns = x.cooldowns /\ y.statuses = x.statuses
    /\ x.hp = 0 => y.hp = 0

LEMMA Spared ==
  ASSUME NEW u, NEW x, Fits(u, x)
  PROVE  Struck(u, x, x)
BY DEF Struck

LEMMA HurtStrikes ==
  ASSUME SetupOK, NEW u \in Us, NEW x, Fits(u, x), NEW n \in Nat
  PROVE  Struck(u, x, Engine!Hurt(x, n))
<1>1. PICK k \in 0 .. x.hp : k = Engine!min(n, x.hp)
  BY DEF Fits, UnitState, Engine!min
<1>2. Engine!Hurt(x, n) = [x EXCEPT !.hp = x.hp - k, !.shown = x.shown - k]
  BY <1>1 DEF Engine!Hurt, Engine!emit, Engine!BattleEvent, Fits, UnitState
<1>3. x.hp - k \in Nat /\ x.hp - k <= config[u].maxHP /\ x.shown - k = x.hp - k
      /\ (x.hp = 0 => x.hp - k = 0)
  BY <1>1, ConfigTyped DEF Fits, UnitState
<1>4. QED
  BY <1>2, <1>3 DEF Struck, Fits, UnitState

LEMMA CureHeals ==
  ASSUME SetupOK, NEW u \in Us, NEW x, Fits(u, x), x.hp > 0, NEW n \in Nat
  PROVE  Struck(u, x, Engine!Cure(x, n, config[u].maxHP))
<1>1. PICK h \in Nat : /\ h = Engine!min(config[u].maxHP, x.hp + n)
                       /\ h <= config[u].maxHP
  BY ConfigTyped DEF Fits, UnitState, Engine!min
<1>2. Engine!Cure(x, n, config[u].maxHP) = [x EXCEPT !.hp = h, !.shown = x.shown + (h - x.hp)]
  BY <1>1 DEF Engine!Cure, Engine!emit, Engine!BattleEvent, Fits, UnitState
<1>3. x.shown + (h - x.hp) = h
  BY <1>1 DEF Fits, UnitState
<1>4. Engine!Cure(x, n, config[u].maxHP) = [x EXCEPT !.hp = h, !.shown = h]
  BY <1>2, <1>3
<1>5. PICK y : y = Engine!Cure(x, n, config[u].maxHP)
  OBVIOUS
<1>6. /\ y \in UnitState /\ y.hp = h /\ y.shown = h
      /\ y.gauge = x.gauge /\ y.cooldowns = x.cooldowns /\ y.statuses = x.statuses
  BY <1>1, <1>4, <1>5 DEF Fits, UnitState
<1>7. x.hp # 0
  BY DEF Fits, UnitState
<1>8. Struck(u, x, y)
  BY <1>1, <1>6, <1>7 DEF Struck, Fits
<1>9. QED
  BY <1>5, <1>8

LEMMA TickStrikes ==
  ASSUME SetupOK, NEW u \in Us, Fits(u, units[u]), Engine!Alive(u), NEW status \in Conf!BattleStatusCfg
  PROVE  Struck(u, units[u], Engine!Ticked(u, status))
<1>1. status.potency \in Nat
  BY DEF Conf!BattleStatusCfg
<1>2. CASE status.kind = "DOT"
  BY <1>1, <1>2, HurtStrikes DEF Engine!Ticked
<1>3. CASE status.kind = "HOT"
  BY <1>1, <1>3, CureHeals DEF Engine!Ticked, Engine!Alive
<1>4. CASE status.kind \notin {"DOT", "HOT"}
  BY <1>4, Spared DEF Engine!Ticked
<1>5. QED
  BY <1>2, <1>3, <1>4

(* No roll of the damage pipeline is below 1.                              *)
LEMMA DamageHurts ==
  ASSUME SetupOK, Started, NEW u \in Us, NEW v \in Us, NEW e \in Conf!BattleEffectCfg,
         NEW n \in Engine!Damage(u, v, e)
  PROVE  n \in Nat \ {0}
<1>1. rules.variance \in Nat /\ rules.critMultiplier \in Nat
  BY DEF SetupOK, Conf!BattleRuleCfg
<1>2. e.coefficient \in Nat /\ e.flat \in Int
  BY DEF Conf!BattleEffectCfg
<1>3. PICK b : b = Engine!max(1, Engine!Attack(u) - Engine!Defense(v))
  OBVIOUS
<1>4. b \in Int
  BY <1>3, Strengths DEF Engine!max
<1>5. PICK base : base = (b * e.coefficient) \div 1000 + e.flat
  OBVIOUS
<1>6. base \in Int
  BY <1>2, <1>4, <1>5
<1>7. PICK m \in Engine!Varied(base), c \in Engine!Crits :
        n = Engine!max(1, IF c THEN (m * rules.critMultiplier) \div 1000 ELSE m)
  BY <1>3, <1>5 DEF Engine!Damage
<1>8. m \in Int
  BY <1>1, <1>6, <1>7 DEF Engine!Varied
<1>9. (m * rules.critMultiplier) \div 1000 \in Int
  BY <1>1, <1>8
<1>10. QED
  BY <1>7, <1>8, <1>9 DEF Engine!max

LEMMA HealHeals ==
  ASSUME SetupOK, Started, NEW u \in Us, NEW e \in Conf!BattleEffectCfg
  PROVE  Engine!HealAmount(u, e) \in Nat
<1>1. e.coefficient \in Nat /\ e.flat \in Int
  BY DEF Conf!BattleEffectCfg
<1>2. PICK a \in Nat : a = Engine!Attack(u)
  BY Strengths
<1>3. PICK k : k = (a * e.coefficient) \div 1000 + e.flat
  OBVIOUS
<1>4. k \in Int
  BY <1>1, <1>2, <1>3
<1>5. Engine!HealAmount(u, e) = Engine!max(0, k)
  BY <1>2, <1>3 DEF Engine!HealAmount
<1>6. QED
  BY <1>4, <1>5 DEF Engine!max

LEMMA EffectStrikes ==
  ASSUME SetupOK, Started, NEW u \in Us, NEW v \in Us, Fits(v, units[v]),
         NEW e \in Conf!BattleEffectCfg, NEW y \in Engine!Affected(u, v, e)
  PROVE  Struck(v, units[v], y)
<1>1. e.kind \in {"DAMAGE", "HEAL", "STATUS"}
  BY DEF Conf!BattleEffectCfg
<1>2. CASE ~ Engine!Alive(v) \/ e.kind = "STATUS"
  <2>1. y = units[v]
    BY <1>2 DEF Engine!Affected
  <2>2. QED
    BY <2>1, Spared
<1>3. CASE Engine!Alive(v) /\ e.kind = "DAMAGE"
  <2>1. PICK n \in Engine!Damage(u, v, e) : y = Engine!Hurt(units[v], n)
    BY <1>3 DEF Engine!Affected
  <2>2. n \in Nat
    BY <2>1, DamageHurts
  <2>3. QED
    BY <2>1, <2>2, HurtStrikes
<1>4. CASE Engine!Alive(v) /\ e.kind = "HEAL"
  <2>1. y = Engine!Cure(units[v], Engine!HealAmount(u, e), config[v].maxHP)
    BY <1>4 DEF Engine!Affected
  <2>2. units[v].hp > 0
    BY <1>4 DEF Engine!Alive
  <2>3. QED
    BY <2>1, <2>2, HealHeals, CureHeals
<1>5. QED
  BY <1>1, <1>2, <1>3, <1>4

-----------------------------------------------------------------------------
(* The clock.                                                              *)
LEMMA GaugesTyped ==
  ASSUME SetupOK, Started, Types, NEW u \in Us
  PROVE  /\ units[u] \in UnitState /\ Fits(u, units[u])
         /\ units[u].gauge \in Nat /\ units[u].hp \in Nat
         /\ rules.threshold \in Nat /\ rules.threshold > 0
         /\ rules.maxActions \in Nat /\ rules.maxActions > 0
BY DEF SetupOK, Types, UnitState, Conf!BattleRuleCfg

LEMMA TicksTold ==
  ASSUME SetupOK, Started, Types, NEW u \in Us
  PROVE  /\ Engine!TicksTo(u) \in Nat
         /\ Engine!Filled(u, Engine!TicksTo(u)) >= rules.threshold
         /\ \A k \in Nat : k < Engine!TicksTo(u) => Engine!Filled(u, k) < rules.threshold
<1>1. PICK s \in Nat \ {0} : s = Engine!Speed(u)
  BY Strengths
<1>2. PICK g \in Nat, t \in Nat : g = units[u].gauge /\ t = rules.threshold
  BY GaugesTyped
<1>3. \A k : Engine!Filled(u, k) = g + k * s
  BY <1>1, <1>2 DEF Engine!Filled
<1>4. CASE t - g > 0
  <2>1. PICK d : d = ((t - g) + s - 1) \div s
    OBVIOUS
  <2>2. Engine!TicksTo(u) = d
    BY <1>1, <1>2, <1>4, <2>1 DEF Engine!TicksTo
  <2>3. d \in Nat \ {0} /\ d * s >= t - g /\ (d - 1) * s < t - g
    <3>1. PICK need \in Nat \ {0} : need = t - g
      BY <1>2, <1>4
    <3>2. QED
      BY <1>1, <2>1, <3>1, RoundedUp
  <2>4. ASSUME NEW k \in Nat, k < d PROVE g + k * s < t
    <3>1. k * s <= (d - 1) * s
      BY <1>1, <2>3, <2>4, FewerTicks
    <3>2. k * s \in Int /\ (d - 1) * s \in Int
      BY <1>1, <2>3
    <3>3. QED
      BY <1>2, <2>3, <3>1, <3>2
  <2>5. g + d * s >= t
    <3>1. d * s \in Int
      BY <1>1, <2>3
    <3>2. QED
      BY <1>2, <2>3, <3>1
  <2>6. QED
    BY <1>2, <1>3, <2>2, <2>3, <2>4, <2>5
<1>5. CASE ~ (t - g > 0)
  <2>1. Engine!TicksTo(u) = 0
    BY <1>2, <1>5 DEF Engine!TicksTo
  <2>2. Engine!Filled(u, 0) = g
    BY <1>1, <1>2, <1>3
  <2>3. QED
    BY <1>2, <1>5, <2>1, <2>2
<1>6. QED
  BY <1>4, <1>5

(* Some unit lives as long as the battle is not a draw of the dead.        *)
LEMMA ClockExact ==
  ASSUME SetupOK, Started, Types, Engine!Living # {}
  PROVE  /\ Engine!Advance \in Nat
         /\ Engine!ReadyAfter(Engine!Advance) # {}
         /\ \A k \in Nat : k < Engine!Advance => Engine!ReadyAfter(k) = {}
<1>1. PICK S : S = {Engine!TicksTo(u) : u \in Engine!Living}
  OBVIOUS
<1>2. Engine!Living \subseteq Us
  BY DEF Engine!Living, Us
<1>3. S \in SUBSET Nat /\ S # {}
  BY <1>1, <1>2, TicksTold
<1>4. Engine!Advance = Min(S)
  BY <1>1, SameMin DEF Engine!Advance
<1>5. Engine!Advance \in S /\ \A y \in S : Engine!Advance <= y
  BY <1>3, <1>4, MinIsLeast
<1>6. PICK u \in Engine!Living : Engine!Advance = Engine!TicksTo(u)
  BY <1>1, <1>5
<1>7. u \in Engine!ReadyAfter(Engine!Advance)
  BY <1>2, <1>6, TicksTold DEF Engine!ReadyAfter
<1>8. ASSUME NEW k \in Nat, k < Engine!Advance, NEW v \in Engine!ReadyAfter(k) PROVE FALSE
  <2>1. v \in Engine!Living /\ Engine!Filled(v, k) >= rules.threshold
    BY <1>8 DEF Engine!ReadyAfter
  <2>2. k < Engine!TicksTo(v)
    BY <1>1, <1>2, <1>3, <1>5, <1>8, <2>1, TicksTold
  <2>3. Engine!Filled(v, k) < rules.threshold
    BY <1>2, <2>1, <2>2, TicksTold
  <2>4. Engine!Filled(v, k) \in Int /\ rules.threshold \in Int
    BY <1>2, <2>1, Strengths, GaugesTyped DEF Engine!Filled
  <2>5. QED
    BY <2>1, <2>3, <2>4
<1>9. QED
  BY <1>3, <1>5, <1>7, <1>8

LEMMA SomeoneLives ==
  ASSUME Engine!Decided = "UNSPECIFIED"
  PROVE  Engine!TeamAlive("ATTACKER") /\ Engine!TeamAlive("DEFENDER") /\ Engine!Living # {}
BY DEF Engine!Decided, Engine!TeamAlive, Engine!Living

-----------------------------------------------------------------------------
(* The skill a unit chooses is its basic one or one that is not cooling.   *)
LEMMA SkillChosen ==
  ASSUME SetupOK, NEW u \in Us, NEW skill, skill = Engine!chooseSkill(u)
  PROVE  /\ skill \in Conf!BattleSkillCfg
         /\ \/ skill = config[u].basic
            \/ \E i \in DOMAIN config[u].active :
                 skill = config[u].active[i] /\ units[u].cooldowns[skill.id] = 0
<1>1. PICK S : S = {i \in DOMAIN config[u].active : units[u].cooldowns[config[u].active[i].id] = 0}
  OBVIOUS
<1>2. CASE skill = config[u].basic
  BY <1>2, ConfigTyped
<1>3. CASE skill # config[u].basic
  <2>1. S # {} /\ skill = config[u].active[Min(S)]
    BY <1>1, <1>3, SameMin DEF Engine!chooseSkill
  <2>2. S \in SUBSET Nat
    <3>1. config[u].active \in Seq(Conf!BattleSkillCfg)
      BY ConfigTyped
    <3>2. DOMAIN config[u].active \subseteq Nat
      BY <3>1
    <3>3. QED
      BY <1>1, <3>2
  <2>3. PICK i : i = Min(S) /\ i \in S
    BY <2>1, <2>2, MinIsLeast
  <2>4. i \in DOMAIN config[u].active /\ units[u].cooldowns[config[u].active[i].id] = 0
    BY <1>1, <2>3
  <2>5. QED
    BY <2>1, <2>3, <2>4, ConfigTyped
<1>4. QED
  BY <1>2, <1>3

(* All that a skill hits is on one side, and the other side lives.         *)
Safe(t, hit) == Engine!TeamAlive(t) /\ \A i \in DOMAIN hit : config[hit[i]].team # t
OneSided(hit) == hit \in Seq(Us) /\ \E t \in Engine!Teams : Safe(t, hit)

LEMMA OneHit ==
  ASSUME NEW v \in Us, NEW t \in Engine!Teams, Engine!TeamAlive(t), config[v].team # t
  PROVE  OneSided(<<v>>)
<1>1. <<v>> \in Seq(Us) /\ \A i \in DOMAIN <<v>> : <<v>>[i] = v
  OBVIOUS
<1>2. QED
  BY <1>1 DEF OneSided, Safe

LEMMA AllSorted ==
  ASSUME SetupOK, NEW S \in SUBSET Us, NEW hit \in Engine!Sorted(S)
  PROVE  hit \in Seq(Us) /\ \A i \in DOMAIN hit : hit[i] \in S
<1>1. IsFiniteSet(S)
  BY UnitsNumbered, FS_Subset
<1>2. PICK n \in Nat : n = Cardinality(S)
  BY <1>1, FS_CardinalityType
<1>3. hit \in SetToSeqs(S)
  BY SameSeqs DEF Engine!Sorted
<1>4. hit \in [1 .. n -> S]
  BY <1>2, <1>3 DEF SetToSeqs
<1>5. QED
  BY <1>4

LEMMA TargetsOneSided ==
  ASSUME SetupOK, NEW u \in Us, Engine!Alive(u), Engine!Enemies(u) # {},
         NEW rule \in Conf!TargetRules, NEW hit \in Engine!targets(u, rule)
  PROVE  OneSided(hit)
<1>1. /\ Engine!Enemies(u) \in SUBSET Us
      /\ \A v \in Engine!Enemies(u) : Engine!Alive(v) /\ config[v].team # config[u].team
  BY DEF Engine!Enemies, Engine!Living, Us
<1>2. PICK w \in Engine!Enemies(u) : w \in Us
  BY <1>1
<1>3. config[u].team \in Engine!Teams /\ config[w].team \in Engine!Teams /\ config[u].team # config[w].team
  BY <1>1, <1>2, ConfigTyped
<1>4. Engine!TeamAlive(config[u].team) /\ Engine!TeamAlive(config[w].team)
  BY <1>1, <1>2 DEF Engine!TeamAlive, Us
<1>5. CASE rule = "SELF"
  <2>1. hit = <<u>>
    BY <1>5 DEF Engine!targets
  <2>2. QED
    BY <1>3, <1>4, <2>1, OneHit
<1>6. CASE rule = "ENEMY_ALL"
  <2>1. hit \in Engine!Sorted(Engine!Enemies(u))
    BY <1>6 DEF Engine!targets
  <2>2. hit \in Seq(Us) /\ \A i \in DOMAIN hit : hit[i] \in Engine!Enemies(u)
    BY <1>1, <2>1, AllSorted
  <2>3. QED
    BY <1>1, <1>3, <1>4, <2>2 DEF OneSided, Safe
<1>7. CASE rule = "ENEMY_SINGLE"
  <2>1. PICK v \in Engine!Enemies(u) : hit = <<v>>
    BY <1>7 DEF Engine!targets, Engine!FrontEnemies
  <2>2. v \in Us /\ config[v].team # config[u].team
    BY <1>1
  <2>3. OneSided(<<v>>)
    BY <1>3, <1>4, <2>2, OneHit
  <2>4. QED
    BY <2>1, <2>3
<1>8. CASE rule = "ALLY_LOWEST_HP"
  <2>1. PICK v \in Engine!Allies(u) : hit = <<v>>
    BY <1>8 DEF Engine!targets, Engine!WeakestAllies
  <2>2. v \in Us /\ config[v].team = config[u].team
    BY DEF Engine!Allies, Engine!Living, Us
  <2>3. OneSided(<<v>>)
    BY <1>3, <1>4, <2>2, OneHit
  <2>4. QED
    BY <2>1, <2>3
<1>9. CASE rule = "UNSPECIFIED"
  <2>1. hit = <<>>
    BY <1>9 DEF Engine!targets
  <2>2. QED
    BY <1>3, <1>4, <2>1 DEF OneSided, Safe
<1>10. QED
  BY <1>5, <1>6, <1>7, <1>8, <1>9 DEF Conf!TargetRules

(* The strikes of a skill: each on a unit it hits.                         *)
SafeFrom(t, strikes) ==
    Engine!TeamAlive(t) /\ \A k \in DOMAIN strikes : config[strikes[k].target].team # t

LEMMA StrikesTyped ==
  ASSUME NEW hit, OneSided(hit), NEW effects \in Seq(Conf!BattleEffectCfg),
         NEW strikes, strikes = Engine!EffectsOn(hit, effects)
  PROVE  /\ strikes \in Seq(Strike)
         /\ \E t \in Engine!Teams : SafeFrom(t, strikes)
<1>1. PICK m \in Nat, n \in Nat : m = Len(hit) /\ n = Len(effects)
  BY DEF OneSided
<1>2. strikes = [k \in 1 .. m * n |-> [target |-> hit[((k - 1) \div n) + 1],
                                       effect |-> effects[((k - 1) % n) + 1]]]
  BY <1>1 DEF Engine!EffectsOn
<1>3. m * n \in Nat
  BY <1>1
<1>4. PICK t \in Engine!Teams : Safe(t, hit)
  BY DEF OneSided
<1>5. /\ \A i \in 1 .. m : hit[i] \in Us /\ config[hit[i]].team # t
      /\ \A i \in 1 .. n : effects[i] \in Conf!BattleEffectCfg
  <2>1. hit \in Seq(Us) /\ DOMAIN hit = 1 .. m /\ DOMAIN effects = 1 .. n
    BY <1>1 DEF OneSided
  <2>2. QED
    BY <1>4, <2>1, PlacesIn DEF Safe
<1>6. ASSUME NEW k \in 1 .. m * n
      PROVE  strikes[k] \in Strike /\ config[strikes[k].target].team # t
  <2>1. PICK i, j : i = ((k - 1) \div n) + 1 /\ j = ((k - 1) % n) + 1
    OBVIOUS
  <2>2. i \in 1 .. m /\ j \in 1 .. n
    BY <1>1, <2>1, PlaceOf
  <2>3. strikes[k] = [target |-> hit[i], effect |-> effects[j]]
    BY <1>2, <2>1
  <2>4. QED
    BY <1>5, <2>2, <2>3 DEF Strike
<1>7. DOMAIN strikes = 1 .. m * n /\ strikes = [k \in 1 .. m * n |-> strikes[k]]
  BY <1>2
<1>8. strikes \in Seq(Strike)
  BY <1>3, <1>6, <1>7
<1>9. SafeFrom(t, strikes)
  BY <1>4, <1>6, <1>7 DEF SafeFrom, Safe
<1>10. QED
  BY <1>8, <1>9

-----------------------------------------------------------------------------
(* What each action does to the units.                                     *)
Setting == UNCHANGED <<rules, config>> /\ UNCHANGED confVars
OnlyUnit(u) == units' \in [Us -> UnitState] /\ \A v \in Us : v # u => units'[v] = units[v]

LEMMA OneChanged ==
  ASSUME units \in [Us -> UnitState], NEW u \in Us, NEW y \in UnitState,
         units' = [units EXCEPT ![u] = y]
  PROVE  OnlyUnit(u) /\ units'[u] = y
BY DEF OnlyUnit

LEMMA NextActorEffect ==
  ASSUME SetupOK, Types, Engine!NextActor, UNCHANGED confVars
  PROVE  /\ phase = "next" /\ phase' = "begin" /\ Setting
         /\ action < rules.maxActions /\ action' = action + 1
         /\ Engine!Decided = "UNSPECIFIED"
         /\ Engine!Advance \in Nat /\ tick' = tick + Engine!Advance
         /\ units' \in [Us -> UnitState]
         /\ \A u \in Us :
              /\ units'[u].hp = units[u].hp /\ units'[u].shown = units[u].shown
              /\ units'[u].cooldowns = units[u].cooldowns /\ units'[u].statuses = units[u].statuses
              /\ units'[u].gauge = IF Engine!Alive(u) THEN Engine!Filled(u, Engine!Advance)
                                                      ELSE units[u].gauge
         /\ actor' \in Us /\ Engine!Alive(actor')
         /\ Engine!Filled(actor', Engine!Advance) >= rules.threshold
         /\ UNCHANGED <<due, todo, outcome, turns, lastUse>>
<1>1. phase = "next" /\ Started
  BY DEF Engine!NextActor, Started
<1>2. Engine!Living # {}
  BY SomeoneLives DEF Engine!NextActor
<1>3. Engine!Advance \in Nat /\ Engine!ReadyAfter(Engine!Advance) # {}
  BY <1>1, <1>2, ClockExact
<1>4. PICK a \in Nat : a = Engine!Advance
  BY <1>3
<1>5. \A u \in Us : Engine!Filled(u, a) \in Nat
  <2>1. ASSUME NEW u \in Us PROVE Engine!Filled(u, a) \in Nat
    <3>1. PICK s \in Nat, g \in Nat : s = Engine!Speed(u) /\ g = units[u].gauge
      BY <1>1, Strengths, GaugesTyped
    <3>2. Engine!Filled(u, a) = g + a * s
      BY <3>1 DEF Engine!Filled
    <3>3. QED
      BY <1>4, <3>1, <3>2
  <2>2. QED
    BY <2>1
<1>6. units' = [u \in Us |-> IF Engine!Alive(u) THEN [units[u] EXCEPT !.gauge = Engine!Filled(u, a)]
                                                ELSE units[u]]
  BY <1>4 DEF Engine!NextActor, Us
<1>7. \A u \in Us :
        /\ units'[u] \in UnitState
        /\ units'[u].hp = units[u].hp /\ units'[u].shown = units[u].shown
        /\ units'[u].cooldowns = units[u].cooldowns /\ units'[u].statuses = units[u].statuses
        /\ units'[u].gauge = IF Engine!Alive(u) THEN Engine!Filled(u, a) ELSE units[u].gauge
  <2>1. units \in [Us -> UnitState]
    BY DEF Types
  <2>2. QED
    BY <1>5, <1>6, <2>1 DEF UnitState
<1>8. units' \in [Us -> UnitState]
  BY <1>6, <1>7
<1>9. actor' \in Engine!ReadyAfter(Engine!Advance) /\ action' = action + 1 /\ phase' = "begin"
  BY <1>3 DEF Engine!NextActor, Engine!FirstReady
<1>10. actor' \in Us /\ Engine!Alive(actor') /\ Engine!Filled(actor', Engine!Advance) >= rules.threshold
  BY <1>9 DEF Engine!ReadyAfter, Engine!Living, Us
<1>11. QED
  BY <1>1, <1>3, <1>4, <1>7, <1>8, <1>9, <1>10 DEF Engine!NextActor, Setting

LEMMA BeginActionEffect ==
  ASSUME SetupOK, Types, Engine!BeginAction, UNCHANGED confVars
  PROVE  /\ phase = "begin" /\ phase' = "choose" /\ Setting
         /\ actor \in Us /\ OnlyUnit(actor)
         /\ units'[actor].hp = units[actor].hp /\ units'[actor].shown = units[actor].shown
         /\ units'[actor].gauge = units[actor].gauge
         /\ units'[actor].statuses = units[actor].statuses
         /\ DOMAIN units'[actor].cooldowns = DOMAIN units[actor].cooldowns
         /\ \A s \in DOMAIN units[actor].cooldowns :
              units'[actor].cooldowns[s] >= units[actor].cooldowns[s] - 1
         /\ due' = DOMAIN units[actor].statuses
         /\ UNCHANGED <<tick, action, actor, todo, outcome, turns, lastUse>>
<1>1. actor \in Us /\ units \in [Us -> UnitState] /\ units[actor] \in UnitState
  BY DEF Engine!BeginAction, Types, Acting
<1>2. PICK c \in PartialNat : c = units[actor].cooldowns
  BY <1>1 DEF UnitState
<1>3. PICK d : d = Engine!Cooled(c)
  OBVIOUS
<1>4. DOMAIN c \in SUBSET Nat /\ \A s \in DOMAIN c : c[s] \in Nat
  BY PartialTyped
<1>5. d \in [DOMAIN c -> Nat] /\ \A s \in DOMAIN c : d[s] >= c[s] - 1
  BY <1>3, <1>4 DEF Engine!Cooled, Engine!max
<1>6. d \in PartialNat
  BY <1>4, <1>5, PartialTyped
<1>7. PICK y : y = [units[actor] EXCEPT !.cooldowns = d]
  OBVIOUS
<1>8. /\ y \in UnitState /\ y.cooldowns = d
      /\ y.hp = units[actor].hp /\ y.shown = units[actor].shown
      /\ y.gauge = units[actor].gauge /\ y.statuses = units[actor].statuses
  BY <1>1, <1>6, <1>7 DEF UnitState
<1>9. units' = [units EXCEPT ![actor] = y]
  BY <1>1, <1>2, <1>3, <1>7 DEF Engine!BeginAction
<1>10. OnlyUnit(actor) /\ units'[actor] = y
  BY <1>1, <1>8, <1>9, OneChanged
<1>11. QED
  BY <1>1, <1>2, <1>5, <1>8, <1>10 DEF Engine!BeginAction, Setting

LEMMA TickStatusEffect ==
  ASSUME SetupOK, Types, Engine!TickStatus, UNCHANGED confVars
  PROVE  /\ phase = "choose" /\ Setting /\ Engine!Alive(actor)
         /\ actor \in Us /\ OnlyUnit(actor)
         /\ Struck(actor, units[actor], units'[actor])
         /\ due' \subseteq due
         /\ UNCHANGED <<tick, action, phase, actor, todo, outcome, turns, lastUse>>
<1>1. phase = "choose" /\ due # {} /\ Engine!Alive(actor)
  BY DEF Engine!TickStatus, Engine!Ticking
<1>2. actor \in Us /\ units \in [Us -> UnitState] /\ Fits(actor, units[actor])
  BY <1>1 DEF Types, Acting
<1>3. due \subseteq DOMAIN config[actor].initial
  BY <1>1, <1>2 DEF Types, Fits
<1>4. PICK i \in DOMAIN config[actor].initial : i = Min(due) /\ i \in due
  <2>1. DOMAIN config[actor].initial \in SUBSET Nat
    BY <1>2, ConfigTyped
  <2>2. QED
    BY <1>1, <1>3, <2>1, MinIsLeast
<1>5. PICK status \in Conf!BattleStatusCfg : status = config[actor].initial[i]
  BY <1>2, ConfigTyped
<1>6. PICK y : y = Engine!Ticked(actor, status)
  OBVIOUS
<1>7. Struck(actor, units[actor], y)
  BY <1>1, <1>2, <1>6, TickStrikes
<1>8. units' = [units EXCEPT ![actor] = y] /\ due' = due \ {i}
  BY <1>4, <1>5, <1>6, SameMin DEF Engine!TickStatus
<1>9. OnlyUnit(actor) /\ units'[actor] = y
  BY <1>2, <1>7, <1>8, OneChanged DEF Struck, Fits
<1>10. QED
  BY <1>1, <1>2, <1>7, <1>8, <1>9 DEF Engine!TickStatus, Setting

LEMMA SkipEffect ==
  ASSUME SetupOK, Types, Engine!Skip, UNCHANGED confVars
  PROVE  /\ phase = "choose" /\ phase' = "end" /\ Setting /\ due' = {}
         /\ UNCHANGED <<units, tick, action, actor, todo, outcome, turns, lastUse>>
BY DEF Engine!Skip, Setting

(* A function to the naturals, changed at one place.                       *)
LEMMA PartialChanged ==
  ASSUME NEW f \in PartialNat, NEW i \in DOMAIN f, NEW n \in Nat, NEW g, g = [f EXCEPT ![i] = n]
  PROVE  /\ g \in PartialNat /\ DOMAIN g = DOMAIN f
         /\ \A j \in DOMAIN f : g[j] = IF j = i THEN n ELSE f[j]
<1>1. DOMAIN f \in SUBSET Nat /\ \A j \in DOMAIN f : f[j] \in Nat
  BY PartialTyped
<1>2. g = [j \in DOMAIN f |-> IF j = i THEN n ELSE f[j]]
  OBVIOUS
<1>3. g \in [DOMAIN f -> Nat]
  BY <1>1, <1>2
<1>4. QED
  BY <1>1, <1>2, <1>3, PartialTyped

(* The use of a skill: what starts to cool, and that it was used.          *)
Counts(skill) == skill.cooldown > 0 /\ skill.id # config[actor].basic.id
Used(skill) ==
    /\ skill \in Conf!BattleSkillCfg
    /\ \/ skill = config[actor].basic
       \/ \E i \in DOMAIN config[actor].active :
            skill = config[actor].active[i] /\ units[actor].cooldowns[skill.id] = 0
    /\ \A s \in Engine!SkillIds(actor) :
         units'[actor].cooldowns[s] = IF s = skill.id /\ Counts(skill) THEN skill.cooldown
                                      ELSE units[actor].cooldowns[s]
    /\ \A u \in Us : \A s \in Engine!SkillIds(u) :
         lastUse'[u][s] = IF u = actor /\ s = skill.id THEN turns[actor] + 1 ELSE lastUse[u][s]

LEMMA SkillNumbered ==
  ASSUME SetupOK, NEW u \in Us
  PROVE  /\ Engine!SkillIds(u) \in SUBSET Nat
         /\ \A i \in DOMAIN config[u].active : config[u].active[i].id \in Engine!SkillIds(u)
         /\ ToSet(config[u].active) = {config[u].active[i] : i \in DOMAIN config[u].active}
<1>1. \A i \in DOMAIN config[u].active : config[u].active[i].id \in Nat
  BY ConfigTyped DEF Conf!BattleSkillCfg
<1>2. Engine!SkillIds(u) = {config[u].active[i].id : i \in DOMAIN config[u].active}
  BY DEF Engine!SkillIds, Engine!ToSet
<1>3. QED
  BY <1>1, <1>2 DEF ToSet

LEMMA UseSkillEffect ==
  ASSUME SetupOK, Types, Engine!Enemies(actor) # {}, Engine!UseSkill, UNCHANGED confVars
  PROVE  /\ phase = "choose" /\ phase' = "effects" /\ Setting
         /\ actor \in Us /\ OnlyUnit(actor) /\ due = {}
         /\ units'[actor].hp = units[actor].hp /\ units'[actor].shown = units[actor].shown
         /\ units'[actor].gauge = units[actor].gauge
         /\ units'[actor].statuses = units[actor].statuses
         /\ DOMAIN units'[actor].cooldowns = DOMAIN units[actor].cooldowns
         /\ lastUse' \in [Us -> PartialNat]
         /\ \A u \in Us : DOMAIN lastUse'[u] = DOMAIN lastUse[u]
         /\ \E skill : Used(skill)
         /\ todo' \in Seq(Strike) /\ \E t \in Engine!Teams : SafeFrom(t, todo')
         /\ UNCHANGED <<tick, action, actor, due, outcome, turns>>
<1>1. phase = "choose" /\ Engine!Alive(actor) /\ due = {}
  BY DEF Engine!UseSkill, Engine!MaySkip, Engine!Ticking
<1>2. /\ actor \in Us /\ units \in [Us -> UnitState] /\ units[actor] \in UnitState
      /\ Fits(actor, units[actor]) /\ turns \in [Us -> Nat]
      /\ lastUse \in [Us -> PartialNat] /\ \A u \in Us : DOMAIN lastUse[u] = Engine!SkillIds(u)
  BY <1>1 DEF Types, Acting
<1>3. PICK skill : skill = Engine!chooseSkill(actor)
  OBVIOUS
<1>4. /\ skill \in Conf!BattleSkillCfg
      /\ \/ skill = config[actor].basic
         \/ \E i \in DOMAIN config[actor].active :
              skill = config[actor].active[i] /\ units[actor].cooldowns[skill.id] = 0
  BY <1>2, <1>3, SkillChosen
<1>5. skill.id \in Nat /\ skill.cooldown \in Nat /\ skill.target \in Conf!TargetRules
      /\ skill.effects \in Seq(Conf!BattleEffectCfg)
  BY <1>4 DEF Conf!BattleSkillCfg
<1>6. PICK hit \in Engine!targets(actor, skill.target) : todo' = Engine!EffectsOn(hit, skill.effects)
  BY <1>3 DEF Engine!UseSkill
<1>7. OneSided(hit)
  BY <1>1, <1>2, <1>5, <1>6, TargetsOneSided
<1>8. todo' \in Seq(Strike) /\ \E t \in Engine!Teams : SafeFrom(t, todo')
  BY <1>5, <1>6, <1>7, StrikesTyped
<1>9. PICK c \in PartialNat : c = units[actor].cooldowns /\ DOMAIN c = Engine!SkillIds(actor)
  BY <1>2 DEF UnitState, Fits
<1>10. Counts(skill) => skill.id \in DOMAIN c
  <2>1. ASSUME Counts(skill) PROVE \E i \in DOMAIN config[actor].active : skill = config[actor].active[i]
    BY <1>4, <2>1 DEF Counts
  <2>2. QED
    BY <1>2, <1>9, <2>1, SkillNumbered
<1>11. PICK d : d = IF Counts(skill) THEN [c EXCEPT ![skill.id] = skill.cooldown] ELSE c
  OBVIOUS
<1>12. /\ d \in PartialNat /\ DOMAIN d = DOMAIN c
       /\ \A s \in DOMAIN c : d[s] = IF s = skill.id /\ Counts(skill) THEN skill.cooldown ELSE c[s]
  BY <1>5, <1>10, <1>11, PartialChanged
<1>13. PICK y : y = [units[actor] EXCEPT !.cooldowns = d]
  OBVIOUS
<1>14. /\ y \in UnitState /\ y.cooldowns = d
       /\ y.hp = units[actor].hp /\ y.shown = units[actor].shown
       /\ y.gauge = units[actor].gauge /\ y.statuses = units[actor].statuses
  BY <1>2, <1>12, <1>13 DEF UnitState
<1>15. units' = [units EXCEPT ![actor] = y]
  <2>1. units' = IF Counts(skill) THEN [units EXCEPT ![actor].cooldowns[skill.id] = skill.cooldown]
                 ELSE units
    BY <1>3 DEF Engine!UseSkill, Counts
  <2>2. CASE Counts(skill)
    BY <1>2, <1>9, <1>11, <1>13, <2>1, <2>2 DEF UnitState
  <2>3. CASE ~ Counts(skill)
    <3>1. y = units[actor]
      BY <1>2, <1>9, <1>11, <1>13, <2>3 DEF UnitState
    <3>2. QED
      BY <1>2, <2>1, <2>3, <3>1
  <2>4. QED
    BY <2>2, <2>3
<1>16. OnlyUnit(actor) /\ units'[actor] = y
  BY <1>2, <1>14, <1>15, OneChanged
<1>17. PICK n \in Nat : n = turns[actor] + 1
  BY <1>2
<1>18. PICK l \in PartialNat : l = lastUse[actor] /\ DOMAIN l = Engine!SkillIds(actor)
  BY <1>2
<1>19. PICK k : k = IF skill.id \in DOMAIN l THEN [l EXCEPT ![skill.id] = n] ELSE l
  OBVIOUS
<1>20. /\ k \in PartialNat /\ DOMAIN k = DOMAIN l
       /\ \A s \in DOMAIN l : k[s] = IF s = skill.id THEN n ELSE l[s]
  BY <1>18, <1>19, PartialChanged
<1>21. lastUse' = [lastUse EXCEPT ![actor] = k]
  <2>1. lastUse' = IF skill.id \in Engine!SkillIds(actor)
                   THEN [lastUse EXCEPT ![actor][skill.id] = turns[actor] + 1]
                   ELSE lastUse
    BY <1>3 DEF Engine!UseSkill
  <2>2. CASE skill.id \in DOMAIN l
    BY <1>2, <1>17, <1>18, <1>19, <2>1, <2>2
  <2>3. CASE skill.id \notin DOMAIN l
    BY <1>2, <1>18, <1>19, <2>1, <2>3
  <2>4. QED
    BY <2>2, <2>3
<1>22. /\ lastUse' \in [Us -> PartialNat] /\ lastUse'[actor] = k
       /\ \A u \in Us : u # actor => lastUse'[u] = lastUse[u]
  BY <1>2, <1>20, <1>21
<1>23. \A u \in Us : DOMAIN lastUse'[u] = DOMAIN lastUse[u]
  BY <1>18, <1>20, <1>22
<1>24. Used(skill)
  <2>1. \A s \in Engine!SkillIds(actor) :
          units'[actor].cooldowns[s] = IF s = skill.id /\ Counts(skill) THEN skill.cooldown
                                       ELSE units[actor].cooldowns[s]
    BY <1>9, <1>12, <1>14, <1>16
  <2>2. \A u \in Us : \A s \in Engine!SkillIds(u) :
          lastUse'[u][s] = IF u = actor /\ s = skill.id THEN turns[actor] + 1 ELSE lastUse[u][s]
    BY <1>17, <1>18, <1>20, <1>22
  <2>3. QED
    BY <1>4, <2>1, <2>2 DEF Used
<1>25. QED
  BY <1>1, <1>2, <1>8, <1>9, <1>12, <1>14, <1>16, <1>22, <1>23, <1>24 DEF Engine!UseSkill, Setting

LEMMA ApplyEffectEffect ==
  ASSUME SetupOK, Types, Engine!ApplyEffect, UNCHANGED confVars
  PROVE  /\ phase = "effects" /\ Setting /\ todo # <<>>
         /\ Head(todo).target \in Us /\ OnlyUnit(Head(todo).target)
         /\ Struck(Head(todo).target, units[Head(todo).target], units'[Head(todo).target])
         /\ todo' \in Seq(Strike)
         /\ \A k \in DOMAIN todo' : k + 1 \in DOMAIN todo /\ todo'[k] = todo[k + 1]
         /\ UNCHANGED <<tick, action, phase, actor, due, outcome, turns, lastUse>>
<1>1. phase = "effects" /\ todo # <<>> /\ todo' = Tail(todo) /\ Started
  BY DEF Engine!ApplyEffect, Started
<1>2. /\ actor \in Us /\ units \in [Us -> UnitState] /\ \A u \in Us : Fits(u, units[u])
      /\ todo \in Seq(Strike)
  BY <1>1 DEF Types, Acting
<1>3. Head(todo) \in Strike
  BY <1>1, <1>2
<1>4. PICK v \in Us, e \in Conf!BattleEffectCfg : v = Head(todo).target /\ e = Head(todo).effect
  BY <1>3 DEF Strike
<1>5. PICK y \in Engine!Affected(actor, v, e) : units' = [units EXCEPT ![v] = y]
  BY <1>4 DEF Engine!ApplyEffect
<1>6. Struck(v, units[v], y)
  BY <1>1, <1>2, <1>5, EffectStrikes
<1>7. OnlyUnit(v) /\ units'[v] = y
  BY <1>2, <1>5, <1>6, OneChanged DEF Struck, Fits
<1>8. todo' \in Seq(Strike) /\ \A k \in DOMAIN todo' : k + 1 \in DOMAIN todo /\ todo'[k] = todo[k + 1]
  BY <1>1, <1>2
<1>9. QED
  BY <1>1, <1>4, <1>6, <1>7, <1>8 DEF Engine!ApplyEffect, Setting

LEMMA EndActionEffect ==
  ASSUME SetupOK, Types, Engine!EndAction, UNCHANGED confVars
  PROVE  /\ phase \in {"effects", "end"} /\ phase' = "next" /\ Setting /\ todo = <<>>
         /\ actor \in Us /\ actor' = NoUnit /\ OnlyUnit(actor)
         /\ units'[actor].hp = units[actor].hp /\ units'[actor].shown = units[actor].shown
         /\ units'[actor].cooldowns = units[actor].cooldowns
         /\ DOMAIN units'[actor].statuses \subseteq DOMAIN units[actor].statuses
         /\ units'[actor].gauge = Engine!Paid(units[actor].gauge)
         /\ turns' \in [Us -> Nat] /\ turns'[actor] = turns[actor] + 1
         /\ \A u \in Us : u # actor => turns'[u] = turns[u]
         /\ UNCHANGED <<tick, action, due, todo, outcome, lastUse>>
<1>1. phase \in {"effects", "end"} /\ todo = <<>> /\ Started
  BY DEF Engine!EndAction, Types, Started
<1>2. /\ actor \in Us /\ units \in [Us -> UnitState] /\ units[actor] \in UnitState
      /\ turns \in [Us -> Nat]
  BY <1>1 DEF Types, Acting
<1>3. PICK c \in PartialNat : c = units[actor].statuses
  BY <1>2 DEF UnitState
<1>4. PICK d : d = Engine!Expired(c)
  OBVIOUS
<1>5. DOMAIN c \in SUBSET Nat /\ \A s \in DOMAIN c : c[s] \in Nat
  BY PartialTyped
<1>6. PICK D : D = {j \in DOMAIN c : c[j] > 1}
  OBVIOUS
<1>7. d = [i \in D |-> c[i] - 1] /\ D \subseteq DOMAIN c
  BY <1>4, <1>6 DEF Engine!Expired
<1>8. d \in [D -> Nat] /\ D \in SUBSET Nat
  BY <1>5, <1>6, <1>7
<1>9. d \in PartialNat /\ DOMAIN d \subseteq DOMAIN c
  BY <1>7, <1>8, PartialTyped
<1>10. PICK g \in Nat : g = Engine!Paid(units[actor].gauge)
  BY <1>1, <1>2, GaugesTyped DEF Engine!Paid, Engine!max
<1>11. PICK y : y = [units[actor] EXCEPT !.statuses = d, !.gauge = g]
  OBVIOUS
<1>12. /\ y \in UnitState /\ y.statuses = d /\ y.gauge = g
       /\ y.hp = units[actor].hp /\ y.shown = units[actor].shown
       /\ y.cooldowns = units[actor].cooldowns
  BY <1>2, <1>9, <1>10, <1>11 DEF UnitState
<1>13. units' = [units EXCEPT ![actor] = y]
  BY <1>2, <1>3, <1>4, <1>10, <1>11 DEF Engine!EndAction, UnitState
<1>14. OnlyUnit(actor) /\ units'[actor] = y
  BY <1>2, <1>12, <1>13, OneChanged
<1>15. turns' = [turns EXCEPT ![actor] = @ + 1]
  BY DEF Engine!EndAction
<1>16. /\ turns' \in [Us -> Nat] /\ turns'[actor] = turns[actor] + 1
       /\ \A u \in Us : u # actor => turns'[u] = turns[u]
  BY <1>2, <1>15
<1>17. QED
  BY <1>1, <1>2, <1>3, <1>9, <1>10, <1>12, <1>14, <1>16 DEF Engine!EndAction, Setting

LEMMA FinishEffect ==
  ASSUME SetupOK, Types, Engine!Finish, UNCHANGED confVars
  PROVE  /\ phase = "next" /\ phase' = "ended" /\ Setting
         /\ Engine!Decided # "UNSPECIFIED" \/ action >= rules.maxActions
         /\ outcome' = Engine!Verdict
         /\ UNCHANGED <<units, tick, action, actor, due, todo, turns, lastUse>>
BY DEF Engine!Finish, Setting

(* A unit as a battle starts.                                              *)
LEMMA NewUnitTyped ==
  ASSUME NEW c \in UnitConfig, c.maxHP > 0, NEW x, x = Engine!NewUnit(c)
  PROVE  /\ x \in UnitState
         /\ x.hp = c.maxHP /\ x.shown = c.maxHP /\ x.gauge = 0
         /\ DOMAIN x.cooldowns = {a.id : a \in Engine!ToSet(c.active)}
         /\ DOMAIN x.statuses = DOMAIN c.initial
         /\ {a.id : a \in Engine!ToSet(c.active)} \in SUBSET Nat
<1>1. c.maxHP \in Int /\ c.active \in Seq(Conf!BattleSkillCfg) /\ c.initial \in Seq(Conf!BattleStatusCfg)
  BY DEF UnitConfig
<1>2. PICK S : S = {a.id : a \in Engine!ToSet(c.active)}
  OBVIOUS
<1>3. S \in SUBSET Nat
  <2>1. \A i \in DOMAIN c.active : c.active[i] \in Conf!BattleSkillCfg
    BY <1>1, PlacesIn
  <2>2. \A i \in DOMAIN c.active : c.active[i].id \in Nat
    BY <2>1 DEF Conf!BattleSkillCfg
  <2>3. QED
    BY <1>2, <2>2 DEF Engine!ToSet
<1>4. PICK f : f = [s \in S |-> 0]
  OBVIOUS
<1>5. f \in [S -> Nat] /\ DOMAIN f = S
  BY <1>4
<1>6. f \in PartialNat
  BY <1>3, <1>5, PartialTyped
<1>7. PICK D : D = DOMAIN c.initial /\ D \in SUBSET Nat
  <2>1. DOMAIN c.initial = 1 .. Len(c.initial) /\ Len(c.initial) \in Nat
    BY <1>1
  <2>2. QED
    BY <2>1
<1>8. PICK g : g = [i \in D |-> c.initial[i].duration]
  OBVIOUS
<1>9. g \in [D -> Nat] /\ DOMAIN g = D
  <2>1. \A i \in D : c.initial[i] \in Conf!BattleStatusCfg
    BY <1>1, <1>7, PlacesIn
  <2>2. QED
    BY <1>8, <2>1 DEF Conf!BattleStatusCfg
<1>10. g \in PartialNat
  BY <1>7, <1>9, PartialTyped
<1>11. x = [hp |-> c.maxHP, shown |-> c.maxHP, gauge |-> 0, cooldowns |-> f, statuses |-> g]
  BY <1>2, <1>4, <1>7, <1>8 DEF Engine!NewUnit
<1>12. QED
  BY <1>1, <1>2, <1>3, <1>5, <1>6, <1>7, <1>9, <1>10, <1>11 DEF UnitState

LEMMA StartRefused ==
  ASSUME Types, NEW r \in Requests, StartBattle(r), phase' # "next"
  PROVE  /\ phase = "none" /\ phase' = "invalid" /\ Setting
         /\ UNCHANGED <<units, tick, action, actor, due, todo, outcome, turns, lastUse>>
BY DEF StartBattle, Engine!NewBattle, Setting

LEMMA StartEffect ==
  ASSUME SetupOK, Types, NEW r \in Requests, StartBattle(r), phase' = "next"
  PROVE  /\ SetupOK' /\ ~ Started
         /\ units' = [u \in Us' |-> Engine!NewUnit(config'[u])]
         /\ turns' = [u \in Us' |-> 0]
         /\ lastUse' = [u \in Us' |-> [s \in {a.id : a \in Engine!ToSet(config'[u].active)} |-> 0]]
         /\ UNCHANGED <<tick, action, actor, due, todo, outcome>> /\ UNCHANGED confVars
<1>1. phase = "none" /\ ~ Started
  BY DEF StartBattle, Started
<1>2. Factory!Buildable(r) /\ Engine!NewBattle(Factory!Setup(r))
  BY DEF StartBattle
<1>3. PICK setup : setup = Factory!Setup(r)
  OBVIOUS
<1>4. r \in Factory!StartBattleReq
  BY RunAssumption
<1>5. setup.rules \in Conf!BattleRuleCfg /\ setup.units \in Seq(UnitConfig)
  BY <1>2, <1>3, <1>4, SetupTyped
<1>6. Engine!Valid(setup)
  BY <1>2, <1>3 DEF Engine!NewBattle
<1>7. /\ rules' = setup.rules /\ config' = setup.units
      /\ units' = [i \in DOMAIN setup.units |-> Engine!NewUnit(setup.units[i])]
      /\ turns' = [i \in DOMAIN setup.units |-> 0]
      /\ lastUse' = [i \in DOMAIN setup.units |->
                       [s \in {a.id : a \in Engine!ToSet(setup.units[i].active)} |-> 0]]
  BY <1>2, <1>3, <1>6 DEF Engine!NewBattle
<1>8. UNCHANGED <<tick, action, actor, due, todo, outcome>> /\ UNCHANGED confVars
  BY <1>2 DEF StartBattle, Engine!NewBattle
<1>9. Us' = DOMAIN config'
  BY DEF Us, Engine!Us
<1>10. Started'
  BY DEF Started
<1>11. rules' \in Conf!BattleRuleCfg /\ rules'.threshold > 0 /\ rules'.maxActions > 0
  BY <1>5, <1>6, <1>7 DEF Engine!Valid
<1>12. /\ \A u \in Us' : config'[u].maxHP > 0 /\ config'[u].speed > 0
       /\ \A u, v \in Us' : config'[u].id = config'[v].id => u = v
       /\ \A t \in Engine!Teams : \E u \in Us' : config'[u].team = t
  BY <1>6, <1>7, <1>9 DEF Engine!Valid
<1>13. SetupOK'
  BY <1>5, <1>7, <1>10, <1>11, <1>12 DEF SetupOK
<1>14. QED
  BY <1>1, <1>7, <1>8, <1>9, <1>13

-----------------------------------------------------------------------------
(* The setup stays, and so do the types.                                   *)
LEMMA SameSetting ==
  ASSUME Setting
  PROVE  /\ Us' = Us
         /\ \A u : /\ Engine!SkillIds(u)' = Engine!SkillIds(u)
                   /\ Haste(u)' = Haste(u)
                   /\ NeverHasty(u)' <=> NeverHasty(u)
         /\ Strike' = Strike
<1>1. config' = config /\ Us' = Us
  BY DEF Setting, Us, Engine!Us
<1>2. \A u : Engine!SkillIds(u)' = Engine!SkillIds(u)
  BY <1>1 DEF Engine!SkillIds
<1>3. \A u : Haste(u)' = Haste(u)
  BY <1>1 DEF Haste
<1>4. \A u : NeverHasty(u)' <=> NeverHasty(u)
  BY <1>1 DEF NeverHasty
<1>5. QED
  BY <1>1, <1>2, <1>3, <1>4 DEF Strike

LEMMA SetupStays ==
  ASSUME SetupOK, Setting, Started, Started'
  PROVE  SetupOK'
<1>1. config' = config /\ rules' = rules /\ Us' = Us
  BY SameSetting DEF Setting
<1>2. QED
  BY <1>1 DEF SetupOK

(* The hit points do not change.                                           *)
Unhurt ==
    /\ units' \in [Us -> UnitState]
    /\ \A u \in Us :
         /\ units'[u].hp = units[u].hp /\ units'[u].shown = units[u].shown
         /\ DOMAIN units'[u].cooldowns = DOMAIN units[u].cooldowns
         /\ DOMAIN units'[u].statuses \subseteq DOMAIN units[u].statuses

UnitsFit == units \in [Us -> UnitState] /\ \A u \in Us : Fits(u, units[u])

LEMMA UnhurtFits ==
  ASSUME Types, Setting, Unhurt
  PROVE  UnitsFit'
<1>1. Us' = Us /\ config' = config /\ \A u : Engine!SkillIds(u)' = Engine!SkillIds(u)
  BY SameSetting DEF Setting
<1>2. \A u \in Us : Fits(u, units[u])
  BY DEF Types
<1>3. ASSUME NEW u \in Us PROVE Fits(u, units[u])'
  BY <1>1, <1>2 DEF Unhurt, Fits
<1>4. QED
  BY <1>1, <1>3 DEF UnitsFit, Unhurt

LEMMA StruckFits ==
  ASSUME Types, Setting, NEW v \in Us, OnlyUnit(v), Struck(v, units[v], units'[v])
  PROVE  UnitsFit'
<1>1. Us' = Us /\ config' = config /\ \A u : Engine!SkillIds(u)' = Engine!SkillIds(u)
  BY SameSetting DEF Setting
<1>2. \A u \in Us : Fits(u, units[u])
  BY DEF Types
<1>3. ASSUME NEW u \in Us PROVE Fits(u, units[u])'
  <2>1. CASE u = v
    BY <1>1, <2>1 DEF Struck, Fits
  <2>2. CASE u # v
    BY <1>1, <1>2, <2>2 DEF OnlyUnit, Fits
  <2>3. QED
    BY <2>1, <2>2
<1>4. QED
  BY <1>1, <1>3 DEF UnitsFit, OnlyUnit

LEMMA UnhurtOne ==
  ASSUME Types, NEW u \in Us, OnlyUnit(u),
         units'[u].hp = units[u].hp, units'[u].shown = units[u].shown,
         DOMAIN units'[u].cooldowns = DOMAIN units[u].cooldowns,
         DOMAIN units'[u].statuses \subseteq DOMAIN units[u].statuses
  PROVE  Unhurt
BY DEF OnlyUnit, Unhurt

(* The rest of the types, where only the battle moves on.                  *)
Rest ==
    /\ phase \in Engine!Phases \ {"error"}
    /\ outcome \in Engine!Outcomes
    /\ tick \in Nat /\ action \in Nat
    /\ turns \in [Us -> Nat]
    /\ lastUse \in [Us -> PartialNat]
    /\ \A u \in Us : DOMAIN lastUse[u] = Engine!SkillIds(u)
    /\ IF Acting THEN actor \in Us ELSE actor = NoUnit
    /\ IF phase = "choose" THEN due \subseteq DOMAIN units[actor].statuses ELSE due = {}
    /\ todo \in Seq(Strike)
    /\ phase # "effects" => todo = <<>>

LEMMA TypesAre ==
  ASSUME Conf!TypeOK, UnitsFit, Rest, Started
  PROVE  Types
BY DEF Types, UnitsFit, Rest

LEMMA TablesTyped ==
  ASSUME Conf!TypeOK, UNCHANGED confVars
  PROVE  Conf!TypeOK'
BY DEF Conf!TypeOK, confVars

LEMMA RestNext ==
  ASSUME SetupOK, Types, UNCHANGED confVars, Engine!NextActor \/ Engine!BeginAction
  PROVE  SetupOK' /\ Types'
<1>1. CASE Engine!NextActor
  <2>1. /\ phase = "next" /\ phase' = "begin" /\ Setting /\ action' = action + 1
        /\ Engine!Advance \in Nat /\ tick' = tick + Engine!Advance
        /\ Unhurt /\ actor' \in Us
        /\ UNCHANGED <<due, todo, outcome, turns, lastUse>>
    BY <1>1, NextActorEffect DEF Unhurt
  <2>2. Us' = Us /\ Strike' = Strike /\ \A u : Engine!SkillIds(u)' = Engine!SkillIds(u)
    BY <2>1, SameSetting
  <2>3. Rest'
    BY <2>1, <2>2 DEF Types, Rest, Acting, Engine!Phases
  <2>4. SetupOK' /\ UnitsFit' /\ Started'
    BY <2>1, UnhurtFits, SetupStays DEF Started
  <2>5. Conf!TypeOK'
    BY TablesTyped DEF Types
  <2>6. QED
    BY <2>3, <2>4, <2>5, TypesAre DEF Types, UnitsFit, Rest
<1>2. CASE Engine!BeginAction
  <2>1. /\ phase = "begin" /\ phase' = "choose" /\ Setting
        /\ actor \in Us /\ Unhurt
        /\ units'[actor].statuses = units[actor].statuses
        /\ due' = DOMAIN units[actor].statuses
        /\ UNCHANGED <<tick, action, actor, todo, outcome, turns, lastUse>>
    <3>1. actor \in Us /\ OnlyUnit(actor)
      BY <1>2, BeginActionEffect
    <3>2. Unhurt
      BY <1>2, <3>1, BeginActionEffect, UnhurtOne
    <3>3. QED
      BY <1>2, <3>2, BeginActionEffect
  <2>2. Us' = Us /\ Strike' = Strike /\ \A u : Engine!SkillIds(u)' = Engine!SkillIds(u)
    BY <2>1, SameSetting
  <2>3. Rest'
    BY <2>1, <2>2 DEF Types, Rest, Acting, Engine!Phases
  <2>4. SetupOK' /\ UnitsFit' /\ Started'
    BY <2>1, UnhurtFits, SetupStays DEF Started
  <2>5. Conf!TypeOK'
    BY TablesTyped DEF Types
  <2>6. QED
    BY <2>3, <2>4, <2>5, TypesAre DEF Types, UnitsFit, Rest
<1>3. QED
  BY <1>1, <1>2

LEMMA TypesKept ==
  ASSUME SetupOK, Types, Started, Started', Setting, UnitsFit', Rest'
  PROVE  SetupOK' /\ Types'
<1>1. Conf!TypeOK'
  BY TablesTyped DEF Types, Setting
<1>2. QED
  BY <1>1, SetupStays DEF Types, UnitsFit, Rest

LEMMA RestTick ==
  ASSUME SetupOK, Types, UNCHANGED confVars, Engine!TickStatus
  PROVE  SetupOK' /\ Types'
<1>1. /\ phase = "choose" /\ Setting
      /\ actor \in Us /\ OnlyUnit(actor)
      /\ Struck(actor, units[actor], units'[actor])
      /\ due' \subseteq due
      /\ UNCHANGED <<tick, action, phase, actor, todo, outcome, turns, lastUse>>
  BY TickStatusEffect
<1>2. Us' = Us /\ Strike' = Strike /\ \A u : Engine!SkillIds(u)' = Engine!SkillIds(u)
  BY <1>1, SameSetting
<1>3. Rest'
  BY <1>1, <1>2 DEF Types, Rest, Acting, Engine!Phases, Struck
<1>4. UnitsFit' /\ Started /\ Started'
  BY <1>1, StruckFits DEF Started
<1>5. QED
  BY <1>1, <1>3, <1>4, TypesKept

LEMMA RestUse ==
  ASSUME SetupOK, Types, UNCHANGED confVars, Engine!Skip \/ Engine!UseSkill,
         phase = "choose" => Engine!Enemies(actor) # {}
  PROVE  SetupOK' /\ Types'
<1>1. CASE Engine!Skip
  <2>1. /\ phase = "choose" /\ phase' = "end" /\ Setting /\ due' = {}
        /\ UNCHANGED <<units, tick, action, actor, todo, outcome, turns, lastUse>>
    BY <1>1, SkipEffect
  <2>2. Us' = Us /\ Strike' = Strike /\ \A u : Engine!SkillIds(u)' = Engine!SkillIds(u)
    BY <2>1, SameSetting
  <2>3. Rest'
    BY <2>1, <2>2 DEF Types, Rest, Acting, Engine!Phases
  <2>4. Unhurt
    BY <2>1 DEF Types, Unhurt
  <2>5. UnitsFit' /\ Started /\ Started'
    BY <2>1, <2>4, UnhurtFits DEF Started
  <2>6. QED
    BY <2>1, <2>3, <2>5, TypesKept
<1>2. CASE Engine!UseSkill
  <2>1. phase = "choose"
    BY <1>2 DEF Engine!UseSkill
  <2>2. /\ phase' = "effects" /\ Setting
        /\ actor \in Us /\ OnlyUnit(actor) /\ due = {}
        /\ lastUse' \in [Us -> PartialNat]
        /\ \A u \in Us : DOMAIN lastUse'[u] = DOMAIN lastUse[u]
        /\ todo' \in Seq(Strike)
        /\ UNCHANGED <<tick, action, actor, due, outcome, turns>>
    BY <1>2, <2>1, UseSkillEffect
  <2>3. Us' = Us /\ Strike' = Strike /\ \A u : Engine!SkillIds(u)' = Engine!SkillIds(u)
    BY <2>2, SameSetting
  <2>4. Rest'
    BY <2>1, <2>2, <2>3 DEF Types, Rest, Acting, Engine!Phases
  <2>5. Unhurt
    BY <1>2, <2>1, <2>2, UseSkillEffect, UnhurtOne
  <2>6. UnitsFit' /\ Started /\ Started'
    BY <2>1, <2>2, <2>5, UnhurtFits DEF Started
  <2>7. QED
    BY <2>2, <2>4, <2>6, TypesKept
<1>3. QED
  BY <1>1, <1>2

LEMMA RestApply ==
  ASSUME SetupOK, Types, UNCHANGED confVars, Engine!ApplyEffect
  PROVE  SetupOK' /\ Types'
<1>1. PICK v : v = Head(todo).target
  OBVIOUS
<1>2. /\ phase = "effects" /\ Setting
      /\ v \in Us /\ OnlyUnit(v)
      /\ Struck(v, units[v], units'[v])
      /\ todo' \in Seq(Strike)
      /\ UNCHANGED <<tick, action, phase, actor, due, outcome, turns, lastUse>>
  BY <1>1, ApplyEffectEffect
<1>3. Us' = Us /\ Strike' = Strike /\ \A u : Engine!SkillIds(u)' = Engine!SkillIds(u)
  BY <1>2, SameSetting
<1>4. Rest'
  BY <1>2, <1>3 DEF Types, Rest, Acting, Engine!Phases
<1>5. UnitsFit' /\ Started /\ Started'
  BY <1>2, StruckFits DEF Started
<1>6. QED
  BY <1>2, <1>4, <1>5, TypesKept

LEMMA RestEnd ==
  ASSUME SetupOK, Types, UNCHANGED confVars, Engine!EndAction \/ Engine!Finish
  PROVE  SetupOK' /\ Types'
<1>1. CASE Engine!EndAction
  <2>1. /\ phase \in {"effects", "end"} /\ phase' = "next" /\ Setting
        /\ actor \in Us /\ actor' = NoUnit /\ OnlyUnit(actor) /\ todo = <<>>
        /\ turns' \in [Us -> Nat]
        /\ UNCHANGED <<tick, action, due, todo, outcome, lastUse>>
    BY <1>1, EndActionEffect
  <2>2. Us' = Us /\ Strike' = Strike /\ \A u : Engine!SkillIds(u)' = Engine!SkillIds(u)
    BY <2>1, SameSetting
  <2>3. Rest'
    BY <2>1, <2>2 DEF Types, Rest, Acting, Engine!Phases
  <2>4. Unhurt
    BY <1>1, <2>1, EndActionEffect, UnhurtOne
  <2>5. UnitsFit' /\ Started /\ Started'
    BY <2>1, <2>4, UnhurtFits DEF Started
  <2>6. QED
    BY <2>1, <2>3, <2>5, TypesKept
<1>2. CASE Engine!Finish
  <2>1. /\ phase = "next" /\ phase' = "ended" /\ Setting
        /\ outcome' = Engine!Verdict
        /\ UNCHANGED <<units, tick, action, actor, due, todo, turns, lastUse>>
    BY <1>2, FinishEffect
  <2>2. Us' = Us /\ Strike' = Strike /\ \A u : Engine!SkillIds(u)' = Engine!SkillIds(u)
    BY <2>1, SameSetting
  <2>3. Engine!Verdict \in Engine!Outcomes
    BY DEF Engine!Verdict, Engine!Decided, Engine!Outcomes
  <2>4. Rest'
    BY <2>1, <2>2, <2>3 DEF Types, Rest, Acting, Engine!Phases
  <2>5. Unhurt
    BY <2>1 DEF Types, Unhurt
  <2>6. UnitsFit' /\ Started /\ Started'
    BY <2>1, <2>5, UnhurtFits DEF Started
  <2>7. QED
    BY <2>1, <2>4, <2>6, TypesKept
<1>3. QED
  BY <1>1, <1>2

LEMMA RestStart ==
  ASSUME SetupOK, Types, NEW r \in Requests, StartBattle(r)
  PROVE  SetupOK' /\ Types'
<1>1. CASE phase' # "next"
  <2>1. /\ phase = "none" /\ phase' = "invalid" /\ Setting
        /\ UNCHANGED <<units, tick, action, actor, due, todo, outcome, turns, lastUse>>
    BY <1>1, StartRefused
  <2>2. /\ Us' = Us /\ Strike' = Strike /\ config' = config
        /\ \A u : Engine!SkillIds(u)' = Engine!SkillIds(u)
    BY <2>1, SameSetting DEF Setting
  <2>3. SetupOK'
    BY <2>1, <2>2 DEF SetupOK, Started
  <2>4. Conf!TypeOK'
    BY <2>1, TablesTyped DEF Types, Setting
  <2>5. Unhurt
    BY <2>1 DEF Types, Unhurt
  <2>6. UnitsFit'
    BY <2>1, <2>5, UnhurtFits
  <2>7. Rest' /\ ~ Started' /\ tick' = 0 /\ action' = 0
    BY <2>1, <2>2 DEF Types, Rest, Acting, Engine!Phases, Started
  <2>8. QED
    BY <2>3, <2>4, <2>6, <2>7 DEF Types, UnitsFit, Rest
<1>2. CASE phase' = "next"
  <2>1. /\ SetupOK' /\ ~ Started
        /\ units' = [u \in Us' |-> Engine!NewUnit(config'[u])]
        /\ turns' = [u \in Us' |-> 0]
        /\ lastUse' = [u \in Us' |-> [s \in {a.id : a \in Engine!ToSet(config'[u].active)} |-> 0]]
        /\ UNCHANGED <<tick, action, actor, due, todo, outcome>> /\ UNCHANGED confVars
    BY <1>2, StartEffect
  <2>2. Conf!TypeOK'
    BY <2>1, TablesTyped DEF Types
  <2>3. \A u \in Us' : config'[u] \in UnitConfig /\ config'[u].maxHP > 0
    <3>1. Us' = DOMAIN config' /\ config' \in Seq(UnitConfig) /\ Started'
      BY <1>2, <2>1 DEF Us, Engine!Us, SetupOK, Started
    <3>2. \A u \in Us' : config'[u] \in UnitConfig
      BY <3>1, PlacesIn
    <3>3. QED
      BY <2>1, <3>1, <3>2 DEF SetupOK
  <2>4. ASSUME NEW u \in Us'
        PROVE  /\ units'[u] \in UnitState /\ Fits(u, units[u])'
               /\ lastUse'[u] \in PartialNat /\ DOMAIN lastUse'[u] = Engine!SkillIds(u)'
    <3>1. PICK c, x : /\ c = config'[u] /\ c \in UnitConfig /\ c.maxHP > 0
                      /\ x = units'[u] /\ x = Engine!NewUnit(c)
      BY <2>1, <2>3
    <3>2. /\ x \in UnitState
          /\ x.hp = c.maxHP /\ x.shown = c.maxHP /\ x.gauge = 0
          /\ DOMAIN x.cooldowns = {a.id : a \in Engine!ToSet(c.active)}
          /\ DOMAIN x.statuses = DOMAIN c.initial
          /\ {a.id : a \in Engine!ToSet(c.active)} \in SUBSET Nat
      BY <3>1, NewUnitTyped
    <3>3. Engine!SkillIds(u)' = {a.id : a \in Engine!ToSet(c.active)}
      BY <3>1 DEF Engine!SkillIds
    <3>4. PICK S \in SUBSET Nat : S = {a.id : a \in Engine!ToSet(c.active)}
      BY <3>2
    <3>5. PICK z : z = [s \in S |-> 0]
      OBVIOUS
    <3>6. z \in [S -> Nat] /\ DOMAIN z = S
      BY <3>5
    <3>7. lastUse'[u] = z /\ z \in PartialNat
      BY <2>1, <3>1, <3>4, <3>5, <3>6, PartialTyped
    <3>8. c.maxHP \in Int
      BY <3>1 DEF UnitConfig
    <3>9. Fits(u, units[u])'
      BY <3>1, <3>2, <3>3, <3>8 DEF Fits
    <3>10. QED
      BY <3>1, <3>2, <3>3, <3>4, <3>6, <3>7, <3>9
  <2>5. units' \in [Us' -> UnitState] /\ turns' \in [Us' -> Nat] /\ lastUse' \in [Us' -> PartialNat]
    BY <2>1, <2>4
  <2>6. UnitsFit'
    BY <2>4, <2>5 DEF UnitsFit
  <2>7. todo' = <<>> /\ due' = {} /\ actor' = NoUnit
    BY <2>1 DEF Types, Acting, Started
  <2>8. Rest' /\ Started'
    <3>1. todo' \in Seq(Strike')
      BY <2>7
    <3>2. QED
      BY <1>2, <2>1, <2>4, <2>5, <2>7, <3>1 DEF Types, Rest, Acting, Engine!Phases, Started
  <2>9. QED
    BY <2>1, <2>2, <2>6, <2>8 DEF Types, UnitsFit, Rest
<1>3. QED
  BY <1>1, <1>2

LEMMA RestBoot ==
  ASSUME SetupOK, Types, Boot
  PROVE  SetupOK' /\ Types'
<1>1. UNCHANGED engineVars
  BY DEF Boot
<1>2. Conf!TypeOK'
  <2>1. Conf!InitGameCfg = <<"ActvOnlineCfg", "D2DailyGiftCfg">>
    BY DEF Conf!InitGameCfg
  <2>2. Conf!ToSet(Conf!InitGameCfg) \subseteq Conf!ConfKeys
    BY <2>1 DEF Conf!ToSet, Conf!ConfKeys
  <2>3. \A n \in 0 .. Len(Conf!InitGameCfg) - 1 :
          Conf!ToSet(SubSeq(Conf!InitGameCfg, 1, n)) \subseteq Conf!ConfKeys
    <3>1. ASSUME NEW n \in 0 .. 1
          PROVE  Conf!ToSet(SubSeq(<<"ActvOnlineCfg", "D2DailyGiftCfg">>, 1, n)) \subseteq Conf!ConfKeys
      BY DEF Conf!ToSet, Conf!ConfKeys
    <3>2. Len(Conf!InitGameCfg) - 1 = 1
      BY <2>1
    <3>3. QED
      BY <2>1, <3>1, <3>2
  <2>4. CASE Conf!LoadAllConfs
    BY <2>2, <2>3, <2>4 DEF Types, Conf!LoadAllConfs, Conf!TypeOK
  <2>5. CASE Conf!SetBattleConfigs
    BY <2>5 DEF Types, Conf!SetBattleConfigs, Conf!TypeOK, Conf!ConfKeys
  <2>6. QED
    BY <2>4, <2>5 DEF Boot
<1>3. SetupOK'
  BY <1>1 DEF SetupOK, engineVars, Started, Us, Engine!Us
<1>4. UnitsFit' /\ Rest' /\ (Started' <=> Started) /\ tick' = tick /\ action' = action
  BY <1>1 DEF Types, UnitsFit, Rest, Acting, Started, engineVars, Us, Engine!Us, Fits, Strike,
              Engine!SkillIds
<1>5. QED
  BY <1>2, <1>3, <1>4 DEF Types, UnitsFit, Rest

-----------------------------------------------------------------------------
(* Who is left: both teams until the actor's statuses tick, then its       *)
(* enemies, and then a team that none of its skill's effects is for.       *)
Survivors ==
    Started =>
      /\ action <= rules.maxActions
      /\ \E t \in Engine!Teams : Engine!TeamAlive(t)
      /\ phase = "begin" => Engine!Alive(actor)
      /\ phase \in {"begin", "choose"} => Engine!Enemies(actor) # {}
      /\ phase = "effects" => \E t \in Engine!Teams : SafeFrom(t, todo)
      /\ phase = "ended" => /\ outcome = Engine!Verdict
                            /\ Engine!Decided = "UNSPECIFIED" => action >= rules.maxActions

LEMMA LifeStays ==
  ASSUME Setting, \A u \in Us : units'[u].hp = units[u].hp
  PROVE  /\ \A u \in Us : Engine!Alive(u)' <=> Engine!Alive(u)
         /\ \A t : Engine!TeamAlive(t)' <=> Engine!TeamAlive(t)
         /\ \A u : Engine!Enemies(u)' = Engine!Enemies(u)
         /\ Engine!Decided' = Engine!Decided /\ Engine!Verdict' = Engine!Verdict
<1>1. config' = config /\ Engine!Us' = Engine!Us /\ Us = Engine!Us
  BY SameSetting DEF Setting, Us
<1>2. \A u \in Us : Engine!Alive(u)' <=> Engine!Alive(u)
  BY DEF Engine!Alive
<1>3. \A t : Engine!TeamAlive(t)' <=> Engine!TeamAlive(t)
  BY <1>1, <1>2 DEF Engine!TeamAlive
<1>4. \A u : Engine!Enemies(u)' = Engine!Enemies(u)
  BY <1>1, <1>2 DEF Engine!Enemies, Engine!Living
<1>5. Engine!Decided' = Engine!Decided
  BY <1>3 DEF Engine!Decided
<1>6. QED
  BY <1>2, <1>3, <1>4, <1>5 DEF Engine!Verdict

LEMMA TeamsDiffer ==
  ASSUME SetupOK, Engine!TeamAlive("ATTACKER"), Engine!TeamAlive("DEFENDER"), NEW u \in Us
  PROVE  Engine!Enemies(u) # {}
<1>1. config[u].team \in {"ATTACKER", "DEFENDER"}
  BY ConfigTyped DEF Engine!Teams
<1>2. QED
  BY <1>1 DEF Engine!TeamAlive, Engine!Enemies, Engine!Living

LEMMA SurvivorsMove ==
  ASSUME SetupOK, Types, Survivors, UNCHANGED confVars,
         Engine!NextActor \/ Engine!BeginAction \/ Engine!Skip \/ Engine!UseSkill
  PROVE  Survivors'
<1>1. CASE Engine!NextActor
  <2>1. /\ phase = "next" /\ phase' = "begin" /\ Setting
        /\ action < rules.maxActions /\ action' = action + 1
        /\ Engine!Decided = "UNSPECIFIED"
        /\ \A u \in Us : units'[u].hp = units[u].hp
        /\ actor' \in Us /\ Engine!Alive(actor')
    BY <1>1, NextActorEffect
  <2>2. Engine!TeamAlive("ATTACKER") /\ Engine!TeamAlive("DEFENDER")
    BY <2>1, SomeoneLives
  <2>3. PICK a : a = actor' /\ a \in Us /\ Engine!Alive(a)
    BY <2>1
  <2>4. /\ Engine!TeamAlive("ATTACKER")'
        /\ Engine!Alive(a)' /\ Engine!Enemies(a)' # {}
    BY <2>1, <2>2, <2>3, LifeStays, TeamsDiffer
  <2>5. Engine!Alive(actor)' /\ Engine!Enemies(actor)' # {}
    BY <2>3, <2>4 DEF Engine!Alive, Engine!Enemies
  <2>6. action' <= rules'.maxActions
    <3>1. rules.maxActions \in Nat /\ action \in Nat /\ rules' = rules
      BY <2>1 DEF SetupOK, Started, Types, Setting, Conf!BattleRuleCfg
    <3>2. QED
      BY <2>1, <3>1
  <2>7. QED
    BY <2>1, <2>4, <2>5, <2>6 DEF Survivors, Engine!Teams
<1>2. CASE Engine!BeginAction
  <2>1. /\ phase = "begin" /\ phase' = "choose" /\ Setting
        /\ actor \in Us /\ OnlyUnit(actor) /\ units'[actor].hp = units[actor].hp
        /\ UNCHANGED <<action, actor>>
    BY <1>2, BeginActionEffect
  <2>2. \A u \in Us : units'[u].hp = units[u].hp
    BY <2>1 DEF OnlyUnit
  <2>3. Engine!Enemies(actor)' # {}
    <3>1. Engine!Enemies(actor) # {} /\ actor' = actor
      BY <2>1 DEF Survivors, Started
    <3>2. PICK a : a = actor
      OBVIOUS
    <3>3. Engine!Enemies(a)' # {}
      BY <2>1, <2>2, <3>1, <3>2, LifeStays
    <3>4. QED
      BY <3>1, <3>2, <3>3 DEF Engine!Enemies
  <2>4. \E t \in Engine!Teams : Engine!TeamAlive(t)'
    BY <2>1, <2>2, LifeStays DEF Survivors, Started
  <2>5. QED
    BY <2>1, <2>3, <2>4 DEF Survivors, Started, Setting
<1>3. CASE Engine!Skip
  <2>1. /\ phase = "choose" /\ phase' = "end" /\ Setting
        /\ UNCHANGED <<units, action>>
    BY <1>3, SkipEffect
  <2>2. \E t \in Engine!Teams : Engine!TeamAlive(t)'
    BY <2>1, LifeStays DEF Survivors, Started
  <2>3. QED
    BY <2>1, <2>2 DEF Survivors, Started, Setting
<1>4. CASE Engine!UseSkill
  <2>1. Engine!Enemies(actor) # {} /\ phase = "choose"
    BY <1>4 DEF Survivors, Engine!UseSkill, Started
  <2>2. /\ phase' = "effects" /\ Setting
        /\ actor \in Us /\ OnlyUnit(actor) /\ units'[actor].hp = units[actor].hp
        /\ \E t \in Engine!Teams : SafeFrom(t, todo')
        /\ UNCHANGED <<action, actor>>
    BY <1>4, <2>1, UseSkillEffect
  <2>3. \A u \in Us : units'[u].hp = units[u].hp
    BY <2>2 DEF OnlyUnit
  <2>4. PICK t \in Engine!Teams : SafeFrom(t, todo')
    BY <2>2
  <2>5. Engine!TeamAlive(t)' /\ config' = config
    BY <2>2, <2>3, <2>4, LifeStays DEF SafeFrom, Setting
  <2>6. SafeFrom(t, todo)'
    BY <2>4, <2>5 DEF SafeFrom
  <2>7. action' <= rules'.maxActions
    BY <2>1, <2>2 DEF Survivors, Setting, Started
  <2>8. QED
    BY <2>2, <2>4, <2>5, <2>6, <2>7 DEF Survivors, Started
<1>5. QED
  BY <1>1, <1>2, <1>3, <1>4

LEMMA SurvivorsStrike ==
  ASSUME SetupOK, Types, Survivors, UNCHANGED confVars, Engine!TickStatus \/ Engine!ApplyEffect
  PROVE  Survivors'
<1>1. CASE Engine!TickStatus
  <2>1. /\ phase = "choose" /\ Setting
        /\ actor \in Us /\ OnlyUnit(actor)
        /\ UNCHANGED <<action, phase, actor>>
    BY <1>1, TickStatusEffect
  <2>2. PICK w \in Engine!Enemies(actor) : w \in Us /\ Engine!Alive(w) /\ config[w].team # config[actor].team
    BY <2>1 DEF Survivors, Started, Engine!Enemies, Engine!Living, Us
  <2>3. units'[w] = units[w] /\ config' = config /\ Engine!Us' = Us /\ Engine!Us = Us
    BY <2>1, <2>2, SameSetting DEF OnlyUnit, Setting, Us
  <2>4. Engine!Alive(w)'
    BY <2>2, <2>3 DEF Engine!Alive
  <2>5. Engine!Enemies(actor)' # {}
    BY <2>1, <2>2, <2>3, <2>4 DEF Engine!Enemies, Engine!Living
  <2>6. \E t \in Engine!Teams : Engine!TeamAlive(t)'
    <3>1. PICK t \in Engine!Teams : t = config[w].team
      BY <2>2, ConfigTyped
    <3>2. Engine!TeamAlive(t)'
      BY <2>2, <2>3, <2>4, <3>1 DEF Engine!TeamAlive
    <3>3. QED
      BY <3>2
  <2>7. action' <= rules'.maxActions
    BY <2>1 DEF Survivors, Setting, Started
  <2>8. QED
    BY <2>1, <2>5, <2>6, <2>7 DEF Survivors, Started
<1>2. CASE Engine!ApplyEffect
  <2>1. PICK v : v = Head(todo).target
    OBVIOUS
  <2>2. /\ phase = "effects" /\ Setting /\ todo # <<>> /\ v \in Us /\ OnlyUnit(v)
        /\ \A k \in DOMAIN todo' : k + 1 \in DOMAIN todo /\ todo'[k] = todo[k + 1]
        /\ UNCHANGED <<action, phase, actor>>
    BY <1>2, <2>1, ApplyEffectEffect
  <2>3. PICK t \in Engine!Teams : SafeFrom(t, todo)
    BY <2>2 DEF Survivors, Started
  <2>4. config[v].team # t
    <3>1. todo \in Seq(Strike)
      BY DEF Types
    <3>2. 1 \in DOMAIN todo /\ v = todo[1].target
      BY <2>1, <2>2, <3>1
    <3>3. QED
      BY <2>3, <3>2 DEF SafeFrom
  <2>5. PICK w \in Us : Engine!Alive(w) /\ config[w].team = t
    BY <2>3 DEF SafeFrom, Engine!TeamAlive, Us
  <2>6. units'[w] = units[w] /\ config' = config /\ Engine!Us' = Us
    BY <2>2, <2>4, <2>5, SameSetting DEF OnlyUnit, Setting, Us
  <2>7. Engine!TeamAlive(t)'
    BY <2>5, <2>6 DEF Engine!TeamAlive, Engine!Alive
  <2>8. SafeFrom(t, todo)'
    BY <2>2, <2>3, <2>6, <2>7 DEF SafeFrom
  <2>9. action' <= rules'.maxActions
    BY <2>2 DEF Survivors, Setting, Started
  <2>10. QED
    BY <2>2, <2>7, <2>8, <2>9 DEF Survivors, Started
<1>3. QED
  BY <1>1, <1>2

LEMMA SurvivorsEnd ==
  ASSUME SetupOK, Types, Survivors, UNCHANGED confVars, Engine!EndAction \/ Engine!Finish
  PROVE  Survivors'
<1>1. CASE Engine!EndAction
  <2>1. /\ phase \in {"effects", "end"} /\ phase' = "next" /\ Setting
        /\ actor \in Us /\ OnlyUnit(actor) /\ units'[actor].hp = units[actor].hp
        /\ UNCHANGED <<action>>
    BY <1>1, EndActionEffect
  <2>2. \A u \in Us : units'[u].hp = units[u].hp
    BY <2>1 DEF OnlyUnit
  <2>3. \E t \in Engine!Teams : Engine!TeamAlive(t)'
    BY <2>1, <2>2, LifeStays DEF Survivors, Started
  <2>4. action' <= rules'.maxActions
    BY <2>1 DEF Survivors, Setting, Started
  <2>5. QED
    BY <2>1, <2>3, <2>4 DEF Survivors
<1>2. CASE Engine!Finish
  <2>1. /\ phase = "next" /\ phase' = "ended" /\ Setting
        /\ Engine!Decided # "UNSPECIFIED" \/ action >= rules.maxActions
        /\ outcome' = Engine!Verdict
        /\ UNCHANGED <<units, action>>
    BY <1>2, FinishEffect
  <2>2. /\ \A t : Engine!TeamAlive(t)' <=> Engine!TeamAlive(t)
        /\ Engine!Decided' = Engine!Decided /\ Engine!Verdict' = Engine!Verdict
    BY <2>1, LifeStays
  <2>3. \E t \in Engine!Teams : Engine!TeamAlive(t)'
    BY <2>1, <2>2 DEF Survivors, Started
  <2>4. action' <= rules'.maxActions
    BY <2>1 DEF Survivors, Setting, Started
  <2>5. QED
    BY <2>1, <2>2, <2>3, <2>4 DEF Survivors, Setting
<1>3. QED
  BY <1>1, <1>2

LEMMA SurvivorsStart ==
  ASSUME SetupOK, Types, NEW r \in Requests, StartBattle(r)
  PROVE  Survivors'
<1>1. CASE phase' # "next"
  BY <1>1, StartRefused DEF Survivors, Started
<1>2. CASE phase' = "next"
  <2>1. /\ SetupOK' /\ ~ Started
        /\ units' = [u \in Us' |-> Engine!NewUnit(config'[u])]
        /\ UNCHANGED <<action>>
    BY <1>2, StartEffect
  <2>2. SetupOK' /\ Types' /\ Started'
    BY <1>2, RestStart DEF Started
  <2>3. "ATTACKER" \in Engine!Teams /\ Us' = Engine!Us'
    BY DEF Engine!Teams, Us
  <2>4. PICK u \in Us' : config'[u].team = "ATTACKER" /\ config'[u].maxHP > 0
    BY <2>2, <2>3 DEF SetupOK
  <2>5. units'[u].hp > 0
    BY <2>1, <2>4 DEF Engine!NewUnit
  <2>6. Engine!TeamAlive("ATTACKER")'
    BY <2>3, <2>4, <2>5 DEF Engine!TeamAlive, Engine!Alive
  <2>7. action' = 0 /\ rules'.maxActions > 0 /\ rules'.maxActions \in Int
    BY <2>1, <2>2 DEF Types, SetupOK, Conf!BattleRuleCfg
  <2>8. action' <= rules'.maxActions
    BY <2>7
  <2>9. QED
    BY <1>2, <2>3, <2>6, <2>8 DEF Survivors
<1>3. QED
  BY <1>1, <1>2

-----------------------------------------------------------------------------
(* The gauges: how far past the threshold one gets, and that the actor     *)
(* can pay for its action.                                                 *)
Bounded(u) == units[u].gauge <= rules.threshold - 1 + config[u].speed + Haste(u)
TurnsPaid(u) ==
    Engine!Alive(u) /\ NeverHasty(u) =>
      units[u].gauge + rules.threshold * turns[u] = tick * config[u].speed

Filling ==
    Started =>
      /\ \A u \in Us : Bounded(u)
      /\ Acting => units[actor].gauge >= rules.threshold
      /\ \A u \in Us : TurnsPaid(u)

(* The dead stay dead.                                                     *)
NoneRises == \A u \in Us : units[u].hp = 0 => units'[u].hp = 0

LEMMA GaugesStay ==
  ASSUME SetupOK, Types, Types', Filling, Setting, Started, Started', NoneRises,
         \A u \in Us : units'[u].gauge = units[u].gauge,
         UNCHANGED <<turns, tick>>, Acting' => Acting /\ actor' = actor
  PROVE  Filling'
<1>1. rules' = rules /\ config' = config /\ Us' = Us
      /\ \A u : Haste(u)' = Haste(u) /\ (NeverHasty(u)' <=> NeverHasty(u))
  BY SameSetting DEF Setting
<1>2. ASSUME NEW u \in Us PROVE Bounded(u)' /\ TurnsPaid(u)'
  <2>1. Engine!Alive(u)' => Engine!Alive(u)
    <3>1. units[u].hp \in Nat /\ units'[u].hp \in Nat
      BY <1>1 DEF Types, UnitState
    <3>2. QED
      BY <3>1 DEF NoneRises, Engine!Alive
  <2>2. Bounded(u) /\ TurnsPaid(u)
    BY DEF Filling
  <2>3. QED
    BY <1>1, <2>1, <2>2 DEF Bounded, TurnsPaid
<1>3. Acting' => units'[actor'].gauge >= rules'.threshold
  BY <1>1 DEF Filling, Types
<1>4. QED
  BY <1>1, <1>2, <1>3 DEF Filling

LEMMA Distributes ==
  ASSUME NEW a \in Int, NEW b \in Int, NEW c \in Int
  PROVE  /\ (a + b) * c = a * c + b * c /\ a * (b + c) = a * b + a * c
         /\ a * c \in Int /\ b * c \in Int /\ a * b \in Int /\ a * 1 = a
OBVIOUS

LEMMA FillingNext ==
  ASSUME SetupOK, Types, Filling, UNCHANGED confVars, Engine!NextActor
  PROVE  Filling'
<1>1. /\ phase = "next" /\ phase' = "begin" /\ Setting
      /\ Engine!Decided = "UNSPECIFIED"
      /\ Engine!Advance \in Nat /\ tick' = tick + Engine!Advance
      /\ \A u \in Us :
           /\ units'[u].hp = units[u].hp
           /\ units'[u].gauge = IF Engine!Alive(u) THEN Engine!Filled(u, Engine!Advance)
                                                   ELSE units[u].gauge
      /\ actor' \in Us /\ Engine!Alive(actor')
      /\ Engine!Filled(actor', Engine!Advance) >= rules.threshold
      /\ UNCHANGED turns
  BY NextActorEffect
<1>2. Started /\ Started' /\ Engine!Living # {}
  BY <1>1, SomeoneLives DEF Started
<1>3. rules' = rules /\ config' = config /\ Us' = Us
      /\ \A u : Haste(u)' = Haste(u) /\ (NeverHasty(u)' <=> NeverHasty(u))
  BY <1>1, SameSetting DEF Setting
<1>4. PICK a \in Nat : a = Engine!Advance
  BY <1>1
<1>5. ASSUME NEW u \in Us PROVE Bounded(u)' /\ TurnsPaid(u)'
  <2>1. PICK g \in Nat, s \in Nat, t \in Nat, h \in Int, c \in Int :
          /\ g = units[u].gauge /\ s = Engine!Speed(u) /\ t = rules.threshold
          /\ h = Haste(u) /\ c = config[u].speed
          /\ s <= c + h /\ (NeverHasty(u) => s = c)
    BY <1>2, Strengths, GaugesTyped, ModifierTyped, ConfigTyped
  <2>2. Engine!Filled(u, a) = g + a * s
    BY <2>1 DEF Engine!Filled
  <2>3. Bounded(u) /\ TurnsPaid(u)
    BY <1>2 DEF Filling
  <2>4. Engine!Alive(u)' <=> Engine!Alive(u)
    BY <1>1 DEF Engine!Alive
  <2>5. CASE ~ Engine!Alive(u)
    BY <1>1, <1>3, <2>3, <2>4, <2>5 DEF Bounded, TurnsPaid
  <2>6. CASE Engine!Alive(u)
    <3>1. units'[u].gauge = g + a * s
      BY <1>1, <1>4, <2>2, <2>6
    <3>2. g + a * s <= t - 1 + c + h
      <4>1. CASE a = 0
        BY <2>1, <2>3, <4>1 DEF Bounded
      <4>2. CASE a > 0
        <5>1. PICK b \in Nat : b = a - 1
          BY <4>2
        <5>2. Engine!ReadyAfter(b) = {}
          BY <1>2, <1>4, <5>1, ClockExact
        <5>3. Engine!Filled(u, b) = g + b * s
          BY <2>1 DEF Engine!Filled
        <5>4. ~ (g + b * s >= t)
          BY <2>1, <2>6, <5>2, <5>3 DEF Engine!ReadyAfter, Engine!Living, Us
        <5>5. a * s = b * s + s /\ b * s \in Nat
          BY <2>1, <5>1
        <5>6. QED
          BY <2>1, <5>4, <5>5
      <4>3. QED
        BY <4>1, <4>2
    <3>3. Bounded(u)'
      BY <1>3, <2>1, <3>1, <3>2 DEF Bounded
    <3>4. ASSUME NeverHasty(u)
          PROVE  units'[u].gauge + rules.threshold * turns[u] = (tick + a) * c
      <4>1. g + rules.threshold * turns[u] = tick * c
        BY <2>1, <2>3, <2>6, <3>4 DEF TurnsPaid
      <4>2. PICK k \in Nat, n \in Nat : k = tick /\ n = turns[u]
        BY DEF Types
      <4>3. PICK x \in Int, y \in Int, z \in Int :
              x = a * c /\ y = t * n /\ z = k * c /\ (k + a) * c = z + x
        BY <2>1, <4>2, Distributes
      <4>4. g + y = z
        BY <2>1, <4>1, <4>2, <4>3
      <4>5. (g + x) + y = z + x
        BY <4>3, <4>4
      <4>6. s = c
        BY <2>1, <3>4
      <4>7. QED
        BY <2>1, <3>1, <4>2, <4>3, <4>5, <4>6
    <3>5. TurnsPaid(u)'
      BY <1>1, <1>3, <1>4, <2>1, <2>6, <3>4 DEF TurnsPaid
    <3>6. QED
      BY <3>3, <3>5
  <2>7. QED
    BY <2>5, <2>6
<1>6. units'[actor'].gauge >= rules'.threshold
  BY <1>1, <1>3
<1>7. QED
  BY <1>3, <1>5, <1>6 DEF Filling

LEMMA FillingEnd ==
  ASSUME SetupOK, Types, Filling, UNCHANGED confVars, Engine!EndAction
  PROVE  Filling'
<1>1. /\ phase \in {"effects", "end"} /\ phase' = "next" /\ Setting
      /\ actor \in Us /\ OnlyUnit(actor)
      /\ units'[actor].hp = units[actor].hp
      /\ units'[actor].gauge = Engine!Paid(units[actor].gauge)
      /\ turns' \in [Us -> Nat] /\ turns'[actor] = turns[actor] + 1
      /\ \A u \in Us : u # actor => turns'[u] = turns[u]
      /\ UNCHANGED <<tick>>
  BY EndActionEffect
<1>2. Started /\ Started' /\ Acting /\ ~ Acting'
  BY <1>1 DEF Started, Acting
<1>3. rules' = rules /\ config' = config /\ Us' = Us
      /\ \A u : Haste(u)' = Haste(u) /\ (NeverHasty(u)' <=> NeverHasty(u))
  BY <1>1, SameSetting DEF Setting
<1>4. ASSUME NEW u \in Us PROVE Bounded(u)' /\ TurnsPaid(u)'
  <2>1. Bounded(u) /\ TurnsPaid(u)
    BY <1>2 DEF Filling
  <2>2. CASE u # actor
    <3>1. units'[u] = units[u] /\ turns'[u] = turns[u]
      BY <1>1, <2>2 DEF OnlyUnit
    <3>2. QED
      BY <1>1, <1>3, <2>1, <3>1 DEF Bounded, TurnsPaid, Engine!Alive
  <2>3. CASE u = actor
    <3>1. PICK g \in Nat, t \in Nat, h \in Int, c \in Int, n \in Nat :
            /\ g = units[u].gauge /\ t = rules.threshold
            /\ h = Haste(u) /\ c = config[u].speed /\ n = turns[u]
      BY <1>2, GaugesTyped, ModifierTyped, ConfigTyped DEF Types
    <3>2. g >= t
      BY <1>2, <2>3, <3>1 DEF Filling
    <3>3. units'[u].gauge = g - t
      BY <1>1, <2>3, <3>1, <3>2 DEF Engine!Paid, Engine!max
    <3>4. Bounded(u)'
      BY <1>3, <2>1, <3>1, <3>3 DEF Bounded
    <3>5. PICK x \in Int : x = t * n /\ t * (n + 1) = x + t
      BY <3>1, Distributes
    <3>6. (g - t) + t * (n + 1) = g + t * n
      BY <3>1, <3>5
    <3>7. TurnsPaid(u)'
      BY <1>1, <1>3, <2>1, <2>3, <3>1, <3>3, <3>6 DEF TurnsPaid, Engine!Alive
    <3>8. QED
      BY <3>4, <3>7
  <2>4. QED
    BY <2>2, <2>3
<1>5. QED
  BY <1>2, <1>3, <1>4 DEF Filling

LEMMA FillingStart ==
  ASSUME SetupOK, Types, NEW r \in Requests, StartBattle(r)
  PROVE  Filling'
<1>1. CASE phase' # "next"
  BY <1>1, StartRefused DEF Filling, Started
<1>2. CASE phase' = "next"
  <2>1. /\ units' = [u \in Us' |-> Engine!NewUnit(config'[u])]
        /\ turns' = [u \in Us' |-> 0] /\ tick' = tick /\ ~ Started
    BY <1>2, StartEffect
  <2>2. SetupOK' /\ Types' /\ Started' /\ ~ Acting' /\ tick' = 0
    BY <1>2, <2>1, RestStart DEF Started, Acting, Types
  <2>3. ASSUME NEW u \in Us' PROVE Bounded(u)' /\ TurnsPaid(u)'
    <3>1. units'[u].gauge = 0 /\ turns'[u] = 0
      BY <2>1 DEF Engine!NewUnit
    <3>2. PICK c \in Int, t \in Int : c = config'[u].speed /\ t = rules'.threshold /\ c > 0 /\ t > 0
      <4>1. config' \in Seq(UnitConfig) /\ Us' = DOMAIN config'
        BY <2>2 DEF SetupOK, Us, Engine!Us
      <4>2. config'[u] \in UnitConfig
        BY <4>1, PlacesIn
      <4>3. config'[u].speed \in Int
        BY <4>2 DEF UnitConfig
      <4>4. QED
        BY <2>2, <4>3 DEF SetupOK, Conf!BattleRuleCfg
    <3>3. PICK h \in Int : h = Haste(u)' /\ h >= 0
      <4>1. config' \in Seq(UnitConfig) /\ Us' = DOMAIN config'
        BY <2>2 DEF SetupOK, Us, Engine!Us
      <4>2. PICK d \in UnitConfig : d = config'[u]
        BY <4>1, PlacesIn
      <4>3. HasteOf(d) \in Int /\ HasteOf(d) >= 0 /\ Haste(u)' = HasteOf(d)
        BY <4>2, HasteTyped DEF Haste
      <4>4. QED
        BY <4>3
    <3>4. Bounded(u)'
      BY <3>1, <3>2, <3>3 DEF Bounded
    <3>5. 0 + t * 0 = 0 * c
      BY <3>2
    <3>6. TurnsPaid(u)'
      BY <2>2, <3>1, <3>2, <3>5 DEF TurnsPaid
    <3>7. QED
      BY <3>4, <3>6
  <2>4. QED
    BY <2>2, <2>3 DEF Filling
<1>3. QED
  BY <1>1, <1>2

LEMMA RestRun ==
  ASSUME SetupOK, Types, Survivors, Run
  PROVE  SetupOK' /\ Types'
<1>1. phase = "choose" => Engine!Enemies(actor) # {}
  BY DEF Survivors, Started
<1>2. QED
  BY <1>1, RestNext, RestTick, RestUse, RestApply, RestEnd DEF Run, Engine!Next

LEMMA NoneRisesHere ==
  ASSUME SetupOK, Types, Survivors, Run
  PROVE  NoneRises /\ Setting /\ Started /\ Started'
<1>1. CASE Engine!NextActor
  BY <1>1, NextActorEffect DEF Run, NoneRises, Started
<1>2. CASE Engine!BeginAction
  BY <1>2, BeginActionEffect DEF Run, NoneRises, OnlyUnit, Started
<1>3. CASE Engine!TickStatus
  <2>1. /\ phase = "choose" /\ phase' = phase /\ Setting /\ OnlyUnit(actor)
        /\ Struck(actor, units[actor], units'[actor])
    BY <1>3, TickStatusEffect DEF Run
  <2>2. QED
    BY <2>1 DEF NoneRises, OnlyUnit, Struck, Started
<1>4. CASE Engine!Skip
  BY <1>4, SkipEffect DEF Run, NoneRises, Started
<1>5. CASE Engine!UseSkill
  <2>1. Engine!Enemies(actor) # {} /\ phase = "choose"
    BY <1>5 DEF Survivors, Engine!UseSkill, Started
  <2>2. /\ phase' = "effects" /\ Setting /\ OnlyUnit(actor)
        /\ units'[actor].hp = units[actor].hp
    BY <1>5, <2>1, UseSkillEffect DEF Run
  <2>3. QED
    BY <2>1, <2>2 DEF NoneRises, OnlyUnit, Started
<1>6. CASE Engine!ApplyEffect
  <2>1. PICK v : v = Head(todo).target
    OBVIOUS
  <2>2. /\ phase = "effects" /\ phase' = phase /\ Setting /\ OnlyUnit(v)
        /\ Struck(v, units[v], units'[v])
    BY <1>6, <2>1, ApplyEffectEffect DEF Run
  <2>3. QED
    BY <2>2 DEF NoneRises, OnlyUnit, Struck, Started
<1>7. CASE Engine!EndAction
  BY <1>7, EndActionEffect DEF Run, NoneRises, OnlyUnit, Started
<1>8. CASE Engine!Finish
  BY <1>8, FinishEffect DEF Run, NoneRises, Started
<1>9. QED
  BY <1>1, <1>2, <1>3, <1>4, <1>5, <1>6, <1>7, <1>8 DEF Run, Engine!Next

LEMMA FillingRun ==
  ASSUME SetupOK, Types, Survivors, Filling, Run
  PROVE  Filling'
<1>1. SetupOK' /\ Types' /\ NoneRises /\ Setting /\ Started /\ Started'
  BY RestRun, NoneRisesHere
<1>2. CASE Engine!NextActor
  BY <1>2, FillingNext DEF Run
<1>3. CASE Engine!BeginAction
  <2>1. /\ \A u \in Us : units'[u].gauge = units[u].gauge
        /\ UNCHANGED <<turns, tick, actor>> /\ Acting
    BY <1>3, BeginActionEffect DEF Run, OnlyUnit, Acting
  <2>2. QED
    BY <1>1, <2>1, GaugesStay
<1>4. CASE Engine!TickStatus
  <2>1. /\ OnlyUnit(actor) /\ Struck(actor, units[actor], units'[actor]) /\ phase = "choose"
        /\ UNCHANGED <<turns, tick, actor>>
    BY <1>4, TickStatusEffect DEF Run
  <2>2. \A u \in Us : units'[u].gauge = units[u].gauge
    BY <2>1 DEF OnlyUnit, Struck
  <2>3. QED
    BY <1>1, <2>1, <2>2, GaugesStay DEF Acting
<1>5. CASE Engine!Skip
  <2>1. /\ \A u \in Us : units'[u].gauge = units[u].gauge
        /\ UNCHANGED <<turns, tick, actor>> /\ Acting
    BY <1>5, SkipEffect DEF Run, Acting
  <2>2. QED
    BY <1>1, <2>1, GaugesStay
<1>6. CASE Engine!UseSkill
  <2>1. Engine!Enemies(actor) # {} /\ phase = "choose" /\ Acting
    BY <1>6 DEF Survivors, Engine!UseSkill, Started, Acting
  <2>2. /\ OnlyUnit(actor) /\ units'[actor].gauge = units[actor].gauge
        /\ UNCHANGED <<turns, tick, actor>>
    BY <1>6, <2>1, UseSkillEffect DEF Run
  <2>3. \A u \in Us : units'[u].gauge = units[u].gauge
    BY <2>2 DEF OnlyUnit
  <2>4. QED
    BY <1>1, <2>1, <2>2, <2>3, GaugesStay
<1>7. CASE Engine!ApplyEffect
  <2>1. PICK v : v = Head(todo).target
    OBVIOUS
  <2>2. /\ OnlyUnit(v) /\ Struck(v, units[v], units'[v]) /\ phase = "effects"
        /\ UNCHANGED <<turns, tick, actor>>
    BY <1>7, <2>1, ApplyEffectEffect DEF Run
  <2>3. \A u \in Us : units'[u].gauge = units[u].gauge
    BY <2>2 DEF OnlyUnit, Struck
  <2>4. QED
    BY <1>1, <2>2, <2>3, GaugesStay DEF Acting
<1>8. CASE Engine!EndAction
  BY <1>8, FillingEnd DEF Run
<1>9. CASE Engine!Finish
  <2>1. UNCHANGED <<units, turns, tick>> /\ ~ Acting'
    BY <1>9, FinishEffect DEF Run, Acting
  <2>2. QED
    BY <1>1, <2>1, GaugesStay
<1>10. QED
  BY <1>2, <1>3, <1>4, <1>5, <1>6, <1>7, <1>8, <1>9 DEF Run, Engine!Next

-----------------------------------------------------------------------------
(* The cooldowns: of a skill that was used, what is left of its cooldown   *)
(* and the turns since then are at least its cooldown.                     *)
Taken(u) ==
    IF phase \in {"choose", "effects", "end"} /\ u = actor THEN turns[u] + 1 ELSE turns[u]
CoolsDown(u, s) ==
    lastUse[u][s.id] # 0 =>
      /\ lastUse[u][s.id] <= Taken(u)
      /\ units[u].cooldowns[s.id] + Taken(u) - lastUse[u][s.id] >= s.cooldown
Cooling ==
    \A u \in Us : \A s \in ToSet(config[u].active) :
      s.id # config[u].basic.id => CoolsDown(u, s)

LEMMA SkillTyped ==
  ASSUME SetupOK, Types, NEW u \in Us, NEW s \in ToSet(config[u].active)
  PROVE  /\ s.id \in Engine!SkillIds(u) /\ s.cooldown \in Nat
         /\ lastUse[u][s.id] \in Nat /\ units[u].cooldowns[s.id] \in Nat
         /\ turns[u] \in Nat /\ Taken(u) \in Nat
         /\ DOMAIN lastUse[u] = Engine!SkillIds(u) /\ DOMAIN units[u].cooldowns = Engine!SkillIds(u)
<1>1. s \in Conf!BattleSkillCfg /\ s.id \in Engine!SkillIds(u)
  <2>1. PICK i \in DOMAIN config[u].active : s = config[u].active[i]
    BY SkillNumbered
  <2>2. QED
    BY <2>1, SkillNumbered, ConfigTyped
<1>2. s.cooldown \in Nat
  BY <1>1 DEF Conf!BattleSkillCfg
<1>3. /\ DOMAIN lastUse[u] = Engine!SkillIds(u) /\ DOMAIN units[u].cooldowns = Engine!SkillIds(u)
      /\ lastUse[u] \in PartialNat /\ units[u].cooldowns \in PartialNat
      /\ turns[u] \in Nat
  BY DEF Types, Fits, UnitState
<1>4. lastUse[u][s.id] \in Nat /\ units[u].cooldowns[s.id] \in Nat
  BY <1>1, <1>3, PartialTyped
<1>5. QED
  BY <1>1, <1>2, <1>3, <1>4 DEF Taken

LEMMA CoolingStays ==
  ASSUME Cooling, Setting, UNCHANGED lastUse,
         \A u \in Us : units'[u].cooldowns = units[u].cooldowns /\ Taken(u)' = Taken(u)
  PROVE  Cooling'
<1>1. Us' = Us /\ config' = config
  BY SameSetting DEF Setting
<1>2. QED
  BY <1>1 DEF Cooling, CoolsDown

LEMMA CoolingBegin ==
  ASSUME SetupOK, Types, Cooling, UNCHANGED confVars, Engine!BeginAction
  PROVE  Cooling'
<1>1. /\ phase = "begin" /\ phase' = "choose" /\ Setting
      /\ actor \in Us /\ OnlyUnit(actor)
      /\ \A s \in DOMAIN units[actor].cooldowns :
           units'[actor].cooldowns[s] >= units[actor].cooldowns[s] - 1
      /\ DOMAIN units'[actor].cooldowns = DOMAIN units[actor].cooldowns
      /\ UNCHANGED <<actor, turns, lastUse>>
  BY BeginActionEffect
<1>2. Us' = Us /\ config' = config
  BY <1>1, SameSetting DEF Setting
<1>3. SetupOK' /\ Types'
  BY RestNext
<1>4. ASSUME NEW u \in Us, NEW s \in ToSet(config[u].active), s.id # config[u].basic.id
      PROVE  CoolsDown(u, s)'
  <2>1. CoolsDown(u, s)
    BY <1>4 DEF Cooling
  <2>2. CASE u # actor
    <3>1. Taken(u)' = Taken(u) /\ units'[u] = units[u]
      BY <1>1, <2>2 DEF Taken, OnlyUnit
    <3>2. QED
      BY <1>1, <2>1, <3>1 DEF CoolsDown
  <2>3. CASE u = actor
    <3>1. Taken(u) = turns[u] /\ Taken(u)' = turns[u] + 1
      BY <1>1, <2>3 DEF Taken
    <3>2. PICK l \in Nat, c \in Nat, t \in Nat :
            l = lastUse[u][s.id] /\ c = units[u].cooldowns[s.id] /\ t = turns[u]
      BY SkillTyped
    <3>3. PICK d \in Int : d = units'[u].cooldowns[s.id] /\ d >= c - 1
      <4>1. units'[u].cooldowns \in PartialNat /\ s.id \in DOMAIN units'[u].cooldowns
        BY <1>1, <2>3, SkillTyped DEF OnlyUnit, UnitState
      <4>2. units'[u].cooldowns[s.id] \in Nat
        BY <4>1, PartialTyped
      <4>3. s.id \in DOMAIN units[actor].cooldowns
        BY <2>3, SkillTyped
      <4>4. QED
        BY <1>1, <2>3, <3>2, <4>2, <4>3
    <3>4. s.cooldown \in Nat
      BY SkillTyped
    <3>5. QED
      BY <1>1, <2>1, <3>1, <3>2, <3>3, <3>4 DEF CoolsDown
  <2>4. QED
    BY <2>2, <2>3
<1>5. QED
  BY <1>2, <1>4 DEF Cooling

(* A skill that cools was last used as many turns ago as its cooldown says *)
(* when it is used again.                                                  *)
LEMMA UsedAgain ==
  ASSUME SetupOK, Types, Cooling, phase = "choose", actor \in Us, NEW skill, Used(skill),
         NEW u \in Us, NEW s \in ToSet(config[u].active), s.id # config[u].basic.id
  PROVE  \/ /\ lastUse'[u][s.id] = lastUse[u][s.id]
            /\ u = actor => units'[u].cooldowns[s.id] = units[u].cooldowns[s.id]
         \/ /\ u = actor /\ s = skill
            /\ lastUse'[u][s.id] = turns[u] + 1
            /\ units[u].cooldowns[s.id] = 0
            /\ units'[u].cooldowns[s.id] = s.cooldown
            /\ lastUse[u][s.id] # 0 => turns[u] + 1 - lastUse[u][s.id] >= s.cooldown
<1>1. s.id \in Engine!SkillIds(u) /\ s.cooldown \in Nat
  BY SkillTyped
<1>2. CASE ~ (u = actor /\ s.id = skill.id)
  BY <1>1, <1>2 DEF Used
<1>3. CASE u = actor /\ s.id = skill.id
  <2>1. PICK i \in DOMAIN config[actor].active :
          skill = config[actor].active[i] /\ units[actor].cooldowns[skill.id] = 0
    BY <1>3 DEF Used
  <2>2. PICK j \in DOMAIN config[actor].active : s = config[actor].active[j]
    BY <1>3, SkillNumbered
  <2>3. s = skill
    BY <1>3, <2>1, <2>2, ConfigTyped
  <2>4. lastUse'[u][s.id] = turns[u] + 1
    BY <1>1, <1>3 DEF Used
  <2>5. units'[u].cooldowns[s.id] = s.cooldown
    <3>1. CASE s.cooldown > 0
      BY <1>1, <1>3, <2>3, <3>1 DEF Used, Counts
    <3>2. CASE ~ (s.cooldown > 0)
      <4>1. s.cooldown = 0
        BY <1>1, <3>2
      <4>2. QED
        BY <1>1, <1>3, <2>1, <2>3, <3>2, <4>1 DEF Used, Counts
    <3>3. QED
      BY <3>1, <3>2
  <2>6. lastUse[u][s.id] # 0 => turns[u] + 1 - lastUse[u][s.id] >= s.cooldown
    <3>1. Taken(u) = turns[u] + 1
      BY <1>3 DEF Taken
    <3>2. CoolsDown(u, s)
      BY DEF Cooling
    <3>3. units[u].cooldowns[s.id] = 0
      BY <1>3, <2>1, <2>3
    <3>4. turns[u] \in Nat /\ lastUse[u][s.id] \in Nat
      BY SkillTyped
    <3>5. QED
      BY <1>1, <3>1, <3>2, <3>3, <3>4 DEF CoolsDown
  <2>7. QED
    BY <1>3, <2>1, <2>3, <2>4, <2>5, <2>6
<1>4. QED
  BY <1>2, <1>3

LEMMA CoolingUse ==
  ASSUME SetupOK, Types, Survivors, Cooling, UNCHANGED confVars, Engine!UseSkill
  PROVE  Cooling'
<1>1. Engine!Enemies(actor) # {} /\ phase = "choose"
  BY DEF Survivors, Engine!UseSkill, Started
<1>2. /\ phase' = "effects" /\ Setting
      /\ actor \in Us /\ OnlyUnit(actor)
      /\ \E skill : Used(skill)
      /\ UNCHANGED <<actor, turns>>
  BY <1>1, UseSkillEffect
<1>3. PICK skill : Used(skill)
  BY <1>2
<1>4. Us' = Us /\ config' = config
  BY <1>2, SameSetting DEF Setting
<1>5. \A u \in Us : Taken(u)' = Taken(u)
  BY <1>1, <1>2 DEF Taken
<1>6. ASSUME NEW u \in Us, NEW s \in ToSet(config[u].active), s.id # config[u].basic.id
      PROVE  CoolsDown(u, s)'
  <2>1. CoolsDown(u, s)
    BY <1>6 DEF Cooling
  <2>2. CASE /\ lastUse'[u][s.id] = lastUse[u][s.id]
             /\ u = actor => units'[u].cooldowns[s.id] = units[u].cooldowns[s.id]
    <3>1. units'[u].cooldowns[s.id] = units[u].cooldowns[s.id]
      BY <1>2, <2>2 DEF OnlyUnit
    <3>2. QED
      BY <1>5, <2>1, <2>2, <3>1 DEF CoolsDown
  <2>3. CASE /\ u = actor /\ s = skill
             /\ lastUse'[u][s.id] = turns[u] + 1
             /\ units'[u].cooldowns[s.id] = s.cooldown
    <3>1. Taken(u)' = turns[u] + 1
      BY <1>1, <1>5, <2>3 DEF Taken
    <3>2. turns[u] \in Nat /\ s.cooldown \in Nat
      BY SkillTyped
    <3>3. QED
      BY <2>3, <3>1, <3>2 DEF CoolsDown
  <2>4. QED
    BY <1>1, <1>2, <1>3, <1>6, <2>2, <2>3, UsedAgain
<1>7. QED
  BY <1>4, <1>6 DEF Cooling

LEMMA CoolingRun ==
  ASSUME SetupOK, Types, Survivors, Cooling, Run
  PROVE  Cooling'
<1>1. Setting /\ Started
  BY NoneRisesHere
<1>2. CASE Engine!NextActor
  <2>1. /\ phase = "next" /\ phase' = "begin" /\ UNCHANGED <<lastUse, turns>>
        /\ \A u \in Us : units'[u].cooldowns = units[u].cooldowns
    BY <1>2, NextActorEffect DEF Run
  <2>2. QED
    BY <1>1, <2>1, CoolingStays DEF Taken
<1>3. CASE Engine!BeginAction
  BY <1>3, CoolingBegin DEF Run
<1>4. CASE Engine!TickStatus
  <2>1. /\ OnlyUnit(actor) /\ Struck(actor, units[actor], units'[actor])
        /\ UNCHANGED <<turns, phase, actor, lastUse>>
    BY <1>4, TickStatusEffect DEF Run
  <2>2. QED
    BY <1>1, <2>1, CoolingStays DEF Taken, OnlyUnit, Struck
<1>5. CASE Engine!Skip
  <2>1. phase = "choose" /\ phase' = "end" /\ UNCHANGED <<units, turns, actor, lastUse>>
    BY <1>5, SkipEffect DEF Run
  <2>2. QED
    BY <1>1, <2>1, CoolingStays DEF Taken
<1>6. CASE Engine!UseSkill
  BY <1>6, CoolingUse DEF Run
<1>7. CASE Engine!ApplyEffect
  <2>1. PICK v : v = Head(todo).target
    OBVIOUS
  <2>2. /\ OnlyUnit(v) /\ Struck(v, units[v], units'[v])
        /\ UNCHANGED <<turns, phase, actor, lastUse>>
    BY <1>7, <2>1, ApplyEffectEffect DEF Run
  <2>3. QED
    BY <1>1, <2>2, CoolingStays DEF Taken, OnlyUnit, Struck
<1>8. CASE Engine!EndAction
  <2>1. /\ phase \in {"effects", "end"} /\ phase' = "next"
        /\ actor \in Us /\ actor' = NoUnit /\ OnlyUnit(actor)
        /\ units'[actor].cooldowns = units[actor].cooldowns
        /\ turns'[actor] = turns[actor] + 1
        /\ \A u \in Us : u # actor => turns'[u] = turns[u]
        /\ UNCHANGED lastUse
    BY <1>8, EndActionEffect DEF Run
  <2>2. QED
    BY <1>1, <2>1, CoolingStays DEF Taken, OnlyUnit
<1>9. CASE Engine!Finish
  <2>1. phase = "next" /\ phase' = "ended" /\ UNCHANGED <<units, turns, lastUse>>
    BY <1>9, FinishEffect DEF Run
  <2>2. QED
    BY <1>1, <2>1, CoolingStays DEF Taken
<1>10. QED
  BY <1>2, <1>3, <1>4, <1>5, <1>6, <1>7, <1>8, <1>9 DEF Run, Engine!Next

LEMMA CoolingStart ==
  ASSUME SetupOK, Types, Cooling, NEW r \in Requests, StartBattle(r)
  PROVE  Cooling'
<1>1. CASE phase' # "next"
  <2>1. phase = "none" /\ phase' = "invalid" /\ Setting /\ UNCHANGED <<units, turns, lastUse>>
    BY <1>1, StartRefused
  <2>2. QED
    BY <2>1, CoolingStays DEF Taken
<1>2. CASE phase' = "next"
  <2>1. lastUse' = [u \in Us' |-> [s \in {a.id : a \in Engine!ToSet(config'[u].active)} |-> 0]]
    BY <1>2, StartEffect
  <2>2. \A u \in Us' : \A s \in ToSet(config'[u].active) : lastUse'[u][s.id] = 0
    BY <2>1 DEF Engine!ToSet, ToSet
  <2>3. QED
    BY <2>2 DEF Cooling, CoolsDown
<1>3. QED
  BY <1>1, <1>2

-----------------------------------------------------------------------------
(* The inductive invariant.                                                *)
Inv == SetupOK /\ Types /\ Survivors /\ Filling /\ Cooling

LEMMA InitInv == Init => Inv
<1>1. SUFFICES ASSUME Init PROVE Inv
  OBVIOUS
<1>2. /\ loaded = {} /\ booting = "no"
      /\ config = <<>> /\ units = <<>> /\ turns = <<>> /\ lastUse = <<>>
      /\ tick = 0 /\ action = 0 /\ phase = "none" /\ actor = NoUnit
      /\ due = {} /\ todo = <<>> /\ outcome = "UNSPECIFIED"
  BY <1>1 DEF Init, Conf!Init, Engine!Init
<1>3. Us = {}
  BY <1>2 DEF Us, Engine!Us
<1>4. ~ Started /\ ~ Acting
  BY <1>2 DEF Started, Acting
<1>5. SetupOK
  BY <1>2, <1>4 DEF SetupOK
<1>6. Types
  <2>1. Conf!TypeOK
    BY <1>2 DEF Conf!TypeOK
  <2>2. units \in [Us -> UnitState] /\ turns \in [Us -> Nat] /\ lastUse \in [Us -> PartialNat]
    BY <1>2, <1>3
  <2>3. QED
    BY <1>2, <1>3, <1>4, <2>1, <2>2 DEF Types, Engine!Phases, Engine!Outcomes
<1>7. Survivors /\ Filling /\ Cooling
  BY <1>3, <1>4 DEF Survivors, Filling, Cooling
<1>8. QED
  BY <1>5, <1>6, <1>7 DEF Inv

LEMMA EngineFrozen ==
  ASSUME Inv, UNCHANGED engineVars
  PROVE  Survivors' /\ Filling' /\ Cooling'
<1>1. UNCHANGED <<rules, config, units, tick, action, phase, actor, todo, outcome, turns, lastUse>>
  BY DEF engineVars
<1>2. Us' = Us /\ (Started' <=> Started) /\ (Acting' <=> Acting)
  BY <1>1 DEF Us, Engine!Us, Started, Acting
<1>3. Survivors'
  <2>1. /\ \A t : Engine!TeamAlive(t)' <=> Engine!TeamAlive(t)
        /\ Engine!Alive(actor)' <=> Engine!Alive(actor)
        /\ Engine!Enemies(actor)' = Engine!Enemies(actor)
    BY <1>1 DEF Engine!TeamAlive, Engine!Alive, Engine!Us, Engine!Enemies, Engine!Living
  <2>2. Engine!Decided' = Engine!Decided
    BY <2>1 DEF Engine!Decided
  <2>3. Engine!Verdict' = Engine!Verdict
    BY <2>2 DEF Engine!Verdict
  <2>4. \A t : SafeFrom(t, todo)' <=> SafeFrom(t, todo)
    BY <1>1, <2>1 DEF SafeFrom
  <2>5. QED
    BY <1>1, <1>2, <2>1, <2>2, <2>3, <2>4 DEF Inv, Survivors
<1>4. Filling'
  <2>1. \A u \in Us : (Bounded(u)' <=> Bounded(u)) /\ (TurnsPaid(u)' <=> TurnsPaid(u))
    BY <1>1 DEF Bounded, TurnsPaid, Engine!Alive, NeverHasty, Haste
  <2>2. QED
    BY <1>1, <1>2, <2>1 DEF Inv, Filling
<1>5. Cooling'
  <2>1. \A u \in Us : Taken(u)' = Taken(u)
    BY <1>1 DEF Taken
  <2>2. QED
    BY <1>1, <1>2, <2>1 DEF Inv, Cooling, CoolsDown
<1>6. QED
  BY <1>3, <1>4, <1>5

LEMMA NextInv == Inv /\ [Next]_vars => Inv'
<1>1. SUFFICES ASSUME Inv, [Next]_vars PROVE Inv'
  OBVIOUS
<1>2. SetupOK /\ Types /\ Survivors /\ Filling /\ Cooling
  BY <1>1 DEF Inv
<1>3. CASE Boot
  <2>1. UNCHANGED engineVars
    BY <1>3 DEF Boot
  <2>2. QED
    BY <1>1, <1>2, <1>3, <2>1, EngineFrozen, RestBoot DEF Inv
<1>4. ASSUME NEW r \in Requests, StartBattle(r) PROVE Inv'
  BY <1>2, <1>4, RestStart, SurvivorsStart, FillingStart, CoolingStart DEF Inv
<1>5. CASE Run
  <2>1. Survivors'
    BY <1>2, <1>5, SurvivorsMove, SurvivorsStrike, SurvivorsEnd DEF Run, Engine!Next
  <2>2. QED
    BY <1>2, <1>5, <2>1, RestRun, FillingRun, CoolingRun DEF Inv
<1>6. CASE UNCHANGED vars
  <2>1. UNCHANGED confVars /\ UNCHANGED engineVars
    BY <1>6 DEF vars, confVars, engineVars
  <2>2. Survivors' /\ Filling' /\ Cooling'
    BY <1>1, <2>1, EngineFrozen
  <2>3. SetupOK'
    BY <1>2, <2>1 DEF SetupOK, engineVars, Started, Us, Engine!Us
  <2>4. Conf!TypeOK'
    BY <1>2, <2>1, TablesTyped DEF Types
  <2>5. UnitsFit' /\ Rest' /\ (Started' <=> Started) /\ tick' = tick /\ action' = action
    BY <1>2, <2>1 DEF Types, UnitsFit, Rest, Acting, Started, engineVars, Us, Engine!Us, Fits, Strike,
                      Engine!SkillIds
  <2>6. QED
    BY <1>2, <2>2, <2>3, <2>4, <2>5 DEF Inv, Types, UnitsFit, Rest
<1>7. QED
  BY <1>1, <1>3, <1>4, <1>5, <1>6 DEF Next

LEMMA Holds == Spec => []Inv
BY InitInv, NextInv, PTL DEF Spec

-----------------------------------------------------------------------------
(* TypeOK: a unit's HP is never below 0 or above its maximum, and its      *)
(* gauge never passes the threshold by a tick of its fastest speed or      *)
(* more (applyDamage, applyHealing, nextActor).                            *)
THEOREM TypeCorrect == Spec => []TypeOK
<1>1. Inv => TypeOK
  <2>1. SUFFICES ASSUME Inv PROVE TypeOK
    OBVIOUS
  <2>2. SetupOK /\ Types
    BY <2>1 DEF Inv
  <2>3. actor \in Us \cup {NoUnit} /\ DOMAIN units = Us /\ DOMAIN turns = Us /\ DOMAIN lastUse = Us
    BY <2>2 DEF Types
  <2>4. ASSUME NEW u \in Us PROVE UnitOK(u)
    <3>1. Started
      BY <2>2 DEF SetupOK, Us, Engine!Us
    <3>2. PICK h \in Int : h = Haste(u)
      BY <2>2, ModifierTyped
    <3>3. h = SumFunction([i \in DOMAIN config[u].initial |->
                             Engine!max(0, config[u].initial[i].modifier.speed)])
      BY <3>2 DEF Haste, HasteOf
    <3>4. /\ units[u].hp \in Nat /\ units[u].gauge \in Nat /\ units[u].cooldowns \in PartialNat
          /\ units[u].hp <= config[u].maxHP
      BY <2>2 DEF Types, Fits, UnitState
    <3>5. Bounded(u)
      BY <2>1, <3>1 DEF Inv, Filling
    <3>6. config[u].maxHP \in Int /\ config[u].speed \in Int /\ rules.threshold \in Nat
      BY <2>2, <3>1, ConfigTyped, GaugesTyped
    <3>7. units[u].gauge \in 0 .. rules.threshold - 1 + config[u].speed + h
      BY <3>2, <3>4, <3>5, <3>6 DEF Bounded
    <3>8. units[u].hp \in 0 .. config[u].maxHP
      BY <3>4, <3>6
    <3>9. \A s \in DOMAIN units[u].cooldowns : units[u].cooldowns[s] \in Nat
      BY <3>4, PartialTyped
    <3>10. QED
      BY <3>3, <3>7, <3>8, <3>9 DEF UnitOK
  <2>5. QED
    BY <2>2, <2>3, <2>4 DEF TypeOK, Types
<1>2. QED
  BY Holds, <1>1, PTL

(* AdvanceExact: nextActor's division gives the least number of ticks      *)
(* after which a living unit is ready, whatever the speeds and gauges, so  *)
(* that its error "no living battle unit available" is never returned.     *)
THEOREM ClockIsExact == Spec => []AdvanceExact
<1>1. Inv => AdvanceExact
  <2>1. SUFFICES ASSUME Inv PROVE AdvanceExact
    OBVIOUS
  <2>2. SetupOK /\ Types /\ phase # "error"
    BY <2>1 DEF Inv, Types
  <2>3. ASSUME Undecided
        PROVE  /\ Engine!ReadyAfter(Engine!Advance) # {}
               /\ Engine!Advance > 0 => Engine!ReadyAfter(Engine!Advance - 1) = {}
    <3>1. Started /\ Engine!Living # {}
      BY <2>3, SomeoneLives DEF Undecided, Started
    <3>2. /\ Engine!Advance \in Nat
          /\ Engine!ReadyAfter(Engine!Advance) # {}
          /\ \A k \in Nat : k < Engine!Advance => Engine!ReadyAfter(k) = {}
      BY <2>2, <3>1, ClockExact
    <3>3. Engine!Advance > 0 => Engine!Advance - 1 \in Nat /\ Engine!Advance - 1 < Engine!Advance
      BY <3>2
    <3>4. QED
      BY <3>2, <3>3
  <2>4. QED
    BY <2>2, <2>3 DEF AdvanceExact
<1>2. QED
  BY Holds, <1>1, PTL

(* TurnsArePaid: for a living unit of constant speed, what the clock has   *)
(* filled is what its turns have cost and what is left in its gauge: Run   *)
(* neither loses a unit's time nor gives it twice.                         *)
THEOREM EveryTurnIsPaid == Spec => []TurnsArePaid
<1>1. Inv => TurnsArePaid
  <2>1. SUFFICES ASSUME Inv PROVE TurnsArePaid
    OBVIOUS
  <2>2. ASSUME NEW u \in Us PROVE TurnsPaid(u)
    BY <2>1 DEF Inv, SetupOK, Us, Engine!Us, Filling
  <2>3. QED
    BY <2>2 DEF TurnsArePaid, TurnsPaid, NeverHasty
<1>2. QED
  BY Holds, <1>1, PTL

(* EventsReplay: a client that replays the DAMAGE and HEAL events shows    *)
(* the HP the engine has, after every event.                               *)
THEOREM EventsTellHP == Spec => []EventsReplay
<1>1. Inv => EventsReplay
  BY DEF Inv, Types, Fits, EventsReplay
<1>2. QED
  BY Holds, <1>1, PTL

(* OutcomeTrue: the outcome names the team that survives, a draw is the    *)
(* limit of actions, and no action leaves both teams dead.                 *)
THEOREM OutcomeIsTrue == Spec => []OutcomeTrue
<1>1. Inv => OutcomeTrue
  <2>1. SUFFICES ASSUME Inv PROVE OutcomeTrue
    OBVIOUS
  <2>2. Fought => Engine!TeamAlive("ATTACKER") \/ Engine!TeamAlive("DEFENDER")
    BY <2>1 DEF Inv, Survivors, Started, Fought, Engine!Teams
  <2>3. ASSUME phase = "ended"
        PROVE  /\ outcome = "ATTACKER_WIN" <=> ~ Engine!TeamAlive("DEFENDER")
               /\ outcome = "DEFENDER_WIN" <=> ~ Engine!TeamAlive("ATTACKER")
               /\ outcome = "DRAW" => action = rules.maxActions
    <3>1. /\ outcome = Engine!Verdict
          /\ Engine!Decided = "UNSPECIFIED" => action >= rules.maxActions
          /\ action <= rules.maxActions
          /\ Engine!TeamAlive("ATTACKER") \/ Engine!TeamAlive("DEFENDER")
      BY <2>1, <2>2, <2>3 DEF Inv, Survivors, Started, Fought
    <3>2. action \in Int /\ rules.maxActions \in Int
      BY <2>1, <2>3 DEF Inv, SetupOK, Types, Started, Conf!BattleRuleCfg
    <3>3. /\ outcome = "ATTACKER_WIN" <=> ~ Engine!TeamAlive("DEFENDER")
          /\ outcome = "DEFENDER_WIN" <=> ~ Engine!TeamAlive("ATTACKER")
          /\ outcome = "DRAW" => Engine!Decided = "UNSPECIFIED"
      BY <3>1 DEF Engine!Verdict, Engine!Decided
    <3>4. QED
      BY <3>1, <3>2, <3>3
  <2>4. QED
    BY <2>2, <2>3 DEF OutcomeTrue
<1>2. QED
  BY Holds, <1>1, PTL

(* DeadStayDead: applyEffect and tickPeriodic never raise a dead unit, a   *)
(* later effect of the skill that killed it included, and nextActor never  *)
(* picks one.                                                              *)
THEOREM TheDeadStayDead == Spec => DeadStayDead
<1>1. ASSUME Inv, [Next]_vars
      PROVE  [\A u \in Us : ~ Engine!Alive(u) => /\ units'[u].hp = 0
                                                 /\ phase = "next" => actor' # u]_vars
  <2>1. SetupOK /\ Types /\ Survivors
    BY <1>1 DEF Inv
  <2>2. CASE ~ Started
    BY <2>1, <2>2 DEF SetupOK, Us, Engine!Us
  <2>3. CASE Started
    <3>1. SUFFICES ASSUME Next, NEW u \in Us, ~ Engine!Alive(u)
                   PROVE  units'[u].hp = 0 /\ (phase = "next" => actor' # u)
      BY <1>1
    <3>2. units[u].hp = 0 /\ u \in Nat
      <4>1. units[u].hp \in Nat
        BY <2>1, <2>3, GaugesTyped
      <4>2. QED
        BY <2>1, <3>1, <4>1, UnitsNumbered DEF Engine!Alive
    <3>3. u # NoUnit
      BY <3>2, RunAssumption
    <3>4. CASE Boot
      <4>1. UNCHANGED <<units, actor>>
        BY <3>4 DEF Boot, engineVars
      <4>2. phase = "next" => actor = NoUnit
        BY <2>1 DEF Types, Acting
      <4>3. QED
        BY <3>2, <3>3, <4>1, <4>2
    <3>5. CASE Run
      <4>1. units'[u].hp = 0
        BY <2>1, <3>2, <3>5, NoneRisesHere DEF NoneRises
      <4>2. ASSUME phase = "next" PROVE actor' # u
        <5>1. CASE Engine!NextActor
          BY <2>1, <3>1, <3>5, <5>1, NextActorEffect DEF Run
        <5>2. CASE Engine!Finish
          BY <2>1, <3>3, <5>2 DEF Engine!Finish, Types, Acting
        <5>3. QED
          BY <3>5, <4>2, <5>1, <5>2 DEF Run, Engine!Next, Engine!BeginAction, Engine!TickStatus,
               Engine!Ticking, Engine!Skip, Engine!UseSkill, Engine!ApplyEffect, Engine!EndAction
      <4>3. QED
        BY <4>1, <4>2
    <3>6. ASSUME NEW r \in Requests, StartBattle(r) PROVE FALSE
      BY <2>3, <3>6 DEF StartBattle, Started
    <3>7. QED
      BY <3>1, <3>4, <3>5, <3>6 DEF Next
  <2>4. QED
    BY <2>2, <2>3
<1>2. QED
  BY Holds, <1>1, PTL DEF Spec, DeadStayDead

(* CooldownHeld: between two uses of a skill lie as many turns of its unit *)
(* as its cooldown says (tickCooldowns, chooseSkill, execute).             *)
THEOREM CooldownsHold == Spec => CooldownHeld
<1>1. ASSUME Inv, [Next]_vars
      PROVE  [\A u \in Us : \A s \in ToSet(config[u].active) :
                (/\ s.id # config[u].basic.id
                 /\ lastUse[u][s.id] # 0
                 /\ lastUse'[u][s.id] # lastUse[u][s.id])
                => lastUse'[u][s.id] - lastUse[u][s.id] >= s.cooldown]_vars
  <2>1. SetupOK /\ Types /\ Survivors /\ Cooling
    BY <1>1 DEF Inv
  <2>2. CASE ~ Started
    BY <2>1, <2>2 DEF SetupOK, Us, Engine!Us
  <2>3. CASE Started
    <3>1. SUFFICES ASSUME Next, NEW u \in Us, NEW s \in ToSet(config[u].active),
                          s.id # config[u].basic.id, lastUse[u][s.id] # 0,
                          lastUse'[u][s.id] # lastUse[u][s.id]
                   PROVE  lastUse'[u][s.id] - lastUse[u][s.id] >= s.cooldown
      BY <1>1
    <3>2. Engine!UseSkill /\ UNCHANGED confVars
      BY <2>3, <3>1 DEF Next, Boot, engineVars, StartBattle, Started, Run, Engine!Next,
           Engine!NextActor, Engine!BeginAction, Engine!TickStatus, Engine!Skip, Engine!ApplyEffect,
           Engine!EndAction, Engine!Finish
    <3>3. phase = "choose" /\ Engine!Enemies(actor) # {}
      BY <2>1, <2>3, <3>2 DEF Engine!UseSkill, Survivors
    <3>4. PICK skill : Used(skill)
      BY <2>1, <3>2, <3>3, UseSkillEffect
    <3>5. actor \in Us
      BY <2>1, <3>3 DEF Types, Acting
    <3>6. /\ lastUse'[u][s.id] = turns[u] + 1
          /\ turns[u] + 1 - lastUse[u][s.id] >= s.cooldown
      BY <2>1, <3>1, <3>3, <3>4, <3>5, UsedAgain
    <3>7. PICK l \in Nat, t \in Nat : l = lastUse[u][s.id] /\ t = turns[u]
      BY <2>1, SkillTyped
    <3>8. QED
      BY <3>6, <3>7
  <2>4. QED
    BY <2>2, <2>3
<1>2. QED
  BY Holds, <1>1, PTL DEF Spec, CooldownHeld

-----------------------------------------------------------------------------
(* The orders units are sorted by: instance ids differ, so that none of    *)
(* them ties.                                                              *)
LEMMA FourKeys ==
  ASSUME NEW a, NEW b, NEW c, NEW d, NEW e, NEW f, NEW g, NEW h
  PROVE  Engine!Lexicographic(<<a, b, c, d>>, <<e, f, g, h>>) <=>
           \/ a < e
           \/ a = e /\ b < f
           \/ a = e /\ b = f /\ c < g
           \/ a = e /\ b = f /\ c = g /\ d < h
<1> DEFINE l == <<a, b, c, d>>
           r == <<e, f, g, h>>
<1>1. /\ l[1] = a /\ l[2] = b /\ l[3] = c /\ l[4] = d /\ DOMAIN l = 1 .. 4
      /\ r[1] = e /\ r[2] = f /\ r[3] = g /\ r[4] = h
  OBVIOUS
<1> HIDE DEF l, r
<1>2. Engine!Lexicographic(l, r) <=>
        \E k \in 1 .. 4 : l[k] < r[k] /\ \A j \in 1 .. k - 1 : l[j] = r[j]
  BY <1>1 DEF Engine!Lexicographic
<1>3. \A j : (j \in 1 .. 1 - 1 <=> FALSE) /\ (j \in 1 .. 2 - 1 <=> j = 1)
             /\ (j \in 1 .. 3 - 1 <=> j = 1 \/ j = 2) /\ (j \in 1 .. 4 - 1 <=> j = 1 \/ j = 2 \/ j = 3)
  OBVIOUS
<1>4. \A k : k \in 1 .. 4 <=> k = 1 \/ k = 2 \/ k = 3 \/ k = 4
  OBVIOUS
<1>5. Engine!Lexicographic(l, r) <=>
        \/ l[1] < r[1] /\ \A j \in 1 .. 1 - 1 : l[j] = r[j]
        \/ l[2] < r[2] /\ \A j \in 1 .. 2 - 1 : l[j] = r[j]
        \/ l[3] < r[3] /\ \A j \in 1 .. 3 - 1 : l[j] = r[j]
        \/ l[4] < r[4] /\ \A j \in 1 .. 4 - 1 : l[j] = r[j]
  BY <1>2, <1>4, Zenon
<1>6. /\ \A j \in 1 .. 1 - 1 : l[j] = r[j]
      /\ (\A j \in 1 .. 2 - 1 : l[j] = r[j]) <=> l[1] = r[1]
      /\ (\A j \in 1 .. 3 - 1 : l[j] = r[j]) <=> l[1] = r[1] /\ l[2] = r[2]
      /\ (\A j \in 1 .. 4 - 1 : l[j] = r[j]) <=> l[1] = r[1] /\ l[2] = r[2] /\ l[3] = r[3]
  BY <1>3, Zenon
<1>7. Engine!Lexicographic(l, r) <=>
        \/ a < e
        \/ a = e /\ b < f
        \/ a = e /\ b = f /\ c < g
        \/ a = e /\ b = f /\ c = g /\ d < h
  BY <1>1, <1>5, <1>6
<1>8. QED
  BY <1>7 DEF l, r

LEMMA TwoKeys ==
  ASSUME NEW a, NEW b, NEW e, NEW f
  PROVE  Engine!Lexicographic(<<a, b>>, <<e, f>>) <=> a < e \/ (a = e /\ b < f)
<1> DEFINE l == <<a, b>>
           r == <<e, f>>
<1>1. l[1] = a /\ l[2] = b /\ DOMAIN l = 1 .. 2 /\ r[1] = e /\ r[2] = f
  OBVIOUS
<1> HIDE DEF l, r
<1>2. Engine!Lexicographic(l, r) <=>
        \E k \in 1 .. 2 : l[k] < r[k] /\ \A j \in 1 .. k - 1 : l[j] = r[j]
  BY <1>1 DEF Engine!Lexicographic
<1>3. \A j : (j \in 1 .. 1 - 1 <=> FALSE) /\ (j \in 1 .. 2 - 1 <=> j = 1)
  OBVIOUS
<1>4. \A k : k \in 1 .. 2 <=> k = 1 \/ k = 2
  OBVIOUS
<1>5. Engine!Lexicographic(l, r) <=>
        \/ l[1] < r[1] /\ \A j \in 1 .. 1 - 1 : l[j] = r[j]
        \/ l[2] < r[2] /\ \A j \in 1 .. 2 - 1 : l[j] = r[j]
  BY <1>2, <1>4, Zenon
<1>6. /\ \A j \in 1 .. 1 - 1 : l[j] = r[j]
      /\ (\A j \in 1 .. 2 - 1 : l[j] = r[j]) <=> l[1] = r[1]
  BY <1>3, Zenon
<1>7. Engine!Lexicographic(l, r) <=> a < e \/ (a = e /\ b < f)
  BY <1>1, <1>5, <1>6
<1>8. QED
  BY <1>7 DEF l, r

LEMMA UnitLess ==
  ASSUME SetupOK, Started
  PROVE  /\ \A u, v \in Us : Engine!unitLess(u, v) <=>
              \/ config[u].position < config[v].position
              \/ config[u].position = config[v].position /\ config[u].id < config[v].id
         /\ \A u \in Us : config[u].position \in Nat /\ config[u].id \in Nat
         /\ \A u, v \in Us : config[u].id = config[v].id => u = v
BY TwoKeys, ConfigTyped DEF SetupOK, Engine!unitLess

LEMMA UnitsLinear ==
  ASSUME SetupOK, Started
  PROVE  /\ \A u \in Us : ~ Engine!unitLess(u, u)
         /\ \A u, v, w \in Us : Engine!unitLess(u, v) /\ Engine!unitLess(v, w) => Engine!unitLess(u, w)
         /\ \A u, v \in Us : u = v \/ Engine!unitLess(u, v) \/ Engine!unitLess(v, u)
<1>1. PICK p, n : p = [u \in Us |-> config[u].position] /\ n = [u \in Us |-> config[u].id]
  OBVIOUS
<1>2. /\ \A u, v \in Us : Engine!unitLess(u, v) <=> p[u] < p[v] \/ (p[u] = p[v] /\ n[u] < n[v])
      /\ \A u \in Us : p[u] \in Nat /\ n[u] \in Nat
      /\ \A u, v \in Us : n[u] = n[v] => u = v
  BY <1>1, UnitLess
<1>3. QED
  BY <1>2

LEMMA OneOfThem ==
  ASSUME NEW S, Cardinality(S) = 1, IsFiniteSet(S)
  PROVE  Cardinality({<<v>> : v \in S}) = 1
<1>1. PICK x : S = {x}
  BY FS_Singleton
<1>2. {<<v>> : v \in S} = {<<x>>}
  BY <1>1
<1>3. QED
  BY <1>2, FS_Singleton

(* Less as the set of its pairs.                                           *)
LessPairs(S) == {p \in S \X S : Engine!unitLess(p[1], p[2])}

LEMMA LessLinear ==
  ASSUME SetupOK, Started, NEW S \in SUBSET Us
  PROVE  /\ Linear(LessPairs(S), S) /\ IsFiniteSet(S)
         /\ \A u, v \in S : <<u, v>> \in LessPairs(S) <=> Engine!unitLess(u, v)
<1>1. \A u, v \in S : <<u, v>> \in LessPairs(S) <=> Engine!unitLess(u, v)
  BY DEF LessPairs
<1>2. /\ \A u \in S : ~ Engine!unitLess(u, u)
      /\ \A u, v, w \in S : Engine!unitLess(u, v) /\ Engine!unitLess(v, w) => Engine!unitLess(u, w)
      /\ \A u, v \in S : u = v \/ Engine!unitLess(u, v) \/ Engine!unitLess(v, u)
  BY UnitsLinear
<1>3. Linear(LessPairs(S), S)
  BY <1>1, <1>2 DEF Linear, Strict
<1>4. QED
  BY <1>1, <1>3, UnitsNumbered, FS_Subset

LEMMA OneSorted ==
  ASSUME SetupOK, Started, NEW S \in SUBSET Us
  PROVE  Cardinality(Engine!Sorted(S)) = 1
<1>1. PICK R : R = LessPairs(S)
  OBVIOUS
<1>2. Linear(R, S) /\ IsFiniteSet(S) /\ \A u, v \in S : <<u, v>> \in R <=> Engine!unitLess(u, v)
  BY <1>1, LessLinear
<1>3. ASSUME NEW q \in SetToSeqs(S)
      PROVE  \A i, j \in DOMAIN q : <<q[j], q[i]>> \notin R <=> ~ Engine!unitLess(q[j], q[i])
  <2>1. \A i \in DOMAIN q : q[i] \in S
    BY <1>3 DEF SetToSeqs
  <2>2. QED
    BY <1>2, <2>1
<1>4. Engine!Sorted(S) = InOrder(R, S)
  <2>1. Engine!Sorted(S) =
          {q \in SetToSeqs(S) : \A i, j \in DOMAIN q : i < j => ~ Engine!unitLess(q[j], q[i])}
    BY SameSeqs DEF Engine!Sorted
  <2>2. QED
    BY <1>3, <2>1 DEF InOrder
<1>5. QED
  BY <1>2, <1>4, OneOrder

LEMMA OneInFront ==
  ASSUME SetupOK, Started, NEW S \in SUBSET Us, S # {},
         NEW F, F = {v \in S : \A w \in S : ~ Engine!unitLess(w, v)}
  PROVE  Cardinality(F) = 1 /\ IsFiniteSet(F)
<1>1. PICK R : R = LessPairs(S)
  OBVIOUS
<1>2. Linear(R, S) /\ IsFiniteSet(S) /\ \A u, v \in S : <<u, v>> \in R <=> Engine!unitLess(u, v)
  BY <1>1, LessLinear
<1>3. F = {v \in S : \A w \in S : <<w, v>> \notin R}
  BY <1>2
<1>4. QED
  BY <1>2, <1>3, OneFirst, FS_Subset

(* Of fractions of the maximum, the lowest; then the first of its units.   *)
LEMMA LowerLinear ==
  ASSUME SetupOK, Started, Types
  PROVE  /\ \A u \in Us : ~ Engine!LowerHP(u, u)
         /\ \A u, v, w \in Us : Engine!LowerHP(u, v) /\ Engine!LowerHP(v, w) => Engine!LowerHP(u, w)
         /\ \A u, v \in Us : u = v \/ Engine!LowerHP(u, v) \/ Engine!LowerHP(v, u)
<1>1. PICK h, m : h = [u \in Us |-> units[u].hp] /\ m = [u \in Us |-> config[u].maxHP]
  OBVIOUS
<1>2. \A u \in Us : h[u] \in Nat /\ m[u] \in Nat \ {0}
  BY <1>1, GaugesTyped, ConfigTyped DEF SetupOK
<1>3. \A u, v \in Us : Engine!LowerHP(u, v) <=>
        h[u] * m[v] < h[v] * m[u] \/ (h[u] * m[v] = h[v] * m[u] /\ Engine!unitLess(u, v))
  BY <1>1 DEF Engine!LowerHP
<1>4. \A u, v \in Us : h[u] * m[v] \in Int
  BY <1>2
<1>5. ASSUME NEW u \in Us, NEW v \in Us, NEW w \in Us, Engine!LowerHP(u, v), Engine!LowerHP(v, w)
      PROVE  Engine!LowerHP(u, w)
  <2>1. h[u] * m[v] <= h[v] * m[u] /\ h[v] * m[w] <= h[w] * m[v]
    BY <1>3, <1>4, <1>5
  <2>2. /\ h[u] * m[w] <= h[w] * m[u]
        /\ h[u] * m[v] < h[v] * m[u] \/ h[v] * m[w] < h[w] * m[v] => h[u] * m[w] < h[w] * m[u]
    BY <1>2, <2>1, Crosswise
  <2>3. CASE h[u] * m[w] < h[w] * m[u]
    BY <1>3, <2>3
  <2>4. CASE ~ (h[u] * m[w] < h[w] * m[u])
    <3>1. Engine!unitLess(u, v) /\ Engine!unitLess(v, w)
      BY <1>3, <1>5, <2>2, <2>4
    <3>2. Engine!unitLess(u, w)
      BY <3>1, UnitsLinear
    <3>3. h[u] * m[w] = h[w] * m[u]
      BY <1>4, <2>2, <2>4
    <3>4. QED
      BY <1>3, <3>2, <3>3
  <2>5. QED
    BY <2>3, <2>4
<1>6. ASSUME NEW u \in Us, NEW v \in Us PROVE u = v \/ Engine!LowerHP(u, v) \/ Engine!LowerHP(v, u)
  <2>1. \/ h[u] * m[v] < h[v] * m[u] \/ h[v] * m[u] < h[u] * m[v] \/ h[u] * m[v] = h[v] * m[u]
    BY <1>4
  <2>2. QED
    BY <1>3, <2>1, UnitsLinear
<1>7. \A u \in Us : ~ Engine!LowerHP(u, u)
  BY <1>3, <1>4, UnitsLinear
<1>8. QED
  BY <1>5, <1>6, <1>7

LEMMA OneWeakest ==
  ASSUME SetupOK, Started, Types, NEW S \in SUBSET Us, S # {},
         NEW F, F = {v \in S : \A w \in S : ~ Engine!LowerHP(w, v)}
  PROVE  Cardinality(F) = 1 /\ IsFiniteSet(F)
<1>1. PICK R : R = {p \in S \X S : Engine!LowerHP(p[1], p[2])}
  OBVIOUS
<1>2. IsFiniteSet(S) /\ \A u, v \in S : <<u, v>> \in R <=> Engine!LowerHP(u, v)
  BY <1>1, UnitsNumbered, FS_Subset
<1>3. Linear(R, S)
  BY <1>2, LowerLinear DEF Linear, Strict
<1>4. F = {v \in S : \A w \in S : <<w, v>> \notin R}
  BY <1>2
<1>5. QED
  BY <1>2, <1>3, <1>4, OneFirst, FS_Subset

LEMMA OneActsFirst ==
  ASSUME SetupOK, Started, Types, NEW k \in Nat, Engine!ReadyAfter(k) # {}
  PROVE  Cardinality(Engine!FirstReady(k)) = 1
<1>1. PICK S : S = Engine!ReadyAfter(k) /\ S \in SUBSET Us
  BY DEF Engine!ReadyAfter, Engine!Living, Us
<1>2. PICK f, s, p, n :
        /\ f = [u \in Us |-> Engine!Filled(u, k)] /\ s = [u \in Us |-> Engine!Speed(u)]
        /\ p = [u \in Us |-> config[u].position] /\ n = [u \in Us |-> config[u].id]
  OBVIOUS
<1>3. \A u \in Us : f[u] \in Int /\ s[u] \in Int /\ p[u] \in Int /\ n[u] \in Int
  <2>1. ASSUME NEW u \in Us PROVE s[u] \in Int /\ f[u] \in Int
    <3>1. PICK a \in Nat, g \in Nat : a = Engine!Speed(u) /\ g = units[u].gauge
      BY Strengths, GaugesTyped
    <3>2. Engine!Filled(u, k) = g + k * a
      BY <3>1 DEF Engine!Filled
    <3>3. QED
      BY <1>2, <3>1, <3>2
  <2>2. QED
    BY <1>2, <2>1, ConfigTyped
<1>4. \A u, v \in Us : n[u] = n[v] => u = v
  BY <1>2 DEF SetupOK
<1>5. PICK R : R = {q \in S \X S : Engine!ActsBefore(k, q[1], q[2])}
  OBVIOUS
<1>6. \A u, v \in S : <<u, v>> \in R <=> Engine!ActsBefore(k, u, v)
  BY <1>5
<1>7. ASSUME NEW u \in S, NEW v \in S
      PROVE  Engine!ActsBefore(k, u, v) <=>
               \/ -f[u] < -f[v]
               \/ -f[u] = -f[v] /\ -s[u] < -s[v]
               \/ -f[u] = -f[v] /\ -s[u] = -s[v] /\ p[u] < p[v]
               \/ -f[u] = -f[v] /\ -s[u] = -s[v] /\ p[u] = p[v] /\ n[u] < n[v]
  <2>1. /\ f[u] = Engine!Filled(u, k) /\ s[u] = Engine!Speed(u)
        /\ p[u] = config[u].position /\ n[u] = config[u].id
        /\ f[v] = Engine!Filled(v, k) /\ s[v] = Engine!Speed(v)
        /\ p[v] = config[v].position /\ n[v] = config[v].id
    BY <1>1, <1>2
  <2>2. Engine!ActsBefore(k, u, v) <=>
          Engine!Lexicographic(<<-f[u], -s[u], p[u], n[u]>>, <<-f[v], -s[v], p[v], n[v]>>)
    BY <2>1 DEF Engine!ActsBefore
  <2>3. QED
    BY <2>2, FourKeys
<1>8. \A u, v \in S :
        <<u, v>> \in R <=>
          \/ f[u] > f[v]
          \/ f[u] = f[v] /\ s[u] > s[v]
          \/ f[u] = f[v] /\ s[u] = s[v] /\ p[u] < p[v]
          \/ f[u] = f[v] /\ s[u] = s[v] /\ p[u] = p[v] /\ n[u] < n[v]
  <2>1. ASSUME NEW u \in S, NEW v \in S
        PROVE  /\ -f[u] < -f[v] <=> f[u] > f[v]
               /\ -f[u] = -f[v] <=> f[u] = f[v]
               /\ -s[u] < -s[v] <=> s[u] > s[v]
               /\ -s[u] = -s[v] <=> s[u] = s[v]
    <3>1. f[u] \in Int /\ f[v] \in Int /\ s[u] \in Int /\ s[v] \in Int
      BY <1>1, <1>3
    <3>2. QED
      BY <3>1
  <2>2. QED
    BY <1>6, <1>7, <2>1
<1>9. Linear(R, S)
  <2>1. \A u \in S : f[u] \in Int /\ s[u] \in Int /\ p[u] \in Int /\ n[u] \in Int
    BY <1>1, <1>3
  <2>2. \A u \in S : <<u, u>> \notin R
    BY <1>8, <2>1
  <2>3. ASSUME NEW u \in S, NEW v \in S, NEW w \in S, <<u, v>> \in R, <<v, w>> \in R
        PROVE  <<u, w>> \in R
    BY <1>8, <2>1, <2>3
  <2>4. ASSUME NEW u \in S, NEW v \in S PROVE u = v \/ <<u, v>> \in R \/ <<v, u>> \in R
    <3>1. n[u] = n[v] => u = v
      BY <1>1, <1>4
    <3>2. QED
      BY <1>8, <2>1, <3>1
  <2>5. QED
    BY <2>2, <2>3, <2>4 DEF Linear, Strict
<1>10. Engine!FirstReady(k) = {u \in S : \A v \in S : <<v, u>> \notin R}
  BY <1>1, <1>6 DEF Engine!FirstReady
<1>11. IsFiniteSet(S) /\ S # {}
  BY <1>1, UnitsNumbered, FS_Subset
<1>12. Cardinality({u \in S : \A v \in S : <<v, u>> \notin R}) = 1
  BY <1>9, <1>11, OneFirst
<1>13. QED
  BY <1>10, <1>12

(* A living unit whose enemies live has one choice of targets.             *)
LEMMA OneTarget ==
  ASSUME SetupOK, Started, Types, NEW u \in Us, Engine!Alive(u), Engine!Enemies(u) # {},
         NEW rule \in Conf!TargetRules
  PROVE  Cardinality(Engine!targets(u, rule)) = 1
<1>1. /\ Engine!Enemies(u) \in SUBSET Us /\ Engine!Allies(u) \in SUBSET Us
      /\ u \in Engine!Allies(u)
  BY DEF Engine!Enemies, Engine!Allies, Engine!Living, Us
<1>2. CASE rule = "SELF"
  BY <1>2, FS_Singleton DEF Engine!targets
<1>3. CASE rule = "ENEMY_ALL"
  BY <1>1, <1>3, OneSorted DEF Engine!targets
<1>4. CASE rule = "ENEMY_SINGLE"
  <2>1. PICK F : F = Engine!FrontEnemies(u)
    OBVIOUS
  <2>2. Cardinality(F) = 1 /\ IsFiniteSet(F)
    BY <1>1, <2>1, OneInFront DEF Engine!FrontEnemies
  <2>3. Engine!targets(u, rule) = {<<v>> : v \in F}
    BY <1>4, <2>1 DEF Engine!targets
  <2>4. QED
    BY <2>2, <2>3, OneOfThem
<1>5. CASE rule = "ALLY_LOWEST_HP"
  <2>1. PICK F : F = Engine!WeakestAllies(u)
    OBVIOUS
  <2>2. Cardinality(F) = 1 /\ IsFiniteSet(F)
    BY <1>1, <2>1, OneWeakest DEF Engine!WeakestAllies
  <2>3. Engine!targets(u, rule) = {<<v>> : v \in F}
    BY <1>5, <2>1 DEF Engine!targets
  <2>4. QED
    BY <2>2, <2>3, OneOfThem
<1>6. CASE rule = "UNSPECIFIED"
  BY <1>6, FS_Singleton DEF Engine!targets
<1>7. QED
  BY <1>2, <1>3, <1>4, <1>5, <1>6 DEF Conf!TargetRules

(* ResultDetermined: whichever units tie, sort.Slice has no choice of who  *)
(* acts next or of whom a skill hits, and in which order: replays and the  *)
(* checksum rely on the setup and the seed alone.                          *)
THEOREM ResultIsDetermined == Spec => []ResultDetermined
<1>1. Inv => ResultDetermined
  <2>1. SUFFICES ASSUME Inv PROVE ResultDetermined
    OBVIOUS
  <2>2. SetupOK /\ Types /\ Survivors
    BY <2>1 DEF Inv
  <2>3. ASSUME Undecided PROVE Cardinality(Engine!FirstReady(Engine!Advance)) = 1
    <3>1. Started /\ Engine!Living # {}
      BY <2>3, SomeoneLives DEF Undecided, Started
    <3>2. Engine!Advance \in Nat /\ Engine!ReadyAfter(Engine!Advance) # {}
      BY <2>2, <3>1, ClockExact
    <3>3. QED
      BY <2>2, <3>1, <3>2, OneActsFirst
  <2>4. ASSUME phase = "choose", ~ Engine!Ticking, ~ Engine!MaySkip
        PROVE  Cardinality(Engine!targets(actor, Engine!chooseSkill(actor).target)) = 1
    <3>1. Started /\ Engine!Alive(actor) /\ Engine!Enemies(actor) # {} /\ actor \in Us
      BY <2>2, <2>4 DEF Started, Survivors, Types, Acting, Engine!MaySkip
    <3>2. PICK skill : skill = Engine!chooseSkill(actor)
      OBVIOUS
    <3>3. skill.target \in Conf!TargetRules
      BY <2>2, <3>1, <3>2, SkillChosen DEF Conf!BattleSkillCfg
    <3>4. QED
      BY <2>2, <3>1, <3>2, <3>3, OneTarget
  <2>5. QED
    BY <2>3, <2>4 DEF ResultDetermined
<1>2. QED
  BY Holds, <1>1, PTL
=============================================================================
