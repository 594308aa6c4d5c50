---------------------------- MODULE BattleEngine ----------------------------
(***************************************************************************)
(* battle/battle/internal/engine: an automatic battle, from its setup to   *)
(* its outcome.  Units fill a gauge at their speed; the one whose gauge    *)
(* passes the threshold first acts.  Run is one loop without interleaving; *)
(* its steps are actions here so that every state between two events can   *)
(* be looked at.  The dice of a battle depend on its seed: every roll the  *)
(* rules allow is a choice.                                                *)
(***************************************************************************)
EXTENDS Integers, Sequences, FiniteSets, SequencesExt

CONSTANT NoUnit

VARIABLES
    rules,      \* of the setup
    config,     \* the units' configuration, by index
    units,      \* the units: gauge, cooldowns, statuses, and the HP they have
                \* and a client that replays the events shows
    tick,       \* the battle's clock
    action,     \* the number of actions begun
    phase,      \* where Run stands
    actor,      \* the unit that acts
    due,        \* those of its statuses that still have to tick
    todo,       \* the effects of its skill still to be applied
    outcome,
    turns,      \* of each unit, the turns it has taken
    lastUse     \* of each unit, the turn of its last use of a skill, or 0

engineVars ==
    <<rules, config, units, tick, action, phase, actor, due, todo, outcome, turns, lastUse>>

max(left, right) == IF left > right THEN left ELSE right
min(left, right) == IF left < right THEN left ELSE right

Us == DOMAIN config
Teams == {"ATTACKER", "DEFENDER"}
Outcomes == {"UNSPECIFIED", "ATTACKER_WIN", "DEFENDER_WIN", "DRAW"}
Phases == {"none", "next", "begin", "choose", "effects", "end", "ended", "error", "invalid"}
SkillIds(u) == {s.id : s \in ToSet(config[u].active)}

Alive(u) == units[u].hp > 0
Left(u) == {i \in DOMAIN units[u].statuses : units[u].statuses[i] > 0}
HasStatus(u, kind) == \E i \in Left(u) : config[u].initial[i].kind = kind
Modifier(u, attribute) ==
    SumFunction([i \in DOMAIN config[u].initial |->
                   IF i \in Left(u) THEN config[u].initial[i].modifier[attribute] ELSE 0])
Attack(u) == max(0, config[u].attack + Modifier(u, "attack"))
Defense(u) == max(0, config[u].defense + Modifier(u, "defense"))
Speed(u) == max(1, config[u].speed + Modifier(u, "speed"))

TeamAlive(team) == \E u \in Us : config[u].team = team /\ Alive(u)

(* outcome(): what the living teams say, UNSPECIFIED while both live.      *)
Decided ==
    IF TeamAlive("ATTACKER")
    THEN IF TeamAlive("DEFENDER") THEN "UNSPECIFIED" ELSE "ATTACKER_WIN"
    ELSE IF TeamAlive("DEFENDER") THEN "DEFENDER_WIN" ELSE "DRAW"

-----------------------------------------------------------------------------
Init ==
    /\ rules = <<>> /\ config = <<>> /\ units = <<>>
    /\ tick = 0 /\ action = 0
    /\ phase = "none" /\ actor = NoUnit /\ due = {} /\ todo = <<>>
    /\ outcome = "UNSPECIFIED"
    /\ turns = <<>> /\ lastUse = <<>>

(* Mutant: instance ids are not compared.                                  *)
ValidTwins(setup) ==
    /\ setup.rules.threshold > 0
    /\ setup.rules.maxActions > 0
    /\ Len(setup.units) >= 2
    /\ \A i \in DOMAIN setup.units : setup.units[i].maxHP > 0 /\ setup.units[i].speed > 0
    /\ {setup.units[i].team : i \in DOMAIN setup.units} = Teams

(* Setup.validate.                                                         *)
Valid(setup) ==
    LET us == setup.units IN
    /\ setup.rules.threshold > 0
    /\ setup.rules.maxActions > 0
    /\ Len(us) >= 2
    /\ \A i, j \in DOMAIN us : us[i].id = us[j].id => i = j
    /\ \A i \in DOMAIN us : us[i].maxHP > 0 /\ us[i].speed > 0
    /\ {us[i].team : i \in DOMAIN us} = Teams

(* Of a status a unit keeps the turns it has left: what it does is in the  *)
(* configuration, since no effect of a skill can give a unit another one.  *)
NewUnit(c) ==
    [hp |-> c.maxHP, shown |-> c.maxHP, gauge |-> 0,
     cooldowns |-> [s \in {a.id : a \in ToSet(c.active)} |-> 0],
     statuses |-> [i \in DOMAIN c.initial |-> c.initial[i].duration]]

NewBattle(setup) ==
    /\ phase = "none"
    /\ IF Valid(setup)
       THEN /\ rules' = setup.rules
            /\ config' = setup.units
            /\ units' = [i \in DOMAIN setup.units |-> NewUnit(setup.units[i])]
            /\ turns' = [i \in DOMAIN setup.units |-> 0]
            /\ lastUse' = [i \in DOMAIN setup.units |->
                 [s \in {a.id : a \in ToSet(setup.units[i].active)} |-> 0]]
            /\ phase' = "next"
       ELSE phase' = "invalid" /\ UNCHANGED <<rules, config, units, turns, lastUse>>
    /\ UNCHANGED <<tick, action, actor, due, todo, outcome>>

-----------------------------------------------------------------------------
(* nextActor: the clock advances until the first living unit is ready.     *)
Living == {u \in Us : Alive(u)}

(* Mutant: the division rounds down.                                       *)
TicksDown(u) == max(0, rules.threshold - units[u].gauge) \div Speed(u)

TicksTo(u) ==
    LET need == rules.threshold - units[u].gauge
    IN  IF need > 0 THEN (need + Speed(u) - 1) \div Speed(u) ELSE 0

Advance == Min({TicksTo(u) : u \in Living})

Filled(u, ticks) == units[u].gauge + ticks * Speed(u)

ReadyAfter(ticks) == {u \in Living : Filled(u, ticks) >= rules.threshold}

(* Whether a ready unit acts before another one, and unitLess.             *)
Lexicographic(l, r) ==
    \E k \in DOMAIN l : l[k] < r[k] /\ \A j \in 1 .. k - 1 : l[j] = r[j]

ActsBefore(ticks, u, v) ==
    LET Key(x) == <<-Filled(x, ticks), -Speed(x), config[x].position, config[x].id>>
    IN  Lexicographic(Key(u), Key(v))

unitLess(u, v) ==
    LET Key(x) == <<config[x].position, config[x].id>>
    IN  Lexicographic(Key(u), Key(v))

(* sort.Slice is not stable: among equals any may come first.              *)
FirstReady(ticks) ==
    {u \in ReadyAfter(ticks) : \A v \in ReadyAfter(ticks) : ~ ActsBefore(ticks, v, u)}

NextActor ==
    /\ phase = "next"
    /\ action < rules.maxActions
    /\ Decided = "UNSPECIFIED"
    /\ tick' = tick + Advance
    /\ units' = [u \in Us |-> IF Alive(u) THEN [units[u] EXCEPT !.gauge = Filled(u, Advance)]
                                          ELSE units[u]]
    /\ IF ReadyAfter(Advance) = {}
       THEN phase' = "error" /\ UNCHANGED <<actor, action>>
       ELSE /\ actor' \in FirstReady(Advance)
            /\ action' = action + 1
            /\ phase' = "begin"
    /\ UNCHANGED <<rules, config, due, todo, outcome, turns, lastUse>>

-----------------------------------------------------------------------------
(* What a client reads of an event of a unit to follow its HP.  Events     *)
(* that change no HP are left out, and their numbering with them.          *)
BattleEvent(type, amount) == [type |-> type, amount |-> amount]

(* emit: the client that replays the event changes the HP it shows.        *)
emit(x, event) ==
    [x EXCEPT !.shown = IF event.type = "HEAL" THEN @ + event.amount ELSE @ - event.amount]

(* Mutant: the event says the damage that was rolled.                      *)
HurtRolled(x, n) == emit([x EXCEPT !.hp = @ - min(n, x.hp)], BattleEvent("DAMAGE", n))

(* Mutant: a unit is healed past its maximum.                              *)
CureOver(x, n, maxHP) == emit([x EXCEPT !.hp = @ + n], BattleEvent("HEAL", n))

(* Mutant: a cooldown ends a turn early.                                   *)
CooledEarly(cooldowns) ==
    [s \in DOMAIN cooldowns |-> IF cooldowns[s] <= 2 THEN 0 ELSE cooldowns[s] - 1]

(* Damage and healing, capped before they are told.                        *)
Hurt(x, n) ==
    LET amount == min(n, x.hp)
    IN  emit([x EXCEPT !.hp = @ - amount], BattleEvent("DAMAGE", amount))

Cure(x, n, maxHP) ==
    LET hp == min(maxHP, x.hp + n)
    IN  emit([x EXCEPT !.hp = hp], BattleEvent("HEAL", hp - x.hp))

(* tickCooldowns.                                                          *)
Cooled(cooldowns) == [s \in DOMAIN cooldowns |-> max(0, cooldowns[s] - 1)]

BeginAction ==
    /\ phase = "begin"
    /\ units' = [units EXCEPT ![actor].cooldowns = Cooled(@)]
    /\ due' = DOMAIN units[actor].statuses
    /\ phase' = "choose"
    /\ UNCHANGED <<rules, config, tick, action, actor, todo, outcome, turns, lastUse>>

Ticked(u, status) ==
    CASE status.kind = "DOT" -> Hurt(units[u], status.potency)
      [] status.kind = "HOT" -> Cure(units[u], status.potency, config[u].maxHP)
      [] OTHER -> units[u]

(* tickPeriodic: the statuses in their order, until the unit is dead.      *)
Ticking == phase = "choose" /\ due # {} /\ Alive(actor)

TickStatus ==
    /\ Ticking
    /\ LET i == Min(due)
       IN  /\ units' = [units EXCEPT ![actor] = Ticked(actor, config[actor].initial[i])]
           /\ due' = due \ {i}
    /\ UNCHANGED <<rules, config, tick, action, phase, actor, todo, outcome, turns, lastUse>>

(* Mutant: execute does not look whether its status killed the actor.      *)
SkipStunned == HasStatus(actor, "STUN")

(* The actor is dead or stunned.                                           *)
MaySkip == ~ Alive(actor) \/ HasStatus(actor, "STUN")

Skip ==
    /\ phase = "choose" /\ ~ Ticking
    /\ MaySkip
    /\ phase' = "end"
    /\ due' = {}
    /\ UNCHANGED <<rules, config, units, tick, action, actor, todo, outcome, turns, lastUse>>

chooseSkill(u) ==
    LET usable == {i \in DOMAIN config[u].active :
                     units[u].cooldowns[config[u].active[i].id] = 0}
    IN  IF HasStatus(u, "SILENCE") \/ usable = {} THEN config[u].basic
        ELSE config[u].active[Min(usable)]

(* The units a skill is for, in the order they are hit.  A living actor    *)
(* has enemies, or the battle would have been decided.                     *)
Enemies(u) == {v \in Living : config[v].team # config[u].team}
Allies(u) == {v \in Living : config[v].team = config[u].team}

LowerHP(u, v) ==
    LET l == units[u].hp * config[v].maxHP
        r == units[v].hp * config[u].maxHP
    IN  l < r \/ (l = r /\ unitLess(u, v))

FrontEnemies(u) == {v \in Enemies(u) : \A w \in Enemies(u) : ~ unitLess(w, v)}
WeakestAllies(u) == {v \in Allies(u) : \A w \in Allies(u) : ~ LowerHP(w, v)}

(* The orders that sort.Slice may leave us in.                             *)
Sorted(us) ==
    {s \in SetToSeqs(us) : \A i, j \in DOMAIN s : i < j => ~ unitLess(s[j], s[i])}

targets(u, rule) ==
    CASE rule = "SELF" -> {<<u>>}
      [] rule = "ENEMY_ALL" -> Sorted(Enemies(u))
      [] rule = "ENEMY_SINGLE" -> {<<v>> : v \in FrontEnemies(u)}
      [] rule = "ALLY_LOWEST_HP" -> {<<v>> : v \in WeakestAllies(u)}
      [] OTHER -> {<<>>}

(* Every effect on the first target, then every effect on the next.        *)
EffectsOn(hit, effects) ==
    LET n == Len(effects)
    IN  [k \in 1 .. Len(hit) * n |->
           [target |-> hit[((k - 1) \div n) + 1],
            effect |-> effects[((k - 1) % n) + 1]]]

UseSkill ==
    /\ phase = "choose" /\ ~ Ticking
    /\ ~ MaySkip
    /\ LET skill == chooseSkill(actor)
           counts == skill.cooldown > 0 /\ skill.id # config[actor].basic.id
       IN  /\ \E hit \in targets(actor, skill.target) : todo' = EffectsOn(hit, skill.effects)
           /\ units' = IF counts
                       THEN [units EXCEPT ![actor].cooldowns[skill.id] = skill.cooldown]
                       ELSE units
           /\ lastUse' = IF skill.id \in SkillIds(actor)
                         THEN [lastUse EXCEPT ![actor][skill.id] = turns[actor] + 1]
                         ELSE lastUse
    /\ phase' = "effects"
    /\ UNCHANGED <<rules, config, tick, action, actor, due, outcome, turns>>

-----------------------------------------------------------------------------
(* The damage pipeline: what Calculate may roll.                           *)
Varied(amount) ==
    {(amount * (1000 + offset)) \div 1000 : offset \in -rules.variance .. rules.variance}

Crits ==
    {c \in BOOLEAN : IF c THEN rules.critChance > 0 ELSE rules.critChance < 1000}

Damage(u, v, e) ==
    LET base == (max(1, Attack(u) - Defense(v)) * e.coefficient) \div 1000 + e.flat
        Crit(n, c) == IF c THEN (n * rules.critMultiplier) \div 1000 ELSE n
    IN  {max(1, Crit(n, c)) : n \in Varied(base), c \in Crits}

HealAmount(u, e) == max(0, (Attack(u) * e.coefficient) \div 1000 + e.flat)

(* Mutant: targets are not looked at again once they are chosen.           *)
AffectedAnyway(u, v, e) ==
    CASE e.kind = "DAMAGE" -> {Hurt(units[v], n) : n \in Damage(u, v, e)}
      [] e.kind = "HEAL" -> {Cure(units[v], HealAmount(u, e), config[v].maxHP)}
      [] OTHER -> {units[v]}

(* applyEffect: an effect on a dead target, or of a status, changes        *)
(* nothing.                                                                *)
Affected(u, v, e) ==
    IF ~ Alive(v) THEN {units[v]}
    ELSE CASE e.kind = "DAMAGE" -> {Hurt(units[v], n) : n \in Damage(u, v, e)}
           [] e.kind = "HEAL" -> {Cure(units[v], HealAmount(u, e), config[v].maxHP)}
           [] OTHER -> {units[v]}

ApplyEffect ==
    /\ phase = "effects"
    /\ todo # <<>>
    /\ LET v == Head(todo).target
       IN  \E x \in Affected(actor, v, Head(todo).effect) : units' = [units EXCEPT ![v] = x]
    /\ todo' = Tail(todo)
    /\ UNCHANGED <<rules, config, tick, action, phase, actor, due, outcome, turns, lastUse>>

(* expireStatuses.                                                         *)
Expired(left) == [i \in {j \in DOMAIN left : left[j] > 1} |-> left[i] - 1]

(* Mutant: an action empties the gauge.                                    *)
PaidAll(gauge) == 0

Paid(gauge) == max(0, gauge - rules.threshold)

EndAction ==
    /\ phase = "end" \/ (phase = "effects" /\ todo = <<>>)
    /\ units' = [units EXCEPT ![actor].statuses = Expired(@), ![actor].gauge = Paid(@)]
    /\ turns' = [turns EXCEPT ![actor] = @ + 1]
    /\ phase' = "next"
    /\ actor' = NoUnit
    /\ UNCHANGED <<rules, config, tick, action, due, todo, outcome, lastUse>>

(* Run's end: the last action decides, the limit of actions is a draw.     *)
Verdict == IF Decided # "UNSPECIFIED" THEN Decided ELSE "DRAW"

Finish ==
    /\ phase = "next"
    /\ Decided # "UNSPECIFIED" \/ action >= rules.maxActions
    /\ outcome' = Verdict
    /\ phase' = "ended"
    /\ UNCHANGED <<rules, config, units, tick, action, actor, due, todo, turns, lastUse>>

Next ==
    \/ NextActor \/ BeginAction \/ TickStatus \/ Skip \/ UseSkill
    \/ ApplyEffect \/ EndAction \/ Finish
=============================================================================
