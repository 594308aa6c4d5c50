----------------------------- MODULE BattleRun ------------------------------
(***************************************************************************)
(* A battle process, from the loading of its configuration tables to the   *)
(* end of one battle: a request is built into a setup, which the engine    *)
(* runs.  One battle is enough: the engines of two share nothing but the   *)
(* tables, which do not change once they are loaded.                       *)
(***************************************************************************)
EXTENDS Integers, Sequences, FiniteSets, SequencesExt

CONSTANTS
    Collections,    \* the configuration tables' records
    Requests,       \* the StartBattleReqs the clients send
    Boots,          \* how the process may start: "main", "test"
    NoUnit,         \* nobody acts: none of the units' numbers
    Faults

VARIABLES
    loaded, booting,
    rules, config, units, tick, action, phase, actor, due, todo, outcome, turns, lastUse

confVars == <<loaded, booting>>
engineVars ==
    <<rules, config, units, tick, action, phase, actor, due, todo, outcome, turns, lastUse>>
vars == <<confVars, engineVars>>

Conf == INSTANCE ConfTables
Factory == INSTANCE BattleFactory
Engine == INSTANCE BattleEngine

ASSUME RunAssumption ==
    /\ Conf!CollectionsAssumption
    /\ Requests \subseteq Factory!StartBattleReq
    /\ Boots \subseteq {"main", "test"}
    /\ Faults \subseteq {"readFails"}
    /\ NoUnit \notin Nat

Init == Conf!Init /\ Engine!Init

Boot ==
    /\ \/ "main" \in Boots /\ Conf!LoadAllConfs
       \/ "test" \in Boots /\ Conf!SetBattleConfigs
    /\ UNCHANGED engineVars

(* newBattleFromRequest: a request that cannot be built is answered with   *)
(* an error, and no battle is made.                                        *)
StartBattle(r) ==
    /\ booting \in {"loaded", "test"}
    /\ phase = "none"
    /\ IF Factory!Buildable(r)
       THEN Engine!NewBattle(Factory!Setup(r))
       ELSE /\ phase' = "invalid"
            /\ UNCHANGED <<rules, config, units, tick, action, actor, due, todo, outcome, turns,
                            lastUse>>
    /\ UNCHANGED confVars

Run == Engine!Next /\ UNCHANGED confVars

Next == Boot \/ (\E r \in Requests : StartBattle(r)) \/ Run

Spec == Init /\ [][Next]_vars

-----------------------------------------------------------------------------
Us == Engine!Us
Fought == phase \in {"next", "begin", "choose", "effects", "end", "ended"}
Undecided == phase = "next" /\ Engine!Decided = "UNSPECIFIED"

(* A unit's HP stays between 0 and its maximum, and its gauge never passes *)
(* the threshold by a tick of its fastest speed or more.                   *)
UnitOK(u) ==
    LET c == config[u]
        haste == SumFunction([i \in DOMAIN c.initial |-> Engine!max(0, c.initial[i].modifier.speed)])
    IN  /\ units[u].hp \in 0 .. c.maxHP
        /\ units[u].gauge \in 0 .. rules.threshold - 1 + c.speed + haste
        /\ \A s \in DOMAIN units[u].cooldowns : units[u].cooldowns[s] \in Nat

TypeOK ==
    /\ Conf!TypeOK
    /\ phase \in Engine!Phases
    /\ outcome \in Engine!Outcomes
    /\ actor \in Us \cup {NoUnit}
    /\ tick \in Nat /\ action \in Nat
    /\ DOMAIN units = Us /\ DOMAIN turns = Us /\ DOMAIN lastUse = Us
    /\ \A u \in Us : UnitOK(u)

(* The clock never runs past a ready unit, nor further than the first one  *)
(* needs: nextActor's rounded division gives the least number of ticks     *)
(* after which a living unit is ready, and so Run's "no living battle unit *)
(* available" is never returned.                                           *)
AdvanceExact ==
    /\ phase # "error"
    /\ Undecided =>
         /\ Engine!ReadyAfter(Engine!Advance) # {}
         /\ Engine!Advance > 0 => Engine!ReadyAfter(Engine!Advance - 1) = {}

(* Nothing of a unit's time is lost or given twice: what filled its gauge  *)
(* since the start is what its turns have cost and what is left, for a     *)
(* living unit no status makes faster or slower.                           *)
TurnsArePaid ==
    \A u \in Us :
      (/\ Engine!Alive(u)
       /\ \A i \in DOMAIN config[u].initial : config[u].initial[i].modifier.speed = 0)
      => units[u].gauge + rules.threshold * turns[u] = tick * config[u].speed

(* The result is a function of the setup and the seed, which replays and   *)
(* the checksum rely on: who acts next and whom a skill hits never depends *)
(* on the order sort.Slice leaves equal units in.                          *)
ResultDetermined ==
    /\ Undecided => Cardinality(Engine!FirstReady(Engine!Advance)) = 1
    /\ phase = "choose" /\ ~ Engine!Ticking /\ ~ Engine!MaySkip =>
         Cardinality(Engine!targets(actor, Engine!chooseSkill(actor).target)) = 1

(* A client that replays the damage and heal events from full HP shows the *)
(* engine's HP after every event: amounts are capped as the HP is.         *)
EventsReplay == \A u \in Us : units[u].shown = units[u].hp

(* The outcome names the team that survives.  A draw is only ever the      *)
(* limit of actions: no action, an actor dying of its own status or its    *)
(* own skill included, leaves both teams dead.                             *)
OutcomeTrue ==
    /\ Fought => Engine!TeamAlive("ATTACKER") \/ Engine!TeamAlive("DEFENDER")
    /\ phase = "ended" =>
         /\ outcome = "ATTACKER_WIN" <=> ~ Engine!TeamAlive("DEFENDER")
         /\ outcome = "DEFENDER_WIN" <=> ~ Engine!TeamAlive("ATTACKER")
         /\ outcome = "DRAW" => action = rules.maxActions

(* No effect, status or later effect of the same skill brings a dead unit  *)
(* back, and a dead unit begins no action.                                 *)
DeadStayDead ==
    [][\A u \in Us : ~ Engine!Alive(u) =>
          /\ units'[u].hp = 0
          /\ phase = "next" => actor' # u]_vars

(* A skill with a cooldown of n is used again n turns of its unit later at *)
(* the earliest, the turns it is stunned or silenced in included.          *)
CooldownHeld ==
    [][\A u \in Us : \A s \in ToSet(config[u].active) :
          (/\ s.id # config[u].basic.id
           /\ lastUse[u][s.id] # 0
           /\ lastUse'[u][s.id] # lastUse[u][s.id])
          => lastUse'[u][s.id] - lastUse[u][s.id] >= s.cooldown]_vars
=============================================================================
