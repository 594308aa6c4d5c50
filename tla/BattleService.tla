--------------------------- MODULE BattleService ---------------------------
(***************************************************************************)
(* The manager of a battle process (battle/service/internal): it spawns a  *)
(* BattleActor for each StartBattleReq and keeps the live ones in `active` *)
(* until they report that they have stopped.  The fresh uuid the manager   *)
(* gives a battle is bound to the request when the game makes it: nothing  *)
(* reads it in between.                                                    *)
(***************************************************************************)
EXTENDS Naturals

CONSTANTS
    Battles,    \* battle identifiers
    Faults      \* the kinds of failure that may happen

VARIABLES
    active,     \* Server.active: the registered battles (of every node)
    starts,     \* StartBattleReq on their way to the manager
    phase,      \* the state of each battle's actor, see BattleActor
    stopped     \* ActorStopped messages in the manager's mailbox

vars == <<active, starts, phase, stopped>>

TypeOK ==
    /\ active \subseteq Battles
    /\ starts \subseteq Battles

Init ==
    /\ active = {}
    /\ starts = {}

(* The request is valid: spawn the actor, register it.                     *)
OnCreateBattle(b) ==
    /\ b \in starts
    /\ starts' = starts \ {b}
    /\ phase' = [phase EXCEPT ![b] = "begin"]
    /\ active' = active \cup {b}
    /\ UNCHANGED stopped

(* The battle type is missing.  The error answers a Cast: nobody gets it.  *)
RejectCreate(b) ==
    /\ "reject" \in Faults
    /\ b \in starts
    /\ starts' = starts \ {b}
    /\ UNCHANGED <<active, phase, stopped>>

OnActorStopped(b) ==
    /\ b \in stopped
    /\ stopped' = stopped \ {b}
    /\ active' = active \ {b}
    /\ UNCHANGED <<starts, phase>>

Step(b) == OnCreateBattle(b) \/ OnActorStopped(b) \/ RejectCreate(b)
=============================================================================
