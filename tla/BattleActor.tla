---------------------------- MODULE BattleActor ----------------------------
(***************************************************************************)
(* One battle of the battle process: the actor that runs the engine, saves *)
(* the report, pushes Created, the actions and Finished to the game node   *)
(* and then waits for the confirmation or retries Finished on a timer      *)
(* (battle/battle/internal/actor.go).                                      *)
(*                                                                         *)
(* OnInit runs to its end before any message is handled, but each Notify   *)
(* is visible outside when it is made, so `begin` is cut at its            *)
(* notifications and at the Save.  A notification that fails is only       *)
(* logged: for the receiver it is a lost message, which BattleDelivery     *)
(* models.  No caller of the repository spawns an actor in ModeRedeliver   *)
(* or sends RetireBattle, so both are left out.                            *)
(***************************************************************************)
EXTENDS Naturals, Sequences

CONSTANTS
    Battles,        \* battle identifiers
    Nodes,          \* battle nodes
    NoNode,         \* the zero Node{0, 0}
    NumEvents,      \* length of the event list of a report
    RetryAttempts,  \* Params.RetryAttempts, 3 in ctl_battle.go
    Faults          \* the kinds of failure that may happen

VARIABLES
    phase,      \* how far the actor of a battle has come
    pushed,     \* number of actions pushed
    attempts,   \* BattleActor.attempts
    timer,      \* a retry timer runs, or its tick waits in the mailbox
    reports,    \* the Repository: what is stored for each battle
    home,       \* the node of each battle
    toGame,     \* notifications of each battle on their way to the game
    confirms,   \* confirmations on their way to a battle actor
    stopped     \* ActorStopped messages in the manager's mailbox

actorVars == <<phase, pushed, attempts, timer, reports>>
vars == <<phase, pushed, attempts, timer, reports, home, toGame, confirms, stopped>>

(* The notifications of a battle in the order the actor pushes them: 0 is  *)
(* Created, k \in 1..NumEvents the action with sequence k, NumEvents + 1   *)
(* Finished.                                                               *)
Created == 0
Finished == NumEvents + 1
Notifications == Created..Finished

(* A confirmation and the node whose actor it is cast to.                  *)
BattleResultConfirmedNtf == [battle : Battles, node : Nodes \cup {NoNode}]

Phases == {"absent", "begin", "run", "push", "wait", "stopped"}

TypeOK ==
    /\ phase \in [Battles -> Phases]
    /\ pushed \in [Battles -> 0..NumEvents]
    /\ attempts \in [Battles -> 0..RetryAttempts]
    /\ timer \in [Battles -> BOOLEAN]
    /\ reports \in [Battles -> {"none", "saved", "confirmed", "lost"}]
    /\ home \in [Battles -> Nodes \cup {NoNode}]
    /\ toGame \in [Battles -> Seq(Notifications)]
    /\ confirms \subseteq BattleResultConfirmedNtf
    /\ stopped \subseteq Battles

Init ==
    /\ phase = [b \in Battles |-> "absent"]
    /\ pushed = [b \in Battles |-> 0]
    /\ attempts = [b \in Battles |-> 0]
    /\ timer = [b \in Battles |-> FALSE]
    /\ reports = [b \in Battles |-> "none"]
    /\ home = [b \in Battles |-> NoNode]
    /\ toGame = [b \in Battles |-> <<>>]
    /\ confirms = {}
    /\ stopped = {}

-----------------------------------------------------------------------------
Notify(b, m) == toGame' = [toGame EXCEPT ![b] = Append(@, m)]

(* Mutant: the manager is not told.                                        *)
finishSilently(b) ==
    /\ phase' = [phase EXCEPT ![b] = "stopped"]
    /\ timer' = [timer EXCEPT ![b] = FALSE]
    /\ UNCHANGED stopped

finish(b) ==
    /\ phase' = [phase EXCEPT ![b] = "stopped"]
    /\ timer' = [timer EXCEPT ![b] = FALSE]
    /\ stopped' = stopped \cup {b}

(* Mutant: the retry is not scheduled again.                               *)
pushFinishedOnce(b) ==
    /\ Notify(b, Finished)
    /\ attempts' = [attempts EXCEPT ![b] = @ + 1]
    /\ timer' = [timer EXCEPT ![b] = FALSE]

pushFinished(b) ==
    /\ Notify(b, Finished)
    /\ attempts' = [attempts EXCEPT ![b] = @ + 1]
    /\ timer' = [timer EXCEPT ![b] = TRUE]

(* newBattleFromRequest fails: the actor stops without telling the game.   *)
CreateEngineFails(b) ==
    /\ "create" \in Faults
    /\ phase[b] = "begin"
    /\ finish(b)
    /\ UNCHANGED <<pushed, attempts, reports, home, toGame, confirms>>

notifyCreated(b) ==
    /\ phase[b] = "begin"
    /\ Notify(b, Created)
    /\ phase' = [phase EXCEPT ![b] = "run"]
    /\ UNCHANGED <<pushed, attempts, timer, reports, home, confirms, stopped>>

(* Battle.Run or Reports.Save fails: Created is out, Finished never comes. *)
RunFails(b) ==
    /\ "run" \in Faults
    /\ phase[b] = "run"
    /\ finish(b)
    /\ UNCHANGED <<pushed, attempts, reports, home, toGame, confirms>>

(* Mutant: the report is pushed without being stored.                      *)
SaveSkipped(b) == UNCHANGED reports

Save(b) == reports' = [reports EXCEPT ![b] = "saved"]

RunAndSave(b) ==
    /\ phase[b] = "run"
    /\ Save(b)
    /\ phase' = [phase EXCEPT ![b] = "push"]
    /\ UNCHANGED <<pushed, attempts, timer, home, toGame, confirms, stopped>>

pushAction(b) ==
    /\ phase[b] = "push"
    /\ pushed[b] < NumEvents
    /\ Notify(b, pushed[b] + 1)
    /\ pushed' = [pushed EXCEPT ![b] = @ + 1]
    /\ UNCHANGED <<phase, attempts, timer, reports, home, confirms, stopped>>

FirstFinished(b) ==
    /\ phase[b] = "push"
    /\ pushed[b] = NumEvents
    /\ pushFinished(b)
    /\ phase' = [phase EXCEPT ![b] = "wait"]
    /\ UNCHANGED <<pushed, reports, home, confirms, stopped>>

(* Mutant: one attempt too many.                                           *)
ExhaustedLate(b) == attempts[b] > RetryAttempts

Exhausted(b) == attempts[b] >= RetryAttempts

(* The timer has sent a retryTick.                                         *)
retry(b) ==
    /\ phase[b] = "wait"
    /\ timer[b]
    /\ \/ /\ Exhausted(b)
          /\ finish(b)
          /\ UNCHANGED <<attempts, toGame>>
       \/ /\ ~Exhausted(b)
          /\ pushFinished(b)
          /\ UNCHANGED <<phase, stopped>>
    /\ UNCHANGED <<pushed, reports, home, confirms>>

Confirm(b) == reports' = [reports EXCEPT ![b] = "confirmed"]

(* BattleResultConfirmedNtf reaches the actor, which is registered by name *)
(* on its node only.                                                       *)
confirm(b) ==
    /\ phase[b] = "wait"
    /\ [battle |-> b, node |-> home[b]] \in confirms
    /\ confirms' = confirms \ {[battle |-> b, node |-> home[b]]}
    /\ Confirm(b)
    /\ finish(b)
    /\ UNCHANGED <<pushed, attempts, home, toGame>>

Step(b) ==
    \/ notifyCreated(b) \/ RunAndSave(b) \/ pushAction(b) \/ FirstFinished(b)
    \/ retry(b) \/ confirm(b) \/ CreateEngineFails(b) \/ RunFails(b)

(* The battle process dies: its actors and its in-memory repository go.    *)
Crash(n) ==
    LET here == {b \in Battles : home[b] = n /\ phase[b] # "absent"} IN
    /\ phase' = [b \in Battles |-> IF b \in here THEN "stopped" ELSE phase[b]]
    /\ timer' = [b \in Battles |-> timer[b] /\ b \notin here]
    /\ reports' = [b \in Battles |->
                     IF b \in here /\ reports[b] # "none" THEN "lost" ELSE reports[b]]
    /\ stopped' = stopped \ here
    /\ UNCHANGED <<pushed, attempts, home, toGame, confirms>>
=============================================================================
