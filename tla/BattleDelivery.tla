--------------------------- MODULE BattleDelivery ---------------------------
(***************************************************************************)
(* The game's BattleClient, the battle processes' managers and their       *)
(* BattleActors over NATS.  Core NATS delivers at most once, and in order  *)
(* between one battle actor and the game: one publisher, one connection,   *)
(* one subscription goroutine, one mailbox.  Nothing is ordered between    *)
(* battles.  The kinds of failure a run allows are in Faults.              *)
(***************************************************************************)
EXTENDS Naturals, Sequences

CONSTANTS
    Players, Battles, Nodes,
    NoPlayer, NoBattle, NoNode,
    NumEvents,      \* length of the event list of a report
    RetryAttempts,  \* Params.RetryAttempts
    MaxRestarts,    \* bound on the restarts of processes
    Faults          \* the kinds of failure that may happen

FaultKinds == {"loss", "start", "timeout", "reject", "create", "run",
               "gameRestart", "nodeCrash"}

ASSUME DeliveryAssumption ==
    /\ NoPlayer \notin Players
    /\ NoBattle \notin Battles
    /\ NoNode \notin Nodes
    /\ NumEvents \in Nat
    /\ RetryAttempts \in Nat \ {0}
    /\ MaxRestarts \in Nat
    /\ Faults \subseteq FaultKinds

VARIABLES
    status, battleID, node, seen, completed,    \* BattleClient
    owner, home, shown, everApplied,
    active,                                     \* BattleService
    phase, pushed, attempts, timer, reports,    \* BattleActor
    starts, toGame, confirms, stopped,          \* messages on their way
    restarts                                    \* restarts so far

Client == INSTANCE BattleClient
Service == INSTANCE BattleService
Actor == INSTANCE BattleActor

clientOnly == <<status, battleID, node, seen, completed, owner, shown, everApplied>>
actorOnly == <<phase, pushed, attempts, timer, reports>>
vars == <<clientOnly, actorOnly, home, active, starts, toGame, confirms,
          stopped, restarts>>

TypeOK ==
    /\ Client!TypeOK
    /\ Service!TypeOK
    /\ Actor!TypeOK
    /\ restarts \in 0..MaxRestarts

Init ==
    /\ Client!Init
    /\ Service!Init
    /\ Actor!Init
    /\ restarts = 0

-----------------------------------------------------------------------------
GameCalls(u) == Client!Call(u) /\ UNCHANGED <<actorOnly, active, stopped, restarts>>

GameReceives(b) ==
    Client!Receive(b) /\ UNCHANGED <<actorOnly, active, stopped, restarts>>

ServiceStep(b) ==
    /\ Service!Step(b)
    /\ UNCHANGED <<clientOnly, pushed, attempts, timer, reports, home, toGame,
                   confirms, restarts>>

ActorStep(b) ==
    Actor!Step(b) /\ UNCHANGED <<clientOnly, active, starts, restarts>>

LoseNotification(b) ==
    /\ "loss" \in Faults
    /\ toGame[b] # <<>>
    /\ toGame' = [toGame EXCEPT ![b] = Tail(@)]
    /\ UNCHANGED <<clientOnly, actorOnly, home, active, starts, confirms,
                   stopped, restarts>>

LoseStart(b) ==
    /\ "loss" \in Faults
    /\ b \in starts
    /\ starts' = starts \ {b}
    /\ UNCHANGED <<clientOnly, actorOnly, home, active, toGame, confirms,
                   stopped, restarts>>

(* A confirmation is lost on the way, or finds no actor of that name on    *)
(* the node it was sent to and is dropped with a log line.                 *)
LoseConfirm ==
    \E c \in confirms :
      /\ \/ "loss" \in Faults
         \/ c.node # home[c.battle]
         \/ phase[c.battle] = "stopped"
      /\ confirms' = confirms \ {c}
      /\ UNCHANGED <<clientOnly, actorOnly, home, active, starts, toGame,
                     stopped, restarts>>

GameRestarts ==
    /\ "gameRestart" \in Faults
    /\ restarts < MaxRestarts
    /\ restarts' = restarts + 1
    /\ Client!Restart
    /\ UNCHANGED <<actorOnly, active, stopped>>

NodeCrashes(n) ==
    /\ "nodeCrash" \in Faults
    /\ restarts < MaxRestarts
    /\ restarts' = restarts + 1
    /\ Actor!Crash(n)
    /\ active' = {b \in active : home[b] # n}
    /\ UNCHANGED <<clientOnly, starts>>

Next ==
    \/ \E u \in Players : GameCalls(u)
    \/ \E b \in Battles : GameReceives(b) \/ ServiceStep(b) \/ ActorStep(b)
    \/ \E b \in Battles : LoseNotification(b) \/ LoseStart(b)
    \/ LoseConfirm
    \/ GameRestarts
    \/ \E n \in Nodes : NodeCrashes(n)

Spec == Init /\ [][Next]_vars

(* Goroutines run, timers fire and what NATS does not lose it delivers.    *)
(* Nobody has to begin a battle.                                           *)
Fairness ==
    \A b \in Battles :
      WF_vars(GameReceives(b)) /\ WF_vars(ServiceStep(b)) /\ WF_vars(ActorStep(b))

FairSpec == Spec /\ Fairness

-----------------------------------------------------------------------------
(* Invariants.                                                             *)

(* What the player sees of a battle is in order and without repeats:       *)
(* Created, the actions by sequence, one Finished, whatever was lost or    *)
(* retried (client.go created, action and finished).                       *)
ShownInOrder ==
    \A b \in Battles : \A i, j \in 1..Len(shown[b]) :
        i < j => shown[b][i] < shown[b][j]

(* A player is never in a battle that is already decided, nor in somebody  *)
(* else's: such a record could not leave Running any more.                 *)
RunningIsOpen ==
    \A u \in Players : status[u] = "Running" =>
        /\ battleID[u] \in Battles \ completed
        /\ owner[battleID[u]] = u

(* report.go: a Finished notification is never sent before its report is   *)
(* saved.                                                                  *)
SavedBeforeFinished ==
    \A b \in Battles : \A i \in 1..Len(toGame[b]) :
        toGame[b][i] = Actor!Finished => reports[b] # "none"

(* The store takes a battle for confirmed only when the game applied it.   *)
ConfirmedWasApplied ==
    \A b \in Battles : reports[b] = "confirmed" => b \in everApplied

(* The manager's table lists the battles whose actor lives, and those      *)
(* whose ActorStopped it has not handled yet (ctl_battle.go).              *)
ActiveMatchesActors ==
    \A b \in Battles :
        b \in active <=> (phase[b] \notin {"absent", "stopped"} \/ b \in stopped)

(* Seen through the report store and the applied results, delivery is the  *)
(* abstract BattleResult.                                                  *)
Result == INSTANCE BattleResult WITH store <- reports, applied <- everApplied
RefinesResult == Result!Spec

-----------------------------------------------------------------------------
(* Liveness.                                                               *)

(* Every battle is taken off the manager's table, with or without the      *)
(* confirmation, whatever is lost: the retries are bounded.                *)
BattleReleased == \A b \in Battles : b \in active ~> b \notin active

(* When nothing fails, the result of every battle asked for is applied.    *)
ResultApplied == \A b \in Battles : b \in starts ~> b \in everApplied

-----------------------------------------------------------------------------
(* What comments of the code say and the code does not do.                 *)

(* client.go:208: duplicate results are acknowledged without reapplying.   *)
DuplicatesAcknowledged ==
    [][\A b \in Battles : Client!FinishedIgnored(b) => b \notin completed]_vars

(* client.go:282: a confirmation goes straight to the actor of its battle. *)
ConfirmsReachBattle == \A c \in confirms : c.node = home[c.battle]

(* client.go:157: after Start is published, Created or Finished brings the *)
(* record out of CreateUnknown.                                            *)
StartRecovers ==
    \A u \in Players : status[u] = "CreateUnknown" ~> status[u] # "CreateUnknown"
=============================================================================
