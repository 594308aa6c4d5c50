---------------------------- MODULE BattleClient ----------------------------
(***************************************************************************)
(* The game node's actor for battles (game/battleclient/client.go): one    *)
(* record per player, and the results already applied.  Rejected calls     *)
(* (Begin or Reset while a battle is in progress) change nothing and are   *)
(* not actions.  LastSequence is the maximum of `seen` and Checksum a      *)
(* function of BattleID, so neither is kept.                               *)
(***************************************************************************)
EXTENDS Naturals, Sequences

CONSTANTS
    Players,    \* uids
    Battles,    \* battle identifiers
    Nodes,      \* battle nodes
    NoPlayer,   \* the owner of a battle nobody asked for
    NoBattle,   \* the empty BattleID
    NoNode,     \* the zero Node{0, 0}
    NumEvents,  \* length of the event list of a report
    Faults      \* the kinds of failure that may happen

VARIABLES
    status,     \* State.Status
    battleID,   \* State.BattleID
    node,       \* State.Node
    seen,       \* record.seen
    completed,  \* Client.completed
    owner,      \* the player that asked for a battle
    home,       \* the node that was asked
    starts,     \* StartBattleReq on their way to the manager
    toGame,     \* notifications of each battle on their way to the game
    confirms,   \* confirmations on their way to a battle actor
    shown,      \* history: what was pushed to the player since the start
    everApplied \* history: every result ever applied

recordVars == <<status, battleID, node, seen>>
clientVars == <<status, battleID, node, seen, completed>>
history == <<shown, everApplied>>
vars == <<status, battleID, node, seen, completed, owner, home, starts,
          toGame, confirms, shown, everApplied>>

Created == 0
Finished == NumEvents + 1

(* Creating lasts only within begin, which no other handler interrupts.    *)
Statuses == {"Idle", "CreateUnknown", "Running", "Finished"}

TypeOK ==
    /\ status \in [Players -> Statuses]
    /\ battleID \in [Players -> Battles \cup {NoBattle}]
    /\ node \in [Players -> Nodes \cup {NoNode}]
    /\ seen \in [Players -> SUBSET (1..NumEvents)]
    /\ completed \subseteq Battles
    /\ owner \in [Battles -> Players \cup {NoPlayer}]
    /\ shown \in [Battles -> Seq(0..(NumEvents + 1))]
    /\ everApplied \subseteq Battles

ClientInit ==
    /\ status = [u \in Players |-> "Idle"]
    /\ battleID = [u \in Players |-> NoBattle]
    /\ node = [u \in Players |-> NoNode]
    /\ seen = [u \in Players |-> {}]
    /\ completed = {}
    /\ shown = [b \in Battles |-> <<>>]

Init ==
    /\ ClientInit
    /\ owner = [b \in Battles |-> NoPlayer]
    /\ everApplied = {}

-----------------------------------------------------------------------------
InProgress(u) == status[u] \in {"CreateUnknown", "Running"}

(* begin, when the selector has no node: only the status changes.          *)
PickFails(u) ==
    /\ "start" \in Faults
    /\ ~InProgress(u)
    /\ status' = [status EXCEPT ![u] = "Idle"]
    /\ UNCHANGED <<battleID, node, seen, completed, owner, home, starts,
                   toGame, confirms, history>>

(* begin: the record is replaced by one for the new battle on node n.      *)
NewRecord(u, n, st) ==
    /\ ~InProgress(u)
    /\ status' = [status EXCEPT ![u] = st]
    /\ battleID' = [battleID EXCEPT ![u] = NoBattle]
    /\ node' = [node EXCEPT ![u] = n]
    /\ seen' = [seen EXCEPT ![u] = {}]

Publish(u, n, b) ==
    /\ home[b] = NoNode
    /\ owner' = [owner EXCEPT ![b] = u]
    /\ home' = [home EXCEPT ![b] = n]
    /\ starts' = starts \cup {b}

begin(u, n, b) ==
    /\ NewRecord(u, n, "CreateUnknown")
    /\ Publish(u, n, b)
    /\ UNCHANGED <<completed, toGame, confirms, history>>

(* Start returns an error and nothing was published.                       *)
StartFails(u, n) ==
    /\ "start" \in Faults
    /\ NewRecord(u, n, "Idle")
    /\ UNCHANGED <<completed, owner, home, starts, toGame, confirms, history>>

(* Start gives up after its 5 seconds, the Nats actor publishes all the    *)
(* same: the error says nothing about the request.                         *)
StartTimesOut(u, n, b) ==
    /\ "timeout" \in Faults
    /\ NewRecord(u, n, "Idle")
    /\ Publish(u, n, b)
    /\ UNCHANGED <<completed, toGame, confirms, history>>

reset(u) ==
    /\ ~InProgress(u)
    /\ status' = [status EXCEPT ![u] = "Idle"]
    /\ battleID' = [battleID EXCEPT ![u] = NoBattle]
    /\ node' = [node EXCEPT ![u] = NoNode]
    /\ seen' = [seen EXCEPT ![u] = {}]
    /\ UNCHANGED <<completed, owner, home, starts, toGame, confirms, history>>

-----------------------------------------------------------------------------
Incoming(b, m) == toGame[b] # <<>> /\ Head(toGame[b]) = m
Taken(b) == toGame' = [toGame EXCEPT ![b] = Tail(@)]
push(b, m) == shown' = [shown EXCEPT ![b] = Append(@, m)]

(* Mutant: a record without a battle takes none.                           *)
MatchesExactly(u, b) == battleID[u] = b

(* The record is free for battle b or already stands for it.               *)
Matches(u, b) == battleID[u] \in {NoBattle, b}

created(b) ==
    LET u == owner[b] IN
    /\ Incoming(b, Created)
    /\ Taken(b)
    /\ \/ /\ Matches(u, b) /\ InProgress(u)
          /\ battleID' = [battleID EXCEPT ![u] = b]
          /\ status' = [status EXCEPT ![u] = "Running"]
          /\ push(b, Created)
       \/ /\ ~(Matches(u, b) /\ InProgress(u))
          /\ UNCHANGED <<battleID, status, shown>>
    /\ UNCHANGED <<node, seen, completed, owner, home, starts, confirms, everApplied>>

action(b) ==
    LET u == owner[b]
        accepted(k) == status[u] = "Running" /\ battleID[u] = b /\ k \notin seen[u]
    IN
    \E k \in 1..NumEvents :
      /\ Incoming(b, k)
      /\ Taken(b)
      /\ \/ /\ accepted(k)
            /\ seen' = [seen EXCEPT ![u] = @ \cup {k}]
            /\ push(b, k)
         \/ /\ ~accepted(k)
            /\ UNCHANGED <<seen, shown>>
      /\ UNCHANGED <<status, battleID, node, completed, owner, home, starts,
                     confirms, everApplied>>

(* Confirm goes to the node of the record, whichever battle it stood for.  *)
Confirm(u, b) == confirms' = confirms \cup {[battle |-> b, node |-> node[u]]}

(* Mutant: the result of another battle is confirmed all the same.         *)
FinishedIgnoredConfirmed(b) ==
    /\ Incoming(b, Finished)
    /\ ~Matches(owner[b], b)
    /\ Taken(b)
    /\ Confirm(owner[b], b)
    /\ UNCHANGED <<recordVars, completed, owner, home, starts, history>>

(* finished: a result of another battle than the record's is ignored.      *)
FinishedIgnored(b) ==
    /\ Incoming(b, Finished)
    /\ ~Matches(owner[b], b)
    /\ Taken(b)
    /\ UNCHANGED <<recordVars, completed, owner, home, starts, confirms, history>>

(* Mutant: only the record remembers a result.                             *)
AppliedByRecord(b) == battleID[owner[b]] = b /\ status[owner[b]] = "Finished"

AppliedBefore(b) == b \in completed

(* finished: a result applied before is only confirmed.                    *)
FinishedAgain(b) ==
    /\ Incoming(b, Finished)
    /\ Matches(owner[b], b)
    /\ AppliedBefore(b)
    /\ Taken(b)
    /\ Confirm(owner[b], b)
    /\ UNCHANGED <<recordVars, completed, owner, home, starts, history>>

(* Mutant: the record stays as it was.                                     *)
decideUnseen(u, b) ==
    /\ battleID' = [battleID EXCEPT ![u] = b]
    /\ UNCHANGED status

decide(u, b) ==
    /\ battleID' = [battleID EXCEPT ![u] = b]
    /\ status' = [status EXCEPT ![u] = "Finished"]

(* finished: a new result is applied, in every state of the record.        *)
FinishedApplied(b) ==
    LET u == owner[b] IN
    /\ Incoming(b, Finished)
    /\ Matches(u, b)
    /\ ~AppliedBefore(b)
    /\ Taken(b)
    /\ completed' = completed \cup {b}
    /\ decide(u, b)
    /\ push(b, Finished)
    /\ Confirm(u, b)
    /\ everApplied' = everApplied \cup {b}
    /\ UNCHANGED <<node, seen, owner, home, starts>>

Receive(b) ==
    \/ created(b) \/ action(b)
    \/ FinishedIgnored(b) \/ FinishedAgain(b) \/ FinishedApplied(b)

Call(u) ==
    \/ PickFails(u) \/ reset(u)
    \/ \E n \in Nodes : StartFails(u, n)
    \/ \E n \in Nodes, b \in Battles : begin(u, n, b) \/ StartTimesOut(u, n, b)

(* The game process starts again with an empty Client.                     *)
Restart ==
    /\ status' = [u \in Players |-> "Idle"]
    /\ battleID' = [u \in Players |-> NoBattle]
    /\ node' = [u \in Players |-> NoNode]
    /\ seen' = [u \in Players |-> {}]
    /\ completed' = {}
    /\ shown' = [b \in Battles |-> <<>>]
    /\ UNCHANGED <<owner, home, starts, toGame, confirms, everApplied>>
=============================================================================
