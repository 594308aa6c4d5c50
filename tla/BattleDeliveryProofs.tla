------------------------ MODULE BattleDeliveryProofs ------------------------
(***************************************************************************)
(* Theorems about BattleDelivery, for every value of its constants: types, *)
(* the order of what a player sees, the report saved before Finished, the  *)
(* manager's table, and that delivery implements BattleResult.             *)
(***************************************************************************)
EXTENDS BattleDelivery, TLAPS

(***************************************************************************)
(* The inductive invariant.  Life: how a battle's request, actor, report   *)
(* and messages come after one another.  Order: what is shown and what is  *)
(* still on its way keep the order of the actor.  Records: a player's      *)
(* record stands for a battle of that player that is open while it runs.   *)
(* Settled: stored, applied and confirmed follow from each other.          *)
(***************************************************************************)
Last == NumEvents + 1

LifeOf(b) ==
    /\ owner[b] = NoPlayer <=> home[b] = NoNode
    /\ owner[b] = NoPlayer => b \notin starts /\ phase[b] = "absent"
    /\ b \in starts => phase[b] = "absent"
    /\ phase[b] \in {"absent", "begin"} => toGame[b] = <<>> /\ shown[b] = <<>>
    /\ phase[b] \in {"absent", "begin", "run"} => reports[b] = "none" /\ pushed[b] = 0
    /\ phase[b] \in {"push", "wait"} => reports[b] = "saved"
    /\ phase[b] \in {"absent", "begin", "run", "push"} => attempts[b] = 0 /\ b \notin completed
    /\ b \in stopped => phase[b] = "stopped"

InOrder(q, s) ==
    /\ \A i, j \in 1..Len(q) : i < j => q[i] < q[j] \/ q[j] = Last
    /\ \A i \in 1..Len(s), j \in 1..Len(q) : s[i] < q[j] \/ q[j] = Last
    /\ \A i, j \in 1..Len(s) : i < j => s[i] < s[j]

UpTo(s, n) == \A i \in 1..Len(s) : s[i] <= n
Below(s, n) == \A i \in 1..Len(s) : s[i] < n

OrderOf(b) ==
    /\ InOrder(toGame[b], shown[b])
    /\ \A i \in 1..Len(shown[b]) : shown[b][i] = Last => b \in completed
    /\ b \in completed => \A i \in 1..Len(toGame[b]) : toGame[b][i] = Last
    /\ phase[b] \in {"run", "push"} => UpTo(toGame[b], pushed[b]) /\ UpTo(shown[b], pushed[b])

RecordOf(u) ==
    /\ status[u] = "CreateUnknown" => battleID[u] = NoBattle
    /\ status[u] = "Running" => battleID[u] \in Battles \ completed
    /\ battleID[u] # NoBattle => owner[battleID[u]] = u

SettledOf(b) ==
    /\ \A i \in 1..Len(toGame[b]) : toGame[b][i] = Last => reports[b] # "none"
    /\ b \in completed => b \in everApplied
    /\ b \in everApplied => reports[b] # "none"
    /\ reports[b] = "confirmed" => b \in everApplied
    /\ b \in active <=> (phase[b] \notin {"absent", "stopped"} \/ b \in stopped)

Life == \A b \in Battles : LifeOf(b)
Order == \A b \in Battles : OrderOf(b)
Records == \A u \in Players : RecordOf(u)
Settled == (\A b \in Battles : SettledOf(b)) /\ \A c \in confirms : c.battle \in everApplied

IInv == TypeOK /\ Life /\ Order /\ Records /\ Settled

-----------------------------------------------------------------------------
(* Queues: what a step that appends to one, or takes its head, leaves.     *)
(* What a sequence holds after an Append.                                  *)
LEMMA AppendElems ==
  ASSUME NEW S, NEW s \in Seq(S), NEW e \in S
  PROVE  /\ Append(s, e) \in Seq(S)
         /\ Len(s) \in Nat
         /\ Len(Append(s, e)) = Len(s) + 1
         /\ Append(s, e)[Len(s) + 1] = e
         /\ \A i \in 1..Len(s) : Append(s, e)[i] = s[i]
  OBVIOUS

(* What a sequence holds after its head is taken.                          *)
LEMMA TailElems ==
  ASSUME NEW S, NEW s \in Seq(S), s # <<>>
  PROVE  /\ Tail(s) \in Seq(S)
         /\ Len(s) \in Nat \ {0}
         /\ Len(Tail(s)) = Len(s) - 1
         /\ Head(s) = s[1]
         /\ Head(s) \in S
         /\ \A i \in 1..(Len(s) - 1) : Tail(s)[i] = s[i + 1]
  OBVIOUS

(* A queue that grows by an element of its type keeps its type.            *)
LEMMA QueueAppend ==
  ASSUME NEW D, NEW S, NEW f \in [D -> Seq(S)], NEW d \in D, NEW e \in S
  PROVE  [f EXCEPT ![d] = Append(@, e)] \in [D -> Seq(S)]
  <1>1. Append(f[d], e) \in Seq(S)
    OBVIOUS
  <1> QED BY <1>1

(* A queue that loses its head keeps its type.                             *)
LEMMA QueueTail ==
  ASSUME NEW D, NEW S, NEW f \in [D -> Seq(S)], NEW d \in D, f[d] # <<>>
  PROVE  [f EXCEPT ![d] = Tail(@)] \in [D -> Seq(S)]
  <1>1. Tail(f[d]) \in Seq(S)
    OBVIOUS
  <1> QED BY <1>1

-----------------------------------------------------------------------------
(* Types.                                                                  *)
(* The initial state has the types of TypeOK.                              *)
LEMMA TypeInit == Init => TypeOK
  BY DeliveryAssumption
  DEF Init, TypeOK, Client!Init, Client!ClientInit, Client!TypeOK, Client!Statuses,
      Service!Init, Service!TypeOK, Actor!Init, Actor!TypeOK, Actor!Phases,
      Actor!Notifications, Actor!Created, Actor!Finished

Notes == 0..(NumEvents + 1)

(* The notifications of a battle, Notes, as numbers.                       *)
LEMMA NotesTypes ==
  /\ 0 \in Notes /\ NumEvents + 1 \in Notes
  /\ \A k \in 1..NumEvents : k \in Notes
  /\ \A k \in 0..NumEvents : k < NumEvents => k + 1 \in Notes
  /\ Actor!Notifications = Notes
  BY DeliveryAssumption DEF Notes, Actor!Notifications, Actor!Created, Actor!Finished

(* Client!TypeOK, with the notifications written as Notes.                 *)
LEMMA ClientTypes ==
  Client!TypeOK <=>
    /\ status \in [Players -> {"Idle", "CreateUnknown", "Running", "Finished"}]
    /\ battleID \in [Players -> Battles \cup {NoBattle}]
    /\ node \in [Players -> Nodes \cup {NoNode}]
    /\ seen \in [Players -> SUBSET (1..NumEvents)]
    /\ completed \subseteq Battles
    /\ owner \in [Battles -> Players \cup {NoPlayer}]
    /\ shown \in [Battles -> Seq(Notes)]
    /\ everApplied \subseteq Battles
  BY DEF Client!TypeOK, Client!Statuses, Notes

(* Actor!TypeOK, with the notifications written as Notes.                  *)
LEMMA ActorTypes ==
  Actor!TypeOK <=>
    /\ phase \in [Battles -> Actor!Phases]
    /\ pushed \in [Battles -> 0..NumEvents]
    /\ attempts \in [Battles -> 0..RetryAttempts]
    /\ timer \in [Battles -> BOOLEAN]
    /\ reports \in [Battles -> {"none", "saved", "confirmed", "lost"}]
    /\ home \in [Battles -> Nodes \cup {NoNode}]
    /\ toGame \in [Battles -> Seq(Notes)]
    /\ confirms \subseteq [battle : Battles, node : Nodes \cup {NoNode}]
    /\ stopped \subseteq Battles
  BY NotesTypes DEF Actor!TypeOK, Actor!BattleResultConfirmedNtf

(* Every step keeps the types; receiving needs Life for the owner.         *)
LEMMA TypeNext == TypeOK /\ Life /\ [Next]_vars => TypeOK'
  <1> SUFFICES ASSUME TypeOK, Life, [Next]_vars PROVE TypeOK'
    OBVIOUS
  <1> USE DeliveryAssumption DEF TypeOK
  <1>c. UNCHANGED clientOnly => Client!TypeOK'
    BY DEF clientOnly, Client!TypeOK, Client!Statuses
  <1>a. UNCHANGED <<actorOnly, home, toGame, confirms, stopped>> => Actor!TypeOK'
    BY DEF actorOnly, Actor!TypeOK, Actor!Phases, Actor!Notifications, Actor!Created,
       Actor!Finished
  <1>v. UNCHANGED <<active, starts>> => Service!TypeOK'
    BY DEF Service!TypeOK
  <1>r. UNCHANGED restarts => restarts' \in 0..MaxRestarts
    OBVIOUS
  <1>1. ASSUME NEW u \in Players, GameCalls(u) PROVE TypeOK'
    <2> USE <1>1 DEF GameCalls, Client!history, Client!NewRecord, Client!Publish, actorOnly
    <2>1. CASE Client!PickFails(u)
      <3>1. Client!TypeOK'
        BY <2>1, ClientTypes DEF Client!PickFails, Client!TypeOK, Client!Statuses
      <3> QED BY <2>1, <3>1, <1>a, <1>v DEF Client!PickFails
    <2>2. CASE Client!reset(u)
      <3>1. Client!TypeOK'
        BY <2>2 DEF Client!reset, Client!TypeOK, Client!Statuses
      <3> QED BY <2>2, <3>1, <1>a, <1>v DEF Client!reset
    <2>3. ASSUME NEW n \in Nodes, Client!StartFails(u, n) PROVE TypeOK'
      <3>1. Client!TypeOK'
        BY <2>3 DEF Client!StartFails, Client!TypeOK, Client!Statuses
      <3> QED BY <2>3, <3>1, <1>a, <1>v DEF Client!StartFails
    <2>4. ASSUME NEW n \in Nodes, NEW b \in Battles,
                 Client!begin(u, n, b) \/ Client!StartTimesOut(u, n, b)
          PROVE  TypeOK'
      <3> USE <2>4 DEF Client!begin, Client!StartTimesOut
      <3>a. UNCHANGED <<completed, shown, everApplied>>
        OBVIOUS
      <3>b. /\ status' \in [Players -> Client!Statuses]
            /\ battleID' \in [Players -> Battles \cup {NoBattle}]
        BY DEF Client!TypeOK, Client!Statuses
      <3>c. /\ node' \in [Players -> Nodes \cup {NoNode}]
            /\ seen' \in [Players -> SUBSET (1..NumEvents)]
        <4>1. seen \in [Players -> SUBSET (1..NumEvents)] /\ node \in [Players -> Nodes \cup {NoNode}]
          BY DEF Client!TypeOK
        <4> QED BY <4>1
      <3>d. owner' \in [Battles -> Players \cup {NoPlayer}]
        BY DEF Client!TypeOK
      <3>1. Client!TypeOK'
        BY <3>a, <3>b, <3>c, <3>d DEF Client!TypeOK, Client!Statuses
      <3>2. Service!TypeOK'
        BY DEF Service!TypeOK
      <3>3. Actor!TypeOK'
        BY DEF Actor!TypeOK, Actor!Phases, Actor!Notifications, Actor!Created, Actor!Finished
      <3> QED BY <3>1, <3>2, <3>3
    <2> QED
      BY <2>1, <2>2, <2>3, <2>4 DEF Client!Call
  <1>2. ASSUME NEW b \in Battles, GameReceives(b) PROVE TypeOK'
    <2>0. toGame[b] # <<>> /\ Client!Receive(b) /\ UNCHANGED <<actorOnly, active, stopped, restarts>>
      BY <1>2 DEF GameReceives, Client!Receive, Client!created, Client!action,
         Client!FinishedIgnored, Client!FinishedAgain, Client!FinishedApplied, Client!Incoming
    <2>1. owner[b] \in Players
      BY <2>0 DEF Client!TypeOK, Life, LifeOf
    <2>2. toGame' = [toGame EXCEPT ![b] = Tail(@)] /\ UNCHANGED <<starts, home, owner, node>>
      BY <2>0 DEF Client!Receive, Client!created, Client!action, Client!FinishedIgnored,
         Client!FinishedAgain, Client!FinishedApplied, Client!Taken, Client!recordVars
    <2>3. toGame' \in [Battles -> Seq(Notes)]
      BY <2>0, <2>2, ActorTypes, QueueTail
    <2>4. confirms' \subseteq [battle : Battles, node : Nodes \cup {NoNode}]
      BY <2>0, <2>1 DEF Client!Receive, Client!created, Client!action, Client!FinishedIgnored,
         Client!FinishedAgain, Client!FinishedApplied, Client!Confirm, Client!TypeOK,
         Actor!TypeOK, Actor!BattleResultConfirmedNtf
    <2>5. Actor!TypeOK'
      BY <2>0, <2>2, <2>3, <2>4, ActorTypes, NotesTypes
      DEF Actor!TypeOK, Actor!BattleResultConfirmedNtf, actorOnly, Actor!Phases,
         Notes
    <2>6. shown' \in [Battles -> Seq(Notes)]
      <3>1. shown' = shown \/ \E m \in Notes : shown' = [shown EXCEPT ![b] = Append(@, m)]
        BY <2>0, NotesTypes
        DEF Client!Receive, Client!created, Client!action, Client!FinishedIgnored,
            Client!FinishedAgain, Client!FinishedApplied, Client!push, Client!history,
            Client!Created, Client!Finished
      <3>2. ASSUME NEW m \in Notes, shown' = [shown EXCEPT ![b] = Append(@, m)]
            PROVE  shown' \in [Battles -> Seq(Notes)]
        <4>1. shown \in [Battles -> Seq(Notes)]
          BY ClientTypes
        <4> QED BY <3>2, <4>1, QueueAppend
      <3> QED BY <3>1, <3>2, ClientTypes
    <2>7. /\ status' \in [Players -> Client!Statuses]
          /\ battleID' \in [Players -> Battles \cup {NoBattle}]
      <3>1. CASE Client!created(b)
        <4>1. /\ status \in [Players -> Client!Statuses]
              /\ battleID \in [Players -> Battles \cup {NoBattle}]
          BY DEF Client!TypeOK
        <4> QED BY <2>1, <3>1, <4>1 DEF Client!created, Client!Statuses
      <3>2. CASE Client!FinishedApplied(b)
        BY <2>1, <3>2 DEF Client!FinishedApplied, Client!decide, Client!TypeOK, Client!Statuses
      <3>3. CASE UNCHANGED <<status, battleID>>
        BY <3>3 DEF Client!TypeOK, Client!Statuses
      <3> QED
        BY <2>0, <3>1, <3>2, <3>3 DEF Client!Receive, Client!action, Client!FinishedIgnored,
           Client!FinishedAgain, Client!recordVars
    <2>8. /\ seen' \in [Players -> SUBSET (1..NumEvents)]
          /\ completed' \subseteq Battles
          /\ everApplied' \subseteq Battles
      <3>1. CASE Client!action(b)
        <4>1. /\ seen \in [Players -> SUBSET (1..NumEvents)]
              /\ completed \subseteq Battles /\ everApplied \subseteq Battles
          BY DEF Client!TypeOK
        <4>2. /\ UNCHANGED <<completed, everApplied>>
              /\ \/ UNCHANGED seen
                 \/ \E k \in 1..NumEvents : seen' = [seen EXCEPT ![owner[b]] = @ \cup {k}]
          BY <3>1 DEF Client!action
        <4> QED BY <2>1, <4>1, <4>2
      <3>2. CASE Client!FinishedApplied(b)
        BY <2>1, <3>2 DEF Client!FinishedApplied, Client!TypeOK
      <3>3. CASE UNCHANGED <<seen, completed, everApplied>>
        BY <3>3 DEF Client!TypeOK
      <3> QED
        BY <2>0, <3>1, <3>2, <3>3 DEF Client!Receive, Client!created, Client!FinishedIgnored,
           Client!FinishedAgain, Client!recordVars, Client!history
    <2>9. Client!TypeOK'
      BY <2>2, <2>6, <2>7, <2>8 DEF Client!TypeOK, Client!Statuses, Notes
    <2> QED
      BY <2>0, <2>2, <2>5, <2>9, <1>v
  <1>3. ASSUME NEW b \in Battles, ServiceStep(b) PROVE TypeOK'
    <2> USE <1>3 DEF ServiceStep, Service!Step, Service!OnCreateBattle, Service!RejectCreate,
          Service!OnActorStopped
    <2>1. Service!TypeOK'
      BY DEF Service!TypeOK
    <2>2. Actor!TypeOK'
      BY DEF Actor!TypeOK, Actor!Phases, Actor!Notifications, Actor!Created, Actor!Finished
    <2> QED BY <2>1, <2>2, <1>c
  <1>4. ASSUME NEW b \in Battles, ActorStep(b) PROVE TypeOK'
    <2>0. Actor!Step(b) /\ UNCHANGED <<clientOnly, active, starts, restarts>>
      BY <1>4 DEF ActorStep
    <2>1. toGame' \in [Battles -> Seq(Notes)]
      <3>1. pushed[b] < NumEvents => pushed[b] + 1 \in Notes
        BY NotesTypes DEF Actor!TypeOK, Actor!BattleResultConfirmedNtf
      <3>2. toGame' = toGame \/ \E m \in Notes : toGame' = [toGame EXCEPT ![b] = Append(@, m)]
        BY <2>0, <3>1, NotesTypes
        DEF Actor!Step, Actor!notifyCreated, Actor!RunAndSave, Actor!CreateEngineFails,
            Actor!RunFails, Actor!pushAction, Actor!FirstFinished, Actor!retry, Actor!confirm,
            Actor!Notify, Actor!pushFinished, Actor!Created, Actor!Finished
      <3>3. ASSUME NEW m \in Notes, toGame' = [toGame EXCEPT ![b] = Append(@, m)]
            PROVE  toGame' \in [Battles -> Seq(Notes)]
        <4>1. toGame \in [Battles -> Seq(Notes)]
          BY ActorTypes
        <4> QED BY <3>3, <4>1, QueueAppend
      <3> QED BY <3>2, <3>3, ActorTypes
    <2>2. attempts' \in [Battles -> 0..RetryAttempts]
      BY <2>0
      DEF Actor!Step, Actor!notifyCreated, Actor!RunAndSave, Actor!CreateEngineFails,
          Actor!RunFails, Actor!pushAction, Actor!FirstFinished, Actor!retry, Actor!Exhausted, Actor!confirm,
          Actor!pushFinished, Actor!TypeOK, Life, LifeOf
    <2>3. pushed' \in [Battles -> 0..NumEvents]
      BY <2>0
      DEF Actor!Step, Actor!notifyCreated, Actor!RunAndSave, Actor!CreateEngineFails,
          Actor!RunFails, Actor!pushAction, Actor!FirstFinished, Actor!retry, Actor!confirm,
          Actor!TypeOK
    <2>6. /\ reports' \in [Battles -> {"none", "saved", "confirmed", "lost"}]
          /\ confirms' \subseteq [battle : Battles, node : Nodes \cup {NoNode}]
          /\ home' \in [Battles -> Nodes \cup {NoNode}]
      BY <2>0
      DEF Actor!Step, Actor!notifyCreated, Actor!RunAndSave, Actor!CreateEngineFails,
          Actor!RunFails, Actor!pushAction, Actor!FirstFinished, Actor!retry, Actor!Save, Actor!confirm, Actor!Confirm,
          Actor!TypeOK, Actor!BattleResultConfirmedNtf
    <2>4. /\ phase' \in [Battles -> Actor!Phases]
          /\ timer' \in [Battles -> BOOLEAN]
          /\ stopped' \subseteq Battles
      BY <2>0
      DEF Actor!Step, Actor!notifyCreated, Actor!RunAndSave, Actor!CreateEngineFails,
          Actor!RunFails, Actor!pushAction, Actor!FirstFinished, Actor!retry, Actor!confirm,
          Actor!finish, Actor!pushFinished, Actor!TypeOK, Actor!Phases
    <2>5. Actor!TypeOK'
      BY <2>1, <2>2, <2>3, <2>4, <2>6, NotesTypes DEF Actor!TypeOK, Actor!Phases, Notes,
         Actor!Notifications, Actor!Created, Actor!Finished, Actor!BattleResultConfirmedNtf
    <2> QED BY <2>0, <2>5, <1>c, <1>v
  <1>5. ASSUME NEW b \in Battles, LoseNotification(b) PROVE TypeOK'
    <2>1. toGame' \in [Battles -> Seq(Notes)]
      BY <1>5, ActorTypes, QueueTail DEF LoseNotification
    <2>2. Actor!TypeOK'
      BY <1>5, <2>1 DEF LoseNotification, Actor!TypeOK, Actor!Phases, Notes,
         Actor!Notifications, Actor!Created, Actor!Finished, actorOnly
    <2> QED BY <1>5, <2>2, <1>c, <1>v DEF LoseNotification
  <1>6. ASSUME NEW b \in Battles, LoseStart(b) PROVE TypeOK'
    BY <1>6, <1>c, <1>a DEF LoseStart, Service!TypeOK
  <1>7. CASE LoseConfirm
    <2>1. Actor!TypeOK'
      BY <1>7 DEF LoseConfirm, Actor!TypeOK, Actor!Phases, Actor!Notifications,
         Actor!Created, Actor!Finished, actorOnly
    <2> QED BY <1>7, <2>1, <1>c, <1>v DEF LoseConfirm
  <1>8. CASE GameRestarts
    <2>1. Client!TypeOK'
      BY <1>8 DEF GameRestarts, Client!Restart, Client!TypeOK, Client!Statuses
    <2>2. restarts' \in 0..MaxRestarts
      BY <1>8 DEF GameRestarts
    <2> QED BY <1>8, <2>1, <2>2, <1>a, <1>v DEF GameRestarts, Client!Restart
  <1>9. ASSUME NEW n \in Nodes, NodeCrashes(n) PROVE TypeOK'
    <2>1. Actor!TypeOK'
      BY <1>9 DEF NodeCrashes, Actor!Crash, Actor!TypeOK, Actor!Phases, Actor!Notifications,
         Actor!Created, Actor!Finished
    <2>2. restarts' \in 0..MaxRestarts
      BY <1>9 DEF NodeCrashes
    <2>3. Service!TypeOK'
      BY <1>9 DEF NodeCrashes, Service!TypeOK
    <2> QED BY <1>9, <2>1, <2>2, <2>3, <1>c DEF NodeCrashes
  <1>10. CASE UNCHANGED vars
    BY <1>10, <1>c, <1>a, <1>v DEF vars
  <1> QED
    BY <1>1, <1>2, <1>3, <1>4, <1>5, <1>6, <1>7, <1>8, <1>9, <1>10 DEF Next
-----------------------------------------------------------------------------
(* Appending adds one position, and every position before another is old.  *)
LEMMA OneMore ==
  ASSUME NEW n \in Nat
  PROVE  /\ \A k \in 1..(n + 1) : k \in 1..n \/ k = n + 1
         /\ \A i, j \in 1..(n + 1) : i < j => i \in 1..n
  BY SMT

(* Order of one battle's queue q and of what was shown of it, s.           *)
(* Taking the head of the queue keeps the order.                           *)
LEMMA TakeOrder ==
  ASSUME NEW q \in Seq(Notes), NEW s \in Seq(Notes), q # <<>>, InOrder(q, s)
  PROVE  InOrder(Tail(q), s)
  <1> DEFINE t == Tail(q)
  <1>1. Len(t) = Len(q) - 1 /\ Len(q) \in Nat /\ \A i \in 1..(Len(q) - 1) : t[i] = q[i + 1]
    BY TailElems
  <1>2. \A i \in 1..Len(t) : i + 1 \in 1..Len(q) /\ t[i] = q[i + 1]
    BY <1>1
  <1> HIDE DEF t
  <1>3. \A i, j \in 1..Len(t) : i < j => t[i] < t[j] \/ t[j] = Last
    BY <1>2 DEF InOrder
  <1>4. \A i \in 1..Len(s), j \in 1..Len(t) : s[i] < t[j] \/ t[j] = Last
    BY <1>2 DEF InOrder
  <1>5. InOrder(t, s)
    BY <1>3, <1>4 DEF InOrder
  <1> QED BY <1>5 DEF t

(* Showing the head of the queue keeps the order.                          *)
LEMMA ShowOrder ==
  ASSUME NEW q \in Seq(Notes), NEW s \in Seq(Notes), q # <<>>, InOrder(q, s),
         Head(q) = Last => \A i \in 1..Len(s) : s[i] # Last
  PROVE  InOrder(Tail(q), Append(s, Head(q)))
  <1> DEFINE t == Tail(q)
             a == Append(s, Head(q))
  <1>1. InOrder(t, s)
    BY TakeOrder
  <1>2. /\ 1 \in 1..Len(q) /\ Head(q) = q[1]
        /\ \A i \in 1..Len(t) : i + 1 \in 1..Len(q) /\ t[i] = q[i + 1] /\ 1 < i + 1
    BY TailElems
  <1>3. /\ Len(a) = Len(s) + 1 /\ Len(s) \in Nat /\ a[Len(s) + 1] = q[1]
        /\ \A i \in 1..Len(s) : a[i] = s[i]
    BY <1>2, AppendElems
  <1>4. \A i \in 1..Len(s) : s[i] \in 0..Last /\ s[i] < q[1]
    <2>1. \A i \in 1..Len(s) : s[i] \in 0..Last
      BY DeliveryAssumption DEF Last, Notes
    <2>2. \A i \in 1..Len(s) : s[i] < q[1] \/ q[1] = Last
      BY <1>2 DEF InOrder
    <2>3. \A i \in 1..Len(s) : s[i] # Last \/ q[1] # Last
      BY <1>2
    <2>4. q[1] \in 0..Last
      BY <1>2, DeliveryAssumption DEF Last, Notes
    <2> QED BY <2>1, <2>2, <2>3, <2>4, DeliveryAssumption DEF Last
  <1>pos. /\ \A k \in 1..Len(a) : k \in 1..Len(s) \/ k = Len(s) + 1
          /\ \A i, j \in 1..Len(a) : i < j => i \in 1..Len(s)
    <2>1. Len(s) \in Nat /\ Len(a) = Len(s) + 1
      BY <1>3
    <2> HIDE DEF a
    <2> QED BY ONLY <2>1, OneMore
  <1> HIDE DEF t, a
  <1>5. \A i \in 1..Len(a), j \in 1..Len(t) : a[i] < t[j] \/ t[j] = Last
    <2> SUFFICES ASSUME NEW i \in 1..Len(a), NEW j \in 1..Len(t) PROVE a[i] < t[j] \/ t[j] = Last
      OBVIOUS
    <2>1. CASE i \in 1..Len(s)
      BY <2>1, <1>1, <1>3 DEF InOrder
    <2>2. CASE i = Len(s) + 1
      BY <2>2, <1>2, <1>3 DEF InOrder
    <2>3. i \in 1..Len(s) \/ i = Len(s) + 1
      BY <1>pos
    <2> QED BY <2>1, <2>2, <2>3
  <1>6. \A i, j \in 1..Len(a) : i < j => a[i] < a[j]
    <2> SUFFICES ASSUME NEW i \in 1..Len(a), NEW j \in 1..Len(a), i < j PROVE a[i] < a[j]
      OBVIOUS
    <2>0. i \in 1..Len(s)
      BY <1>pos
    <2>1. CASE j \in 1..Len(s)
      BY <2>0, <2>1, <1>1, <1>3 DEF InOrder
    <2>2. CASE j = Len(s) + 1
      BY <2>0, <2>2, <1>3, <1>4
    <2>3. j \in 1..Len(s) \/ j = Len(s) + 1
      BY <1>pos
    <2> QED BY <2>1, <2>2, <2>3
  <1>7. InOrder(t, a)
    BY <1>1, <1>5, <1>6 DEF InOrder
  <1> QED BY <1>7 DEF t, a

(* Sending what is above all so far, or Finished, keeps the order.         *)
LEMMA SendOrder ==
  ASSUME NEW q \in Seq(Notes), NEW s \in Seq(Notes), NEW m \in Notes, InOrder(q, s),
         \/ m = Last
         \/ /\ \A i \in 1..Len(q) : q[i] < m
            /\ \A i \in 1..Len(s) : s[i] < m
  PROVE  InOrder(Append(q, m), s)
  <1> DEFINE a == Append(q, m)
  <1>1. /\ Len(a) = Len(q) + 1 /\ Len(q) \in Nat /\ a[Len(q) + 1] = m
        /\ \A i \in 1..Len(q) : a[i] = q[i]
    BY AppendElems
  <1>pos. /\ \A k \in 1..Len(a) : k \in 1..Len(q) \/ k = Len(q) + 1
          /\ \A i, j \in 1..Len(a) : i < j => i \in 1..Len(q)
    <2>1. Len(q) \in Nat /\ Len(a) = Len(q) + 1
      BY <1>1
    <2> HIDE DEF a
    <2> QED BY ONLY <2>1, OneMore
  <1> HIDE DEF a
  <1>2. \A i, j \in 1..Len(a) : i < j => a[i] < a[j] \/ a[j] = Last
    <2> SUFFICES ASSUME NEW i \in 1..Len(a), NEW j \in 1..Len(a), i < j
                 PROVE  a[i] < a[j] \/ a[j] = Last
      OBVIOUS
    <2>1. i \in 1..Len(q)
      BY <1>pos
    <2>2. CASE j \in 1..Len(q)
      BY <1>1, <2>1, <2>2 DEF InOrder
    <2>3. CASE j = Len(q) + 1
      <3>1. a[i] = q[i] /\ a[j] = m
        BY <1>1, <2>1, <2>3
      <3> QED BY <2>1, <3>1
    <2>4. j \in 1..Len(q) \/ j = Len(q) + 1
      BY <1>pos
    <2> QED BY <2>2, <2>3, <2>4
  <1>3. \A i \in 1..Len(s), j \in 1..Len(a) : s[i] < a[j] \/ a[j] = Last
    <2> SUFFICES ASSUME NEW i \in 1..Len(s), NEW j \in 1..Len(a)
                 PROVE  s[i] < a[j] \/ a[j] = Last
      OBVIOUS
    <2>1. CASE j \in 1..Len(q)
      BY <1>1, <2>1 DEF InOrder
    <2>2. CASE j = Len(q) + 1
      BY <1>1, <2>2
    <2>3. j \in 1..Len(q) \/ j = Len(q) + 1
      BY <1>pos
    <2> QED BY <2>1, <2>2, <2>3
  <1>4. InOrder(a, s)
    BY <1>2, <1>3 DEF InOrder
  <1> QED BY <1>4 DEF a
-----------------------------------------------------------------------------
(* The inductive step, one lemma for each kind of action.                  *)
BattleOf(b) == LifeOf(b) /\ OrderOf(b) /\ SettledOf(b)

(* A step that leaves all there is of a battle keeps what holds of it.     *)
SameBattle(b) ==
    /\ owner'[b] = owner[b] /\ home'[b] = home[b] /\ shown'[b] = shown[b]
    /\ phase'[b] = phase[b] /\ pushed'[b] = pushed[b] /\ attempts'[b] = attempts[b]
    /\ reports'[b] = reports[b] /\ toGame'[b] = toGame[b]
    /\ b \in starts' <=> b \in starts
    /\ b \in completed' <=> b \in completed
    /\ b \in everApplied' <=> b \in everApplied
    /\ b \in stopped' <=> b \in stopped
    /\ b \in active' <=> b \in active

(* A battle nothing happened to keeps its invariant.                       *)
LEMMA SameKeeps ==
  ASSUME NEW b \in Battles, SameBattle(b), BattleOf(b)
  PROVE  BattleOf(b)'
  <1>1. LifeOf(b)'
    BY DEF SameBattle, BattleOf, LifeOf
  <1>2. OrderOf(b)'
    BY DEF SameBattle, BattleOf, OrderOf, InOrder, UpTo, Last
  <1>3. SettledOf(b)'
    BY DEF SameBattle, BattleOf, SettledOf, Last
  <1> QED BY <1>1, <1>2, <1>3 DEF BattleOf

(* IInv taken apart by battle, and put together again.                     *)
LEMMA InvParts ==
  /\ IInv => TypeOK /\ Records /\ \A b \in Battles : BattleOf(b)
  /\ IInv => \A c \in confirms : c.battle \in everApplied
  /\ (\A b \in Battles : BattleOf(b)') /\ (\A c \in confirms : c.battle \in everApplied)'
        => Life' /\ Order' /\ Settled'
  BY DEF IInv, Life, Order, Settled, BattleOf

(* The types the lemmas below use.                                         *)
LEMMA InvTypes ==
  TypeOK => /\ status \in [Players -> {"Idle", "CreateUnknown", "Running", "Finished"}]
            /\ battleID \in [Players -> Battles \cup {NoBattle}]
            /\ node \in [Players -> Nodes \cup {NoNode}]
            /\ owner \in [Battles -> Players \cup {NoPlayer}]
            /\ home \in [Battles -> Nodes \cup {NoNode}]
            /\ shown \in [Battles -> Seq(Notes)]
            /\ toGame \in [Battles -> Seq(Notes)]
            /\ phase \in [Battles -> Actor!Phases]
            /\ pushed \in [Battles -> 0..NumEvents]
            /\ attempts \in [Battles -> 0..RetryAttempts]
            /\ reports \in [Battles -> {"none", "saved", "confirmed", "lost"}]
            /\ timer \in [Battles -> BOOLEAN]
            /\ completed \subseteq Battles
  BY ClientTypes, ActorTypes DEF TypeOK

(* Calls of players: begin, reset and their failures (client.go).          *)
LEMMA CallsKeep ==
  ASSUME IInv, NEW u \in Players, GameCalls(u)
  PROVE  Life' /\ Order' /\ Records' /\ Settled'
  <1> USE DeliveryAssumption, InvParts, InvTypes DEF GameCalls, actorOnly, Client!history
  <1>1. ASSUME UNCHANGED <<owner, home, starts, completed, shown, everApplied, toGame, confirms>>,
               NEW st \in {"Idle"}, status' = [status EXCEPT ![u] = st],
               battleID' = battleID \/ battleID' = [battleID EXCEPT ![u] = NoBattle]
        PROVE  Life' /\ Order' /\ Records' /\ Settled'
    <2>1. \A x \in Battles : SameBattle(x)
      BY <1>1 DEF SameBattle
    <2>2. \A x \in Battles : BattleOf(x)'
      BY <2>1, SameKeeps
    <2>3. Records'
      BY <1>1 DEF Records, RecordOf
    <2> QED BY <1>1, <2>2, <2>3
  <1>2. CASE Client!PickFails(u) \/ Client!reset(u) \/ \E n \in Nodes : Client!StartFails(u, n)
    BY <1>1, <1>2 DEF Client!PickFails, Client!reset, Client!StartFails, Client!NewRecord
  <1>3. ASSUME NEW n \in Nodes, NEW b \in Battles,
               Client!begin(u, n, b) \/ Client!StartTimesOut(u, n, b)
        PROVE  Life' /\ Order' /\ Records' /\ Settled'
    <2>1. /\ home[b] = NoNode
          /\ owner' = [owner EXCEPT ![b] = u]
          /\ home' = [home EXCEPT ![b] = n]
          /\ starts' = starts \cup {b}
          /\ status' = [status EXCEPT ![u] = "Idle"] \/ status' = [status EXCEPT ![u] = "CreateUnknown"]
          /\ battleID' = [battleID EXCEPT ![u] = NoBattle]
          /\ UNCHANGED <<phase, pushed, attempts, reports, stopped, active, toGame, shown,
                         completed, confirms, everApplied>>
      BY <1>3 DEF Client!begin, Client!StartTimesOut, Client!Publish, Client!NewRecord
    <2>2. ASSUME NEW x \in Battles, x # b PROVE BattleOf(x)'
      <3>1. SameBattle(x)
        BY <2>1, <2>2 DEF SameBattle
      <3> QED BY <3>1, SameKeeps
    <2>3. BattleOf(b) /\ owner[b] = NoPlayer
      BY <2>1 DEF BattleOf, LifeOf
    <2>4. LifeOf(b)'
      BY <2>1, <2>3 DEF BattleOf, LifeOf
    <2>5. OrderOf(b)' /\ SettledOf(b)'
      BY <2>1, <2>3 DEF BattleOf, OrderOf, InOrder, UpTo, SettledOf, Last
    <2>6. Records'
      BY <2>1, <2>3 DEF Records, RecordOf
    <2> QED BY <2>1, <2>2, <2>4, <2>5, <2>6 DEF BattleOf
  <1> QED BY <1>2, <1>3 DEF Client!Call
(* What the client changes when it takes a notification.                   *)
LEMMA ReceiveFrame ==
  ASSUME IInv, NEW b \in Battles, GameReceives(b)
  PROVE  /\ owner[b] \in Players
         /\ phase[b] \notin {"absent", "begin"}
         /\ toGame[b] # <<>>
         /\ toGame' = [toGame EXCEPT ![b] = Tail(@)]
         /\ Client!Receive(b)
         /\ UNCHANGED <<phase, pushed, attempts, timer, reports, active, stopped, owner, home,
                        starts, node>>
  <1>1. toGame[b] # <<>> /\ Client!Receive(b)
        /\ UNCHANGED <<phase, pushed, attempts, timer, reports, active, stopped>>
    BY DEF GameReceives, Client!Receive, Client!created, Client!action, actorOnly,
       Client!FinishedIgnored, Client!FinishedAgain, Client!FinishedApplied, Client!Incoming
  <1>2. owner[b] \in Players /\ phase[b] \notin {"absent", "begin"}
    BY <1>1, InvTypes, InvParts DEF BattleOf, LifeOf
  <1>3. toGame' = [toGame EXCEPT ![b] = Tail(@)] /\ UNCHANGED <<starts, home, owner, node>>
    BY <1>1 DEF Client!Receive, Client!created, Client!action, Client!FinishedIgnored,
       Client!FinishedAgain, Client!FinishedApplied, Client!Taken, Client!recordVars
  <1> QED BY <1>1, <1>2, <1>3

(* The effect of a notification on its battle: passed over, shown, or      *)
(* applied as the result.                                                  *)
LEMMA ReceiveCases ==
  ASSUME IInv, NEW b \in Battles, GameReceives(b)
  PROVE  \/ UNCHANGED <<shown, completed, everApplied>>
         \/ /\ Head(toGame[b]) # Last
            /\ shown' = [shown EXCEPT ![b] = Append(@, Head(toGame[b]))]
            /\ UNCHANGED <<completed, everApplied>>
         \/ /\ Head(toGame[b]) = Last
            /\ b \notin completed
            /\ shown' = [shown EXCEPT ![b] = Append(@, Head(toGame[b]))]
            /\ completed' = completed \cup {b}
            /\ everApplied' = everApplied \cup {b}
  <1>1. CASE Client!created(b)
    BY <1>1, DeliveryAssumption DEF Client!created, Client!Incoming, Client!push, Client!Created, Last
  <1>2. CASE Client!action(b)
    BY <1>2, DeliveryAssumption DEF Client!action, Client!Incoming, Client!push, Last
  <1>3. CASE Client!FinishedIgnored(b) \/ Client!FinishedAgain(b)
    BY <1>3 DEF Client!FinishedIgnored, Client!FinishedAgain, Client!history
  <1>4. CASE Client!FinishedApplied(b)
    BY <1>4 DEF Client!FinishedApplied, Client!AppliedBefore, Client!Incoming, Client!push, Client!Finished, Last
  <1> QED BY <1>1, <1>2, <1>3, <1>4, ReceiveFrame DEF Client!Receive

(* A notification keeps the invariant of its battle.                       *)
LEMMA ReceivesKeepBattle ==
  ASSUME IInv, NEW b \in Battles, GameReceives(b)
  PROVE  BattleOf(b)'
  <1> DEFINE q == toGame[b]
             s == shown[b]
             m == Head(toGame[b])
  <1> USE DeliveryAssumption
  <1>1. /\ toGame \in [Battles -> Seq(Notes)] /\ shown \in [Battles -> Seq(Notes)]
        /\ q \in Seq(Notes) /\ s \in Seq(Notes) /\ q # <<>>
        /\ toGame'[b] = Tail(q)
        /\ UNCHANGED <<phase, pushed, attempts, reports, active, stopped, owner, home, starts>>
        /\ LifeOf(b) /\ OrderOf(b) /\ SettledOf(b) /\ phase[b] \notin {"absent", "begin"}
        /\ completed \subseteq Battles
    BY ReceiveFrame, InvParts, InvTypes DEF BattleOf
  <1>2. /\ 1 \in 1..Len(q) /\ m = q[1] /\ m \in Notes
        /\ \A i \in 1..Len(Tail(q)) : i + 1 \in 1..Len(q) /\ Tail(q)[i] = q[i + 1] /\ 1 < i + 1
    BY <1>1, TailElems
  <1>3. /\ Len(Append(s, m)) = Len(s) + 1 /\ Len(s) \in Nat /\ Append(s, m)[Len(s) + 1] = m
        /\ \A i \in 1..Len(s) : Append(s, m)[i] = s[i]
    BY <1>1, <1>2, AppendElems
  <1>4. \A i \in 1..Len(Append(s, m)) : Append(s, m)[i] = m \/ (i \in 1..Len(s) /\ Append(s, m)[i] = s[i])
    <2> SUFFICES ASSUME NEW i \in 1..Len(Append(s, m))
                 PROVE  Append(s, m)[i] = m \/ (i \in 1..Len(s) /\ Append(s, m)[i] = s[i])
      OBVIOUS
    <2>1. i = Len(s) + 1 \/ i \in 1..Len(s)
      BY <1>3
    <2> QED BY <1>3, <2>1
  <1>5. CASE UNCHANGED <<shown, completed, everApplied>>
    <2>1. LifeOf(b)' /\ SettledOf(b)'
      BY <1>1, <1>2, <1>5 DEF LifeOf, SettledOf, Last
    <2>2. InOrder(Tail(q), s)
      BY <1>1, TakeOrder DEF OrderOf
    <2>3. OrderOf(b)'
      <3>1. InOrder(toGame[b], shown[b])'
        BY <1>1, <1>5, <2>2 DEF InOrder, Last
      <3>2. b \in completed => \A i \in 1..Len(Tail(q)) : Tail(q)[i] = Last
        BY <1>1, <1>2 DEF OrderOf
      <3>3. phase[b] \in {"run", "push"} => UpTo(Tail(q), pushed[b])
        BY <1>1, <1>2 DEF OrderOf, UpTo
      <3> QED BY <1>1, <1>5, <3>1, <3>2, <3>3 DEF OrderOf, UpTo, Last
    <2> QED BY <2>1, <2>3 DEF BattleOf
  <1>6. CASE /\ shown' = [shown EXCEPT ![b] = Append(@, m)]
             /\ \/ m # Last /\ UNCHANGED <<completed, everApplied>>
                \/ /\ m = Last
                   /\ b \notin completed
                   /\ completed' = completed \cup {b}
                   /\ everApplied' = everApplied \cup {b}
    <2>0. shown'[b] = Append(s, m)
      BY <1>1, <1>6
    <2>1. m = Last => phase[b] \notin {"run", "push"}
      <3>1. pushed[b] \in 0..NumEvents
        BY InvParts, InvTypes
      <3> QED BY <1>1, <1>2, <3>1 DEF OrderOf, UpTo, Last
    <2>2. LifeOf(b)'
      <3>1. phase[b] \in {"absent", "begin", "run", "push"} => b \notin completed'
        BY <1>1, <1>6, <2>1 DEF LifeOf
      <3> QED BY <1>1, <3>1 DEF LifeOf
    <2>3. SettledOf(b)'
      <3>1. m = Last => reports[b] # "none"
        BY <1>1, <1>2 DEF SettledOf
      <3>2. \A i \in 1..Len(Tail(q)) : Tail(q)[i] = Last => reports[b] # "none"
        BY <1>1, <1>2 DEF SettledOf
      <3> QED BY <1>1, <1>6, <3>1, <3>2 DEF SettledOf, Last
    <2>4. m = Last => \A i \in 1..Len(s) : s[i] # Last
      BY <1>1, <1>6 DEF OrderOf
    <2>5. InOrder(Tail(q), Append(s, m))
      BY <1>1, <2>4, ShowOrder DEF OrderOf
    <2>6. OrderOf(b)'
      <3>1. InOrder(toGame[b], shown[b])'
        BY <1>1, <2>0, <2>5 DEF InOrder, Last
      <3>2. \A i \in 1..Len(Append(s, m)) : Append(s, m)[i] = Last => b \in completed'
        BY <1>1, <1>4, <1>6 DEF OrderOf
      <3>3. b \in completed' => \A i \in 1..Len(Tail(q)) : Tail(q)[i] = Last
        <4>1. CASE m = Last
          <5>1. ASSUME NEW i \in 1..Len(Tail(q)) PROVE Tail(q)[i] = Last
            <6>1. /\ i + 1 \in 1..Len(q) /\ Tail(q)[i] = q[i + 1]
                  /\ q[1] < q[i + 1] \/ q[i + 1] = Last
              BY <1>1, <1>2 DEF OrderOf, InOrder
            <6>2. q[i + 1] \in 0..Last
              BY <1>1, <6>1 DEF Notes, Last
            <6> QED BY <1>2, <4>1, <6>1, <6>2 DEF Last
          <5> QED BY <5>1
        <4>2. CASE m # Last
          BY <1>1, <1>2, <1>6, <4>2 DEF OrderOf
        <4> QED BY <4>1, <4>2
      <3>4. phase[b] \in {"run", "push"} => UpTo(Tail(q), pushed[b]) /\ UpTo(Append(s, m), pushed[b])
        BY <1>1, <1>2, <1>4 DEF OrderOf, UpTo
      <3> QED BY <1>1, <2>0, <3>1, <3>2, <3>3, <3>4 DEF OrderOf, UpTo, Last
    <2> QED BY <2>2, <2>3, <2>6 DEF BattleOf
  <1> QED BY <1>5, <1>6, ReceiveCases

(* A notification keeps the invariant.                                     *)
LEMMA ReceivesKeep ==
  ASSUME IInv, NEW b \in Battles, GameReceives(b)
  PROVE  Life' /\ Order' /\ Records' /\ Settled'
  <1> USE DeliveryAssumption
  <1>1. ASSUME NEW x \in Battles, x # b PROVE BattleOf(x)'
    <2>1. /\ toGame'[x] = toGame[x] /\ shown'[x] = shown[x]
          /\ x \in completed' <=> x \in completed
          /\ x \in everApplied' <=> x \in everApplied
      <3>1. toGame \in [Battles -> Seq(Notes)] /\ shown \in [Battles -> Seq(Notes)]
        BY InvParts, InvTypes
      <3>2. toGame'[x] = toGame[x]
        BY <1>1, <3>1, ReceiveFrame
      <3> QED BY <1>1, <3>1, <3>2, ReceiveCases
    <2>2. SameBattle(x)
      BY <2>1, ReceiveFrame DEF SameBattle
    <2> QED BY <2>2, SameKeeps, InvParts
  <1>2. \A c \in confirms' : c.battle \in everApplied'
    <2>1. everApplied \subseteq everApplied' /\ (b \in completed => b \in everApplied)
      BY ReceiveCases, InvParts DEF BattleOf, SettledOf
    <2>2. CASE UNCHANGED confirms
      BY <2>1, <2>2, InvParts
    <2>3. CASE Client!FinishedAgain(b)
      BY <2>1, <2>3, InvParts DEF Client!FinishedAgain, Client!AppliedBefore, Client!Confirm
    <2>4. CASE Client!FinishedApplied(b)
      BY <2>1, <2>4, InvParts DEF Client!FinishedApplied, Client!Confirm
    <2> QED
      BY <2>2, <2>3, <2>4, ReceiveFrame DEF Client!Receive, Client!created, Client!action,
         Client!FinishedIgnored
  <1>3. Records'
    <2>1. /\ owner[b] \in Players /\ UNCHANGED owner
          /\ status \in [Players -> {"Idle", "CreateUnknown", "Running", "Finished"}]
          /\ battleID \in [Players -> Battles \cup {NoBattle}]
          /\ Records
      BY ReceiveFrame, InvParts, InvTypes
    <2>2. CASE UNCHANGED <<status, battleID, completed>>
      BY <2>1, <2>2 DEF Records, RecordOf
    <2>3. CASE Client!FinishedApplied(b)
      BY <2>1, <2>3 DEF Records, RecordOf, Client!FinishedApplied, Client!decide
    <2>4. CASE Client!created(b) /\ ~UNCHANGED <<status, battleID>>
      <3>1. Head(toGame[b]) # Last /\ toGame[b] # <<>>
        BY <2>4 DEF Client!created, Client!Incoming, Client!Created, Last
      <3>2. b \notin completed
        <4>1. toGame[b] \in Seq(Notes) /\ OrderOf(b)
          BY InvParts, InvTypes DEF BattleOf
        <4>2. 1 \in 1..Len(toGame[b]) /\ Head(toGame[b]) = toGame[b][1]
          BY <3>1, <4>1, TailElems
        <4> QED BY <3>1, <4>1, <4>2 DEF OrderOf
      <3> QED BY <2>1, <2>4, <3>2 DEF Records, RecordOf, Client!created
    <2> QED
      BY <2>2, <2>3, <2>4, ReceiveFrame DEF Client!Receive, Client!created, Client!action,
         Client!FinishedIgnored, Client!FinishedAgain, Client!recordVars
  <1> QED BY <1>1, <1>2, <1>3, ReceivesKeepBattle, InvParts
(* The manager: spawning an actor, rejecting, taking off the table.        *)
LEMMA ServiceKeeps ==
  ASSUME IInv, NEW b \in Battles, ServiceStep(b)
  PROVE  Life' /\ Order' /\ Records' /\ Settled'
  <1> USE DEF ServiceStep, Service!Step, Service!OnCreateBattle, Service!RejectCreate,
              Service!OnActorStopped, clientOnly
  <1>t. /\ phase \in [Battles -> Actor!Phases]
        /\ BattleOf(b) /\ Records
    BY InvParts, InvTypes
  <1>u. UNCHANGED <<status, battleID, completed, owner, shown, everApplied, home, toGame,
                    reports, pushed, attempts, confirms>>
    OBVIOUS
  <1>1. ASSUME NEW x \in Battles, x # b PROVE BattleOf(x)'
    <2>1. SameBattle(x)
      BY <1>t, <1>u, <1>1 DEF SameBattle
    <2> QED BY <2>1, SameKeeps, InvParts
  <1>2. BattleOf(b)'
    <2>1. LifeOf(b)'
      BY <1>t, <1>u DEF BattleOf, LifeOf
    <2>2. OrderOf(b)'
      <3>1. phase'[b] = phase[b] \/ phase'[b] = "begin"
        BY <1>t
      <3> QED BY <1>t, <1>u, <3>1 DEF BattleOf, OrderOf, InOrder, UpTo, Last
    <2>3. SettledOf(b)'
      BY <1>t, <1>u DEF BattleOf, LifeOf, SettledOf, Last
    <2> QED BY <2>1, <2>2, <2>3 DEF BattleOf
  <1>3. Records'
    BY <1>t, <1>u DEF Records, RecordOf
  <1>4. \A c \in confirms' : c.battle \in everApplied'
    BY <1>u, InvParts
  <1> QED BY <1>1, <1>2, <1>3, <1>4, InvParts

(* A notification that joins its battle's queue.                           *)
LEMMA SendsKeep ==
  ASSUME TypeOK, NEW b \in Battles, NEW m \in Notes, BattleOf(b),
         toGame' = [toGame EXCEPT ![b] = Append(@, m)],
         UNCHANGED <<shown, completed, everApplied, owner, home, starts, active, stopped, reports>>,
         \/ m = Last
         \/ /\ b \notin completed
            /\ Below(toGame[b], m)
            /\ Below(shown[b], m),
         m = Last => reports[b] # "none",
         phase'[b] \in {"run", "push"} =>
            /\ m <= pushed'[b]
            /\ UpTo(toGame[b], pushed'[b])
            /\ UpTo(shown[b], pushed'[b])
  PROVE  /\ OrderOf(b)'
         /\ \A i \in 1..Len(toGame'[b]) : toGame'[b][i] = Last => reports'[b] # "none"
  <1> USE DeliveryAssumption
  <1> DEFINE q == toGame[b]
             s == shown[b]
             a == Append(q, m)
  <1>1. /\ q \in Seq(Notes) /\ s \in Seq(Notes) /\ toGame'[b] = a /\ shown'[b] = s
    BY InvTypes
  <1>2. /\ Len(a) = Len(q) + 1 /\ Len(q) \in Nat /\ a[Len(q) + 1] = m
        /\ \A i \in 1..Len(q) : a[i] = q[i]
    BY <1>1, AppendElems
  <1>3. \A i \in 1..Len(a) : a[i] = m \/ (i \in 1..Len(q) /\ a[i] = q[i])
    <2> SUFFICES ASSUME NEW i \in 1..Len(a) PROVE a[i] = m \/ (i \in 1..Len(q) /\ a[i] = q[i])
      OBVIOUS
    <2>1. i = Len(q) + 1 \/ i \in 1..Len(q)
      BY <1>2
    <2> QED BY <1>2, <2>1
  <1>4. \A i \in 1..Len(a) : a[i] = Last => reports[b] # "none"
    BY <1>3 DEF BattleOf, SettledOf
  <1>5. InOrder(a, s)
    <2>1. \/ m = Last
          \/ (\A i \in 1..Len(q) : q[i] < m) /\ (\A i \in 1..Len(s) : s[i] < m)
      BY DEF Below
    <2> QED BY <1>1, <2>1, SendOrder DEF BattleOf, OrderOf
  <1>6. OrderOf(b)'
    <2>1. InOrder(toGame[b], shown[b])'
      BY <1>1, <1>5 DEF InOrder, Last
    <2>2. b \in completed => \A i \in 1..Len(a) : a[i] = Last
      BY <1>3 DEF BattleOf, OrderOf
    <2>3. phase'[b] \in {"run", "push"} => UpTo(a, pushed'[b])
      BY <1>3 DEF UpTo
    <2>4. \A i \in 1..Len(s) : s[i] = Last => b \in completed
      BY DEF BattleOf, OrderOf
    <2> HIDE DEF a, q, s
    <2>5. phase'[b] \in {"run", "push"} => UpTo(a, pushed'[b]) /\ UpTo(s, pushed'[b])
      BY <2>3 DEF s
    <2> QED BY <1>1, <2>1, <2>2, <2>4, <2>5 DEF OrderOf, UpTo, Last
  <1> QED BY <1>1, <1>4, <1>6
(* An actor touches its own battle only.                                   *)
LEMMA ActorFrame ==
  ASSUME IInv, NEW b \in Battles, ActorStep(b)
  PROVE  /\ \A x \in Battles : x # b => SameBattle(x)
         /\ UNCHANGED <<status, battleID, completed, owner, shown, everApplied, active, starts, home>>
         /\ confirms' \subseteq confirms
  <1> USE DEF ActorStep, clientOnly
  <1>1. UNCHANGED <<status, battleID, completed, owner, shown, everApplied, active, starts>>
    OBVIOUS
  <1>2. UNCHANGED home /\ confirms' \subseteq confirms
    BY DEF Actor!Step, Actor!notifyCreated, Actor!RunAndSave, Actor!CreateEngineFails,
       Actor!RunFails, Actor!pushAction, Actor!FirstFinished, Actor!retry, Actor!confirm
  <1>3. ASSUME NEW x \in Battles, x # b PROVE SameBattle(x)
    <2>1. phase'[x] = phase[x] /\ (x \in stopped' <=> x \in stopped)
      BY <1>3, InvParts, InvTypes
      DEF Actor!Step, Actor!notifyCreated, Actor!RunAndSave, Actor!CreateEngineFails,
          Actor!RunFails, Actor!pushAction, Actor!FirstFinished, Actor!retry, Actor!confirm,
          Actor!finish
    <2>2. pushed'[x] = pushed[x] /\ attempts'[x] = attempts[x]
      BY <1>3, InvParts, InvTypes
      DEF Actor!Step, Actor!notifyCreated, Actor!RunAndSave, Actor!CreateEngineFails,
          Actor!RunFails, Actor!pushAction, Actor!FirstFinished, Actor!retry, Actor!confirm,
          Actor!pushFinished
    <2>3. reports'[x] = reports[x]
      BY <1>3, InvParts, InvTypes
      DEF Actor!Step, Actor!notifyCreated, Actor!RunAndSave, Actor!CreateEngineFails,
          Actor!RunFails, Actor!pushAction, Actor!FirstFinished, Actor!retry, Actor!Save, Actor!confirm, Actor!Confirm
    <2>4. toGame'[x] = toGame[x]
      BY <1>3, InvParts, InvTypes
      DEF Actor!Step, Actor!notifyCreated, Actor!RunAndSave, Actor!CreateEngineFails,
          Actor!RunFails, Actor!pushAction, Actor!FirstFinished, Actor!retry, Actor!confirm,
          Actor!pushFinished, Actor!Notify
    <2> QED BY <1>1, <1>2, <2>1, <2>2, <2>3, <2>4 DEF SameBattle
  <1> QED BY <1>1, <1>2, <1>3

(* An actor's step keeps the invariant of its battle.                      *)
LEMMA ActorKeepsBattle ==
  ASSUME IInv, NEW b \in Battles, ActorStep(b)
  PROVE  BattleOf(b)'
  <1> USE DeliveryAssumption
  <1>t. /\ phase \in [Battles -> Actor!Phases]
        /\ pushed \in [Battles -> 0..NumEvents]
        /\ attempts \in [Battles -> 0..RetryAttempts]
        /\ reports \in [Battles -> {"none", "saved", "confirmed", "lost"}]
        /\ toGame \in [Battles -> Seq(Notes)]
        /\ TypeOK
        /\ BattleOf(b)
    BY InvParts, InvTypes
  <1>f. UNCHANGED <<completed, owner, shown, everApplied, active, starts, home>>
    BY ActorFrame
  <1>0. Actor!Step(b)
    BY DEF ActorStep
  <1>1. CASE Actor!CreateEngineFails(b) \/ Actor!RunFails(b) \/ (Actor!retry(b) /\ UNCHANGED toGame)
    <2>1. /\ phase[b] \in {"begin", "run", "wait"}
          /\ phase' = [phase EXCEPT ![b] = "stopped"]
          /\ stopped' = stopped \cup {b}
          /\ UNCHANGED <<pushed, attempts, reports, toGame>>
      <3>1. Actor!pushFinished(b) => toGame' # toGame
        <4>1. toGame[b] \in Seq(Notes)
          BY <1>t
        <4>2. Append(toGame[b], Actor!Finished) # toGame[b]
          BY <4>1, NotesTypes, AppendElems DEF Actor!Finished
        <4> QED BY <1>t, <4>2 DEF Actor!pushFinished, Actor!Notify
      <3> QED BY <1>1, <3>1 DEF Actor!CreateEngineFails, Actor!RunFails, Actor!retry, Actor!finish
    <2>2. phase'[b] = "stopped" /\ b \in stopped'
      BY <1>t, <2>1
    <2>3. LifeOf(b)'
      BY <1>t, <1>f, <2>1, <2>2 DEF BattleOf, LifeOf
    <2>4. OrderOf(b)'
      BY <1>t, <1>f, <2>1, <2>2 DEF BattleOf, OrderOf, InOrder, UpTo, Last
    <2>5. SettledOf(b)'
      BY <1>t, <1>f, <2>1, <2>2 DEF BattleOf, SettledOf, Last
    <2> QED BY <2>3, <2>4, <2>5 DEF BattleOf
  <1>2. CASE Actor!notifyCreated(b)
    <2>1. /\ phase[b] = "begin" /\ phase'[b] = "run"
          /\ toGame' = [toGame EXCEPT ![b] = Append(@, 0)]
          /\ UNCHANGED <<pushed, attempts, reports, stopped>>
      BY <1>2, <1>t DEF Actor!notifyCreated, Actor!Notify, Actor!Created
    <2>2. /\ Below(toGame[b], 0) /\ Below(shown[b], 0) /\ pushed[b] = 0 /\ b \notin completed
          /\ UpTo(toGame[b], 0) /\ UpTo(shown[b], 0)
      BY <1>t, <2>1 DEF BattleOf, LifeOf, UpTo, Below
    <2>3. OrderOf(b)' /\ \A i \in 1..Len(toGame'[b]) : toGame'[b][i] = Last => reports'[b] # "none"
      <3> DEFINE m == 0
      <3>1. m \in Notes /\ m # Last /\ Below(toGame[b], m) /\ Below(shown[b], m)
        BY <2>2, NotesTypes DEF Last
      <3>2. m <= pushed'[b] /\ UpTo(toGame[b], pushed'[b]) /\ UpTo(shown[b], pushed'[b])
        BY <2>1, <2>2
      <3>3. toGame' = [toGame EXCEPT ![b] = Append(@, m)]
        BY <2>1
      <3> HIDE DEF m
      <3> QED BY <1>t, <1>f, <2>1, <2>2, <3>1, <3>2, <3>3, SendsKeep
    <2>4. LifeOf(b)'
      BY <1>t, <1>f, <2>1 DEF BattleOf, LifeOf
    <2>5. SettledOf(b)'
      BY <1>t, <1>f, <2>1, <2>3 DEF BattleOf, SettledOf, Last
    <2> QED BY <2>3, <2>4, <2>5 DEF BattleOf
  <1>3. CASE Actor!RunAndSave(b)
    <2>1. /\ phase[b] = "run" /\ phase'[b] = "push" /\ reports'[b] = "saved"
          /\ UNCHANGED <<pushed, attempts, toGame, stopped>>
      BY <1>3, <1>t DEF Actor!Save, Actor!RunAndSave
    <2>2. LifeOf(b)'
      BY <1>t, <1>f, <2>1 DEF BattleOf, LifeOf
    <2>3. OrderOf(b)'
      BY <1>t, <1>f, <2>1 DEF BattleOf, OrderOf, InOrder, UpTo, Last
    <2>4. SettledOf(b)'
      BY <1>t, <1>f, <2>1 DEF BattleOf, LifeOf, SettledOf, Last
    <2> QED BY <2>2, <2>3, <2>4 DEF BattleOf
  <1>4. CASE Actor!pushAction(b)
    <2>1. /\ phase[b] = "push" /\ pushed[b] < NumEvents
          /\ toGame' = [toGame EXCEPT ![b] = Append(@, pushed[b] + 1)]
          /\ pushed'[b] = pushed[b] + 1
          /\ UNCHANGED <<phase, attempts, reports, stopped>>
      BY <1>4, <1>t DEF Actor!pushAction, Actor!Notify
    <2>2. /\ pushed[b] \in 0..NumEvents
          /\ pushed[b] + 1 \in Notes
          /\ pushed[b] + 1 # Last
      BY <1>t, <2>1 DEF Last, Notes
    <2>3. b \notin completed /\ UpTo(toGame[b], pushed[b]) /\ UpTo(shown[b], pushed[b])
      BY <1>t, <2>1 DEF BattleOf, LifeOf, OrderOf
    <2>4. /\ UpTo(toGame[b], pushed[b] + 1) /\ UpTo(shown[b], pushed[b] + 1)
          /\ Below(toGame[b], pushed[b] + 1) /\ Below(shown[b], pushed[b] + 1)
      <3>1. toGame[b] \in Seq(Notes) /\ shown[b] \in Seq(Notes)
        BY <1>t, InvTypes
      <3>2. (\A i \in 1..Len(toGame[b]) : toGame[b][i] \in Nat) /\ (\A i \in 1..Len(shown[b]) : shown[b][i] \in Nat)
        BY <3>1 DEF Notes
      <3> QED BY <2>2, <2>3, <3>2 DEF UpTo, Below
    <2>5. OrderOf(b)' /\ \A i \in 1..Len(toGame'[b]) : toGame'[b][i] = Last => reports'[b] # "none"
      <3> DEFINE m == pushed[b] + 1
      <3>1. m \in Notes /\ m # Last /\ Below(toGame[b], m) /\ Below(shown[b], m)
        BY <2>2, <2>4
      <3>2. m <= pushed'[b] /\ UpTo(toGame[b], pushed'[b]) /\ UpTo(shown[b], pushed'[b])
        BY <2>1, <2>2, <2>4
      <3>3. toGame' = [toGame EXCEPT ![b] = Append(@, m)]
        BY <2>1
      <3> HIDE DEF m
      <3> QED BY <1>t, <1>f, <2>1, <2>3, <3>1, <3>2, <3>3, SendsKeep
    <2>6. LifeOf(b)'
      BY <1>t, <1>f, <2>1 DEF BattleOf, LifeOf
    <2>7. SettledOf(b)'
      BY <1>t, <1>f, <2>1, <2>5 DEF BattleOf, SettledOf, Last
    <2> QED BY <2>5, <2>6, <2>7 DEF BattleOf
  <1>5. CASE Actor!FirstFinished(b) \/ (Actor!retry(b) /\ Actor!pushFinished(b))
    <2>1. /\ phase[b] \in {"push", "wait"}
          /\ phase'[b] = "wait"
          /\ toGame' = [toGame EXCEPT ![b] = Append(@, Last)]
          /\ UNCHANGED <<pushed, reports, stopped>>
      BY <1>5, <1>t DEF Actor!FirstFinished, Actor!retry, Actor!pushFinished, Actor!Notify,
         Actor!Finished, Last, Actor!finish
    <2>2. LifeOf(b)'
      BY <1>t, <1>f, <2>1 DEF BattleOf, LifeOf
    <2>3. OrderOf(b)' /\ \A i \in 1..Len(toGame'[b]) : toGame'[b][i] = Last => reports'[b] # "none"
      <3>1. Last \in Notes /\ reports[b] # "none"
        BY <1>t, <2>1, NotesTypes DEF BattleOf, LifeOf, Last
      <3> QED BY <1>t, <1>f, <2>1, <3>1, SendsKeep
    <2>4. SettledOf(b)'
      BY <1>t, <1>f, <2>1, <2>3 DEF BattleOf, SettledOf, Last
    <2> QED BY <2>2, <2>3, <2>4 DEF BattleOf
  <1>6. CASE Actor!confirm(b)
    <2>1. /\ phase[b] = "wait" /\ phase'[b] = "stopped" /\ b \in stopped'
          /\ reports'[b] = "confirmed"
          /\ [battle |-> b, node |-> home[b]] \in confirms
          /\ UNCHANGED <<pushed, attempts, toGame>>
      BY <1>6, <1>t DEF Actor!confirm, Actor!Confirm, Actor!finish
    <2>2. b \in everApplied
      BY <2>1, InvParts
    <2>3. LifeOf(b)'
      BY <1>t, <1>f, <2>1 DEF BattleOf, LifeOf
    <2>4. OrderOf(b)'
      BY <1>t, <1>f, <2>1 DEF BattleOf, OrderOf, InOrder, UpTo, Last
    <2>5. SettledOf(b)'
      BY <1>t, <1>f, <2>1, <2>2 DEF BattleOf, SettledOf, Last
    <2> QED BY <2>3, <2>4, <2>5 DEF BattleOf
  <1>7. Actor!retry(b) => UNCHANGED toGame \/ Actor!pushFinished(b)
    BY DEF Actor!retry
  <1> QED BY <1>0, <1>1, <1>2, <1>3, <1>4, <1>5, <1>6, <1>7 DEF Actor!Step

(* An actor's step keeps the invariant.                                    *)
LEMMA ActorKeeps ==
  ASSUME IInv, NEW b \in Battles, ActorStep(b)
  PROVE  Life' /\ Order' /\ Records' /\ Settled'
  <1>1. \A x \in Battles : BattleOf(x)'
    BY ActorFrame, ActorKeepsBattle, SameKeeps, InvParts
  <1>2. Records'
    BY ActorFrame, InvParts DEF Records, RecordOf
  <1>3. \A c \in confirms' : c.battle \in everApplied'
    BY ActorFrame, InvParts
  <1> QED BY <1>1, <1>2, <1>3, InvParts

(* Losing a message keeps the invariant.                                   *)
LEMMA LossKeeps ==
  ASSUME IInv,
         LoseConfirm \/ \E b \in Battles : LoseNotification(b) \/ LoseStart(b)
  PROVE  Life' /\ Order' /\ Records' /\ Settled'
  <1> USE DeliveryAssumption DEF clientOnly, actorOnly
  <1>1. ASSUME NEW b \in Battles, LoseNotification(b) PROVE \A x \in Battles : BattleOf(x)'
    <2> DEFINE q == toGame[b]
    <2>1. /\ toGame \in [Battles -> Seq(Notes)] /\ shown[b] \in Seq(Notes)
          /\ q \in Seq(Notes) /\ q # <<>>
          /\ toGame' = [toGame EXCEPT ![b] = Tail(@)]
          /\ BattleOf(b)
      BY <1>1, InvParts, InvTypes DEF LoseNotification
    <2>u. UNCHANGED <<owner, home, starts, completed, everApplied, stopped, active, shown, phase,
                      pushed, attempts, reports>>
      BY <1>1 DEF LoseNotification
    <2>2. ASSUME NEW x \in Battles, x # b PROVE BattleOf(x)'
      <3>1. SameBattle(x)
        BY <2>1, <2>u, <2>2 DEF SameBattle
      <3> QED BY <3>1, SameKeeps, InvParts
    <2>3. \A i \in 1..Len(Tail(q)) : i + 1 \in 1..Len(q) /\ Tail(q)[i] = q[i + 1]
      BY <2>1, TailElems
    <2>4. InOrder(Tail(q), shown[b])
      BY <2>1, TakeOrder DEF BattleOf, OrderOf
    <2>5. toGame'[b] = Tail(q)
      BY <2>1
    <2>6. OrderOf(b)'
      <3>1. InOrder(toGame[b], shown[b])'
        BY <2>4, <2>5, <2>u DEF InOrder, Last
      <3>2. b \in completed => \A i \in 1..Len(Tail(q)) : Tail(q)[i] = Last
        BY <2>1, <2>3 DEF BattleOf, OrderOf
      <3>3. phase[b] \in {"run", "push"} => UpTo(Tail(q), pushed[b])
        BY <2>1, <2>3 DEF BattleOf, OrderOf, UpTo
      <3> QED BY <2>1, <2>5, <2>u, <3>1, <3>2, <3>3 DEF BattleOf, OrderOf, UpTo, Last
    <2>7. LifeOf(b)'
      BY <2>1, <2>5, <2>u DEF BattleOf, LifeOf
    <2>8. SettledOf(b)'
      BY <2>1, <2>3, <2>5, <2>u DEF BattleOf, SettledOf, Last
    <2> QED BY <2>2, <2>6, <2>7, <2>8 DEF BattleOf
  <1>2. ASSUME NEW b \in Battles, LoseStart(b) PROVE \A x \in Battles : BattleOf(x)'
    <2>1. \A x \in Battles : x # b => SameBattle(x)
      BY <1>2 DEF LoseStart, SameBattle
    <2>2. BattleOf(b) /\ starts' \subseteq starts
          /\ UNCHANGED <<owner, home, completed, everApplied, stopped, active, shown, phase,
                      pushed, attempts, reports, toGame>>
      BY <1>2, InvParts DEF LoseStart
    <2>3. LifeOf(b)'
      BY <2>2 DEF BattleOf, LifeOf
    <2>4. OrderOf(b)' /\ SettledOf(b)'
      BY <2>2 DEF BattleOf, OrderOf, InOrder, UpTo, SettledOf, Last
    <2> QED BY <2>1, <2>3, <2>4, SameKeeps, InvParts DEF BattleOf
  <1>3. CASE LoseConfirm
    <2>1. \A x \in Battles : SameBattle(x)
      BY <1>3 DEF LoseConfirm, SameBattle
    <2>2. \A x \in Battles : BattleOf(x)'
      BY <2>1, SameKeeps, InvParts
    <2>3. Records' /\ \A c \in confirms' : c.battle \in everApplied'
      BY <1>3, InvParts DEF LoseConfirm, Records, RecordOf
    <2> QED BY <2>2, <2>3, InvParts
  <1>4. ASSUME NEW b \in Battles, LoseNotification(b) \/ LoseStart(b)
        PROVE  Records' /\ \A c \in confirms' : c.battle \in everApplied'
    BY <1>4, InvParts DEF LoseNotification, LoseStart, Records, RecordOf
  <1> QED BY <1>1, <1>2, <1>3, <1>4, InvParts

(* A restart of the game or a crash of a battle process keeps it.          *)
LEMMA RestartsKeep ==
  ASSUME IInv, GameRestarts \/ \E n \in Nodes : NodeCrashes(n)
  PROVE  Life' /\ Order' /\ Records' /\ Settled'
  <1> USE DeliveryAssumption DEF clientOnly, actorOnly
  <1>1. CASE GameRestarts
    <2>1. /\ status' = [u \in Players |-> "Idle"]
          /\ battleID' = [u \in Players |-> NoBattle]
          /\ completed' = {}
          /\ shown' = [b \in Battles |-> <<>>]
          /\ UNCHANGED <<owner, home, starts, toGame, confirms, everApplied, phase, pushed,
                         attempts, reports, active, stopped>>
      BY <1>1 DEF GameRestarts, Client!Restart
    <2>2. ASSUME NEW x \in Battles PROVE BattleOf(x)'
      <3>1. BattleOf(x) /\ shown'[x] = <<>> /\ x \notin completed'
        BY <2>1, InvParts
      <3>2. LifeOf(x)'
        BY <2>1, <3>1 DEF BattleOf, LifeOf
      <3>3. OrderOf(x)'
        BY <2>1, <3>1 DEF BattleOf, OrderOf, InOrder, UpTo, Last
      <3>4. SettledOf(x)'
        BY <2>1, <3>1 DEF BattleOf, SettledOf, Last
      <3> QED BY <3>2, <3>3, <3>4 DEF BattleOf
    <2>3. Records'
      BY <2>1 DEF Records, RecordOf
    <2>4. \A c \in confirms' : c.battle \in everApplied'
      BY <2>1, InvParts
    <2> QED BY <2>2, <2>3, <2>4, InvParts
  <1>2. ASSUME NEW n \in Nodes, NodeCrashes(n) PROVE Life' /\ Order' /\ Records' /\ Settled'
    <2> DEFINE here == {b \in Battles : home[b] = n /\ phase[b] # "absent"}
    <2>1. /\ phase' = [b \in Battles |-> IF b \in here THEN "stopped" ELSE phase[b]]
          /\ reports' = [b \in Battles |->
                           IF b \in here /\ reports[b] # "none" THEN "lost" ELSE reports[b]]
          /\ stopped' = stopped \ here
          /\ active' = {b \in active : home[b] # n}
          /\ UNCHANGED <<status, battleID, completed, owner, shown, everApplied, pushed, attempts,
                         home, toGame, confirms, starts>>
      BY <1>2 DEF NodeCrashes, Actor!Crash
    <2>2. ASSUME NEW x \in Battles PROVE BattleOf(x)'
      <3>1. /\ BattleOf(x)
            /\ x \in here => phase'[x] = "stopped"
            /\ x \notin here => phase'[x] = phase[x] /\ reports'[x] = reports[x]
            /\ reports'[x] \in {reports[x], "lost"}
            /\ reports'[x] = "none" <=> reports[x] = "none"
        BY <2>1, InvParts
      <3>2. LifeOf(x)'
        BY <2>1, <3>1 DEF BattleOf, LifeOf
      <3>3. OrderOf(x)'
        BY <2>1, <3>1 DEF BattleOf, OrderOf, InOrder, UpTo, Last
      <3>4. SettledOf(x)'
        <4>1. x \in active' <=> (phase'[x] \notin {"absent", "stopped"} \/ x \in stopped')
          BY <2>1, <3>1 DEF BattleOf, LifeOf, SettledOf
        <4> QED BY <2>1, <3>1, <4>1 DEF BattleOf, SettledOf, Last
      <3> QED BY <3>2, <3>3, <3>4 DEF BattleOf
    <2>3. Records' /\ \A c \in confirms' : c.battle \in everApplied'
      BY <2>1, InvParts DEF Records, RecordOf
    <2> QED BY <2>2, <2>3, InvParts
  <1> QED BY <1>1, <1>2
(* The inductive invariant holds at first.                                 *)
LEMMA InvInit == Init => IInv
  <1> SUFFICES ASSUME Init PROVE IInv
    OBVIOUS
  <1> USE DeliveryAssumption DEF Init, Client!Init, Client!ClientInit, Service!Init, Actor!Init
  <1>1. Life
    BY DEF Life, LifeOf
  <1>2. Order
    BY DEF Order, OrderOf, InOrder, UpTo
  <1>3. Records
    BY DEF Records, RecordOf
  <1>4. Settled
    BY DEF Settled, SettledOf
  <1> QED BY <1>1, <1>2, <1>3, <1>4, TypeInit DEF IInv

(* Every step keeps the inductive invariant.                               *)
LEMMA InvNext == IInv /\ [Next]_vars => IInv'
  <1> SUFFICES ASSUME IInv, [Next]_vars PROVE IInv'
    OBVIOUS
  <1>1. TypeOK'
    BY TypeNext DEF IInv
  <1>2. CASE Next
    <2>1. Life' /\ Order' /\ Records' /\ Settled'
      BY <1>2, CallsKeep, ReceivesKeep, ServiceKeeps, ActorKeeps, LossKeeps, RestartsKeep DEF Next
    <2> QED BY <1>1, <2>1 DEF IInv
  <1>3. CASE UNCHANGED vars
    <2> USE <1>3 DEF vars, clientOnly, actorOnly
    <2>1. \A x \in Battles : SameBattle(x)
      BY DEF SameBattle
    <2>2. Life' /\ Order' /\ Settled'
      BY <2>1, SameKeeps, InvParts
    <2>3. Records'
      BY InvParts DEF Records, RecordOf
    <2> QED BY <1>1, <2>2, <2>3 DEF IInv
  <1> QED BY <1>2, <1>3

(* The inductive invariant holds throughout.                               *)
LEMMA Invariance == Spec => []IInv
  BY InvInit, InvNext, PTL DEF Spec

-----------------------------------------------------------------------------
(* The theorems.                                                           *)

(* Every variable keeps its type: in particular the attempts of an actor   *)
(* never exceed RetryAttempts (actor.go pushFinished, retry).              *)
THEOREM TypeCorrect == Spec => []TypeOK
  <1>1. IInv => TypeOK
    BY DEF IInv
  <1> QED BY <1>1, Invariance, PTL

(* A player sees the notifications of a battle in order and none of them   *)
(* twice, for any number of players, nodes, actions, retries, losses and   *)
(* restarts (client.go created, action, finished).                         *)
THEOREM ShownOrdered == Spec => []ShownInOrder
  <1>1. IInv => ShownInOrder
    BY DEF IInv, Order, OrderOf, InOrder, ShownInOrder
  <1> QED BY <1>1, Invariance, PTL

(* A running record stands for an undecided battle of its own player.      *)
THEOREM RunningOpen == Spec => []RunningIsOpen
  <1>1. IInv => RunningIsOpen
    <2> SUFFICES ASSUME IInv, NEW u \in Players, status[u] = "Running"
                 PROVE  battleID[u] \in Battles \ completed /\ owner[battleID[u]] = u
      BY DEF RunningIsOpen
    <2>1. RecordOf(u)
      BY DEF IInv, Records
    <2> QED BY <2>1, DeliveryAssumption DEF RecordOf
  <1> QED BY <1>1, Invariance, PTL

(* Finished is on its way only after the report was saved (actor.go begin: *)
(* Save comes before the pushes).                                          *)
THEOREM ReportSavedFirst == Spec => []SavedBeforeFinished
  <1>1. IInv => SavedBeforeFinished
    BY DEF IInv, Settled, SettledOf, SavedBeforeFinished, Last, Actor!Finished
  <1> QED BY <1>1, Invariance, PTL

(* What the store has for confirmed was applied by the game.               *)
THEOREM ConfirmedApplied == Spec => []ConfirmedWasApplied
  <1>1. IInv => ConfirmedWasApplied
    BY DEF IInv, Settled, SettledOf, ConfirmedWasApplied
  <1> QED BY <1>1, Invariance, PTL

(* The manager's table is exactly the live actors and those whose          *)
(* ActorStopped it has yet to handle.                                      *)
THEOREM TableMatchesActors == Spec => []ActiveMatchesActors
  <1>1. IInv => ActiveMatchesActors
    BY DEF IInv, Settled, SettledOf, ActiveMatchesActors
  <1> QED BY <1>1, Invariance, PTL

(* A step of delivery is a step of BattleResult, or none.                  *)
LEMMA StepImplements == IInv /\ [Next]_vars => [Result!Next]_(Result!vars)
  <1> SUFFICES ASSUME IInv, [Next]_vars PROVE [Result!Next]_(Result!vars)
    OBVIOUS
  <1> USE DeliveryAssumption, InvParts, InvTypes DEF Result!vars, clientOnly, actorOnly
  <1>s. UNCHANGED <<reports, everApplied>> => [Result!Next]_(Result!vars)
    OBVIOUS
  <1>1. ASSUME NEW u \in Players, GameCalls(u) PROVE UNCHANGED <<reports, everApplied>>
    BY <1>1 DEF GameCalls, Client!Call, Client!PickFails, Client!reset, Client!StartFails,
       Client!begin, Client!StartTimesOut, Client!history
  <1>2. ASSUME NEW b \in Battles, GameReceives(b) PROVE [Result!Next]_(Result!vars)
    <2>1. UNCHANGED reports
      BY <1>2 DEF GameReceives
    <2>2. CASE UNCHANGED everApplied
      BY <2>1, <2>2, <1>s
    <2>3. CASE Head(toGame[b]) = Last /\ everApplied' = everApplied \cup {b}
      <3>1. toGame[b] \in Seq(Notes) /\ toGame[b] # <<>> /\ SettledOf(b)
        BY <1>2, ReceiveFrame DEF BattleOf
      <3>2. 1 \in 1..Len(toGame[b]) /\ Head(toGame[b]) = toGame[b][1]
        BY <3>1, TailElems
      <3>3. reports[b] # "none"
        BY <2>3, <3>1, <3>2 DEF SettledOf
      <3> QED BY <2>1, <2>3, <3>3 DEF Result!Next, Result!Apply
    <2> QED BY <1>2, <2>2, <2>3, ReceiveCases
  <1>3. ASSUME NEW b \in Battles, ServiceStep(b) PROVE UNCHANGED <<reports, everApplied>>
    BY <1>3 DEF ServiceStep
  <1>4. ASSUME NEW b \in Battles, ActorStep(b) PROVE [Result!Next]_(Result!vars)
    <2>0. UNCHANGED everApplied /\ BattleOf(b) /\ Actor!Step(b)
      BY <1>4 DEF ActorStep
    <2>1. CASE UNCHANGED reports
      BY <2>0, <2>1, <1>s
    <2>2. CASE Actor!RunAndSave(b)
      <3>1. reports[b] = "none" /\ reports' = [reports EXCEPT ![b] = "saved"]
        BY <2>0, <2>2 DEF Actor!Save, Actor!RunAndSave, BattleOf, LifeOf
      <3> QED BY <2>0, <3>1 DEF Result!Next, Result!Save
    <2>3. CASE Actor!confirm(b)
      <3>1. /\ reports[b] = "saved" /\ b \in everApplied
            /\ reports' = [reports EXCEPT ![b] = "confirmed"]
        BY <2>0, <2>3 DEF Actor!confirm, Actor!Confirm, BattleOf, LifeOf
      <3> QED BY <2>0, <3>1 DEF Result!Next, Result!Confirm
    <2> QED
      BY <2>0, <2>1, <2>2, <2>3 DEF Actor!Step, Actor!notifyCreated, Actor!CreateEngineFails,
         Actor!RunFails, Actor!pushAction, Actor!FirstFinished, Actor!retry
  <1>5. ASSUME LoseConfirm \/ GameRestarts \/ \E b \in Battles : LoseNotification(b) \/ LoseStart(b)
        PROVE  UNCHANGED <<reports, everApplied>>
    BY <1>5 DEF LoseConfirm, GameRestarts, LoseNotification, LoseStart, Client!Restart
  <1>6. ASSUME NEW n \in Nodes, NodeCrashes(n) PROVE [Result!Next]_(Result!vars)
    <2> DEFINE bs == {b \in Battles : home[b] = n /\ phase[b] # "absent" /\ reports[b] # "none"}
    <2>1. reports' = [b \in Battles |-> IF b \in bs THEN "lost" ELSE reports[b]]
      BY <1>6 DEF NodeCrashes, Actor!Crash
    <2>2. bs \in SUBSET Battles /\ (\A b \in bs : reports[b] # "none") /\ UNCHANGED everApplied
      BY <1>6 DEF NodeCrashes
    <2> HIDE DEF bs
    <2> QED BY <2>1, <2>2 DEF Result!Next, Result!Forget
  <1>7. CASE UNCHANGED vars
    BY <1>7, <1>s DEF vars
  <1> QED
    BY <1>1, <1>2, <1>3, <1>4, <1>5, <1>6, <1>7, <1>s DEF Next

(* Delivery implements BattleResult: whatever is lost, repeated, retried   *)
(* or restarted, a result is applied only after it was stored and stored   *)
(* as confirmed only after it was applied.                                 *)
THEOREM DeliveryImplementsResult == Spec => RefinesResult
  <1>1. Init => Result!Init
    BY DEF Init, Client!Init, Client!ClientInit, Actor!Init, Result!Init
  <1> QED BY <1>1, StepImplements, Invariance, PTL DEF Spec, RefinesResult, Result!Spec
=============================================================================
