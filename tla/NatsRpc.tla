------------------------------ MODULE NatsRpc -------------------------------
(***************************************************************************)
(* Processes that call each other over NATS.  In each one an actor calls   *)
(* and casts through its Nats actor and handles what that one routes to    *)
(* it; while it waits for a Cast to be published it handles nothing else.  *)
(* NATS delivers at most once, in any order.  A process may restart: its   *)
(* sessions are then numbered from the start again.                        *)
(***************************************************************************)
EXTENDS Naturals, Sequences, FiniteSets

CONSTANTS
    Nodes, Calls, NoCall, BoxSize, Faults,
    Fragile     \* the processes that may stop or restart

FaultKinds == {"loss", "publish", "unroutable", "decode", "stop", "restart"}

ASSUME RpcAssumption ==
    /\ Calls \subseteq [id : Nat, from : Nodes, to : Nodes, cast : BOOLEAN]
    /\ NoCall \notin Calls
    /\ BoxSize \in Nat \ {0}
    /\ Faults \subseteq FaultKinds
    /\ Fragile \subseteq Nodes

VARIABLES
    natsUp, natsBox, pending, requestTimers, wheel, nextRequestID,
    answers, wire, appBox,
    asked,      \* the calls made
    waiting,    \* the Cast each actor waits for
    restarted   \* the processes that have restarted

Nats == INSTANCE NatsActor

natsOnly == <<natsUp, pending, requestTimers, wheel, nextRequestID>>
appOnly == <<asked, waiting, restarted>>
vars == <<natsOnly, natsBox, answers, wire, appBox, appOnly>>

TypeOK ==
    /\ Nats!TypeOK
    /\ appBox \in [Nodes -> Seq(Nats!Msgs)]
    /\ asked \subseteq Calls
    /\ waiting \in [Nodes -> Calls \cup {NoCall}]
    /\ restarted \subseteq Nodes

Init ==
    /\ Nats!Init
    /\ appBox = [n \in Nodes |-> <<>>]
    /\ asked = {}
    /\ waiting = [n \in Nodes |-> NoCall]
    /\ restarted = {}

-----------------------------------------------------------------------------
(* Mutant: an actor goes on after a Cast without its answer.               *)
AskOnly(c) == UNCHANGED waiting

(* CallSync returns at once, Cast waits for the answer of the Nats actor.  *)
AskAndWait(c) ==
    IF c.cast THEN waiting' = [waiting EXCEPT ![c.from] = c] ELSE UNCHANGED waiting

Ask(c) ==
    /\ c \notin asked
    /\ natsUp[c.from]
    /\ waiting[c.from] = NoCall
    /\ asked' = asked \cup {c}
    /\ natsBox' = [natsBox EXCEPT ![c.from] = Append(@, Nats!Call(c))]
    /\ AskAndWait(c)
    /\ UNCHANGED <<natsOnly, answers, wire, appBox, restarted>>

(* Mutant: the wait has no limit.                                          *)
AwaitOver(c) == answers[c] # <<>>

(* The Cast is answered, or its 5 seconds are over.                        *)
AwaitEnds(c) == TRUE

sendOrErr(n) ==
    /\ waiting[n] # NoCall
    /\ AwaitEnds(waiting[n])
    /\ waiting' = [waiting EXCEPT ![n] = NoCall]
    /\ UNCHANGED <<natsOnly, natsBox, answers, wire, appBox, asked, restarted>>

(* An actor handles a message and answers a request.                       *)
AppHandles(n) ==
    /\ waiting[n] = NoCall
    /\ appBox[n] # <<>>
    /\ appBox' = [appBox EXCEPT ![n] = Tail(@)]
    /\ LET m == Head(appBox[n]) IN
       natsBox' = IF m.type = "req" /\ natsUp[n]
                  THEN [natsBox EXCEPT ![n] = Append(@, Nats!Reply(m.from, m.session, m.call))]
                  ELSE natsBox
    /\ UNCHANGED <<natsOnly, answers, wire, appOnly>>

NatsStep(n) == Nats!Step(n) /\ UNCHANGED appOnly
Fires(n) == \E s \in wheel[n] : Nats!TimerFires(n, s) /\ UNCHANGED appOnly
Receives(n) == Nats!subscribe(n) /\ UNCHANGED appOnly

Drops(n) ==
    /\ natsBox[n] # <<>>
    /\ Nats!Unroutable(n, Head(natsBox[n]))
    /\ UNCHANGED appOnly

Stops(n) == n \in Fragile /\ "stop" \in Faults /\ Nats!OnStop(n) /\ UNCHANGED appOnly

Lose ==
    /\ "loss" \in Faults
    /\ \E p \in wire : wire' = wire \ {p}
    /\ UNCHANGED <<natsOnly, natsBox, answers, appBox, appOnly>>

(* The process is gone with what it held and comes back empty.             *)
Restart(n) ==
    /\ n \in Fragile
    /\ "restart" \in Faults
    /\ n \notin restarted
    /\ restarted' = restarted \cup {n}
    /\ natsUp' = [natsUp EXCEPT ![n] = TRUE]
    /\ natsBox' = [natsBox EXCEPT ![n] = <<>>]
    /\ pending' = [pending EXCEPT ![n] = {}]
    /\ requestTimers' = [requestTimers EXCEPT ![n] = {}]
    /\ wheel' = [wheel EXCEPT ![n] = {}]
    /\ nextRequestID' = [nextRequestID EXCEPT ![n] = 0]
    /\ appBox' = [appBox EXCEPT ![n] = <<>>]
    /\ waiting' = [waiting EXCEPT ![n] = NoCall]
    /\ UNCHANGED <<answers, wire, asked>>

Next ==
    \/ Lose
    \/ \E c \in Calls : Ask(c)
    \/ \E n \in Nodes :
         \/ NatsStep(n) \/ Drops(n) \/ Fires(n) \/ Receives(n)
         \/ AppHandles(n) \/ sendOrErr(n) \/ Stops(n) \/ Restart(n)

Spec == Init /\ [][Next]_vars

(* Goroutines run, timers fire, and a Cast's 5 seconds pass.  Nobody has   *)
(* to call, and NATS need not deliver.                                     *)
Fairness ==
    \A n \in Nodes :
        WF_vars(NatsStep(n)) /\ WF_vars(Fires(n)) /\ WF_vars(AppHandles(n))
        /\ WF_vars(sendOrErr(n))

FairSpec == Spec /\ Fairness

-----------------------------------------------------------------------------
Queued(n, m) == \E i \in 1..Len(natsBox[n]) : natsBox[n][i] = m
Pending(c) == \E p \in pending[c.from] : p.call = c

(* An acknowledgement, a timeout and the actor's end race for a call: it   *)
(* is answered once (handle.go finishPending, nats.go OnStop).             *)
AnsweredOnce == \A c \in Calls : Len(answers[c]) <= 1

(* A call is never forgotten: until its process ends it waits in the       *)
(* mailbox, is pending or is answered; the Nats actor that stops answers   *)
(* all that is pending (handle.go sendCall, NatsMsgAck; nats.go OnStop).   *)
NeverForgotten ==
    \A c \in asked :
        \/ Queued(c.from, Nats!Call(c)) \/ Pending(c) \/ answers[c] # <<>>
        \/ c.from \in restarted

(* What is pending will end, answered or not: its timer runs or its tick   *)
(* is in the mailbox; what is not pending holds no timer.                  *)
PendingTimesOut ==
    \A n \in Nodes :
        /\ \A p \in pending[n] : p.session \in wheel[n] \/ Queued(n, Nats!Tick(p.session))
        /\ wheel[n] \subseteq requestTimers[n]
        /\ requestTimers[n] = {p.session : p \in pending[n]}

(* A call gets the reply to itself.  The session's number is all that ties *)
(* them, so this holds of processes that have not restarted.               *)
OwnReply ==
    \A c \in Calls : c.from \notin restarted =>
        \A i \in 1..Len(answers[c]) : answers[c][i].type = "answer" => answers[c][i].call = c

(* Liveness: whatever is lost, a call is answered as long as its Nats      *)
(* actor runs ...                                                          *)
CallAnswered ==
    \A c \in Calls :
        c \in asked ~> answers[c] # <<>> \/ ~natsUp[c.from] \/ c.from \in restarted

(* ... although the Nats actor waits for the actor's full mailbox while    *)
(* the actor waits for the Nats actor to publish its Cast.                 *)
CastReturns == \A n \in Nodes : waiting[n] # NoCall ~> waiting[n] = NoCall
=============================================================================
