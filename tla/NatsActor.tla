----------------------------- MODULE NatsActor ------------------------------
(***************************************************************************)
(* The Nats actor of each process (natsrpc/internal): it publishes the     *)
(* calls and casts of its process, keeps the calls that wait for an answer *)
(* with a timer each, and routes what arrives to the process's actors.     *)
(*                                                                         *)
(* A call [id, from, to, cast] stands for its payload; a reply is named    *)
(* after the call it answers.                                              *)
(***************************************************************************)
EXTENDS Naturals, Sequences

CONSTANTS
    Nodes, Calls,
    BoxSize,    \* capacity of the mailbox of a process's actor
    Faults

VARIABLES
    natsUp,         \* FALSE after OnStop
    natsBox,        \* mailbox of each Nats actor
    pending,        \* ReqMsgMap
    requestTimers,  \* the sessions with a timer handle
    wheel,          \* the sessions whose timer runs
    nextRequestID,
    answers,        \* the responses to each call, in order
    wire,           \* what is published and not delivered
    appBox          \* mailbox of the actor that calls and is called

natsVars == <<natsUp, natsBox, pending, requestTimers, wheel, nextRequestID>>

Ended(how) == [type |-> how]
Answer(c) == [type |-> "answer", call |-> c]
Responses == {Ended(how) : how \in {"ok", "failed", "timeout", "stopped"}}
             \cup {Answer(c) : c \in Calls}

(* The frames of sspb, and what a Nats actor's mailbox holds besides them. *)
NatsMsgReq(n, s, c) == [type |-> "req", from |-> n, session |-> s, call |-> c]
NatsMsgAck(s, c) == [type |-> "ack", session |-> s, call |-> c]
NatsMsgNtf(c) == [type |-> "ntf", call |-> c]
Reply(n, s, c) == [type |-> "reply", from |-> n, session |-> s, call |-> c]
Call(c) == [type |-> "call", call |-> c]
Tick(s) == [type |-> "tick", session |-> s]

Msgs == [type : {"req", "reply"}, from : Nodes, session : Nat, call : Calls]
        \cup [type : {"ack"}, session : Nat, call : Calls]
        \cup [type : {"ntf", "call"}, call : Calls]
        \cup [type : {"tick"}, session : Nat]

TypeOK ==
    /\ natsUp \in [Nodes -> BOOLEAN]
    /\ natsBox \in [Nodes -> Seq(Msgs)]
    /\ pending \in [Nodes -> SUBSET [session : Nat, call : Calls]]
    /\ requestTimers \in [Nodes -> SUBSET Nat]
    /\ wheel \in [Nodes -> SUBSET Nat]
    /\ nextRequestID \in [Nodes -> Nat]
    /\ answers \in [Calls -> Seq(Responses)]
    /\ wire \subseteq [to : Nodes, msg : Msgs]
    /\ \A n \in Nodes : Len(appBox[n]) <= BoxSize

Init ==
    /\ natsUp = [n \in Nodes |-> TRUE]
    /\ natsBox = [n \in Nodes |-> <<>>]
    /\ pending = [n \in Nodes |-> {}]
    /\ requestTimers = [n \in Nodes |-> {}]
    /\ wheel = [n \in Nodes |-> {}]
    /\ nextRequestID = [n \in Nodes |-> 0]
    /\ answers = [c \in Calls |-> <<>>]
    /\ wire = {}

-----------------------------------------------------------------------------
Handle(n, m) ==
    /\ natsUp[n]
    /\ natsBox[n] # <<>>
    /\ Head(natsBox[n]) = m
    /\ natsBox' = [natsBox EXCEPT ![n] = Tail(@)]

Publish(n, m) == wire' = wire \cup {[to |-> n, msg |-> m]}
Respond(c, r) == answers' = [answers EXCEPT ![c] = Append(@, r)]

(* Mutant: the session's entry stays behind.                               *)
finishPendingKept(n, s, p, r) ==
    /\ requestTimers' = [requestTimers EXCEPT ![n] = @ \ {s}]
    /\ wheel' = [wheel EXCEPT ![n] = @ \ {s}]
    /\ Respond(p.call, r)
    /\ UNCHANGED pending

(* The answer to the pending request p of session s.                       *)
finishPending(n, s, p, r) ==
    /\ pending' = [pending EXCEPT ![n] = @ \ {p}]
    /\ requestTimers' = [requestTimers EXCEPT ![n] = @ \ {s}]
    /\ wheel' = [wheel EXCEPT ![n] = @ \ {s}]
    /\ Respond(p.call, r)

PendingOf(n, s) == {p \in pending[n] : p.session = s}

(* An answer to a session that waits for none is dropped.                  *)
Unknown(n, s) ==
    /\ PendingOf(n, s) = {}
    /\ UNCHANGED <<pending, requestTimers, wheel, answers>>

(* Mutant: the timer is set only when it is asked for.                     *)
SetNoTimer(n, s) == UNCHANGED <<requestTimers, wheel>>

SetTimer(n, s) ==
    /\ requestTimers' = [requestTimers EXCEPT ![n] = @ \cup {s}]
    /\ wheel' = [wheel EXCEPT ![n] = @ \cup {s}]

(* Encoding fails before or after the session is numbered, or publishing   *)
(* fails; the caller is told and nothing is left behind.                   *)
CallFails(n, c) ==
    /\ "publish" \in Faults
    /\ \E s \in {nextRequestID[n], nextRequestID[n] + 1} :
         nextRequestID' = [nextRequestID EXCEPT ![n] = s]
    /\ Respond(c, Ended("failed"))
    /\ UNCHANGED <<pending, requestTimers, wheel, wire>>

(* Mutant: every call of a process has the same session.                   *)
SameSession(n) == 1

NewSession(n) == nextRequestID[n] + 1

sendCall(n, c) ==
    LET s == NewSession(n) IN
    /\ ~c.cast
    /\ Handle(n, Call(c))
    /\ \/ CallFails(n, c)
       \/ /\ nextRequestID' = [nextRequestID EXCEPT ![n] = s]
          /\ pending' = [pending EXCEPT ![n] = @ \cup {[session |-> s, call |-> c]}]
          /\ SetTimer(n, s)
          /\ Publish(c.to, NatsMsgReq(n, s, c))
          /\ UNCHANGED answers
    /\ UNCHANGED <<natsUp, appBox>>

catsMsg(n, c) ==
    /\ c.cast
    /\ Handle(n, Call(c))
    /\ \/ CallFails(n, c)
       \/ /\ nextRequestID' = [nextRequestID EXCEPT ![n] = NewSession(n)]
          /\ Publish(c.to, NatsMsgNtf(c))
          /\ Respond(c, Ended("ok"))
          /\ UNCHANGED <<pending, requestTimers, wheel>>
    /\ UNCHANGED <<natsUp, appBox>>

(* Mutant: the sender does not wait for room in the mailbox.               *)
HasRoomAlways(n) == TRUE

HasRoom(n) == Len(appBox[n]) < BoxSize

(* A request or a notification goes to its target; the Send waits for room. *)
Route(n, m) ==
    /\ m.type \in {"req", "ntf"}
    /\ HasRoom(n)
    /\ Handle(n, m)
    /\ appBox' = [appBox EXCEPT ![n] = Append(@, m)]
    /\ UNCHANGED <<natsUp, pending, requestTimers, wheel, nextRequestID, answers, wire>>

(* It is dropped: there is no such actor, or it cannot be decoded.  Not a  *)
(* part of Step, so that fairness never relies on it to get past a Send.   *)
Unroutable(n, m) ==
    /\ "unroutable" \in Faults
    /\ m.type \in {"req", "ntf"}
    /\ Handle(n, m)
    /\ UNCHANGED <<natsUp, pending, requestTimers, wheel, nextRequestID, answers, wire, appBox>>

(* Mutant: an acknowledgement that cannot be decoded leaves the request to *)
(* nobody.                                                                 *)
AckDropped(n, s, p, c) ==
    /\ pending' = [pending EXCEPT ![n] = @ \ {p}]
    /\ requestTimers' = [requestTimers EXCEPT ![n] = @ \ {s}]
    /\ wheel' = [wheel EXCEPT ![n] = @ \ {s}]
    /\ UNCHANGED answers

AckAnswers(n, s, p, c) ==
    \E r \in {Answer(c)} \cup IF "decode" \in Faults THEN {Ended("failed")} ELSE {} :
        finishPending(n, s, p, r)

OnAck(n, s, c) ==
    /\ Handle(n, NatsMsgAck(s, c))
    /\ \/ Unknown(n, s)
       \/ \E p \in PendingOf(n, s) : AckAnswers(n, s, p, c)
    /\ UNCHANGED <<natsUp, nextRequestID, wire, appBox>>

timeoutRequest(n, s) ==
    /\ Handle(n, Tick(s))
    /\ \/ Unknown(n, s)
       \/ \E p \in PendingOf(n, s) : finishPending(n, s, p, Ended("timeout"))
    /\ UNCHANGED <<natsUp, nextRequestID, wire, appBox>>

(* The target's response, with the routing data of its request.            *)
MsgHandle(n, m) ==
    /\ m.type = "reply"
    /\ Handle(n, m)
    /\ \/ Publish(m.from, NatsMsgAck(m.session, m.call))
       \/ "publish" \in Faults /\ UNCHANGED wire
    /\ UNCHANGED <<natsUp, pending, requestTimers, wheel, nextRequestID, answers, appBox>>

(* Mutant: the calls that wait are forgotten.                              *)
AnswerNone(n) == UNCHANGED answers

AnswerAll(n) ==
    answers' = [c \in Calls |->
                  IF \E p \in pending[n] : p.call = c
                  THEN Append(answers[c], Ended("stopped")) ELSE answers[c]]

OnStop(n) ==
    /\ natsUp[n]
    /\ natsUp' = [natsUp EXCEPT ![n] = FALSE]
    /\ wheel' = [wheel EXCEPT ![n] = {}]
    /\ AnswerAll(n)
    /\ pending' = [pending EXCEPT ![n] = {}]
    /\ requestTimers' = [requestTimers EXCEPT ![n] = {}]
    /\ UNCHANGED <<natsBox, nextRequestID, wire, appBox>>

Step(n) ==
    /\ natsBox[n] # <<>>
    /\ LET m == Head(natsBox[n]) IN
       \/ m.type = "call" /\ (sendCall(n, m.call) \/ catsMsg(n, m.call))
       \/ m.type = "ack" /\ OnAck(n, m.session, m.call)
       \/ m.type = "tick" /\ timeoutRequest(n, m.session)
       \/ Route(n, m)
       \/ MsgHandle(n, m)

-----------------------------------------------------------------------------
(* The timer of a session runs out: its tick joins the mailbox.            *)
TimerFires(n, s) ==
    /\ s \in wheel[n]
    /\ wheel' = [wheel EXCEPT ![n] = @ \ {s}]
    /\ natsBox' = [natsBox EXCEPT ![n] = Append(@, Tick(s))]
    /\ UNCHANGED <<natsUp, pending, requestTimers, nextRequestID, answers, wire, appBox>>

(* The subscription's goroutine hands a frame to its own Nats actor.       *)
subscribe(n) ==
    /\ natsUp[n]
    /\ \E p \in wire :
         /\ p.to = n
         /\ wire' = wire \ {p}
         /\ natsBox' = [natsBox EXCEPT ![n] = Append(@, p.msg)]
    /\ UNCHANGED <<natsUp, pending, requestTimers, wheel, nextRequestID, answers, appBox>>
=============================================================================
