---------------------------- MODULE NatsRpcProofs ----------------------------
(***************************************************************************)
(* Theorems about NatsRpc, for every value of its constants: types, and    *)
(* what a process may rely on when it calls another one.                   *)
(***************************************************************************)
EXTENDS NatsRpc, MailboxLemmas, TLAPS

(***************************************************************************)
(* The inductive invariant.  Once: a call is in the mailbox of its Nats    *)
(* actor, pending or answered, but never two of them.  Sessions: pending   *)
(* requests differ in their sessions and calls, and have their timers.     *)
(* Mail: a message that carries a session stands for the call that the     *)
(* session was made for.                                                   *)
(***************************************************************************)
InCall(c) == InBox(natsBox[c.from], Nats!Call(c))

OnceOf(c) ==
    /\ c \notin asked => ~InCall(c) /\ ~Pending(c) /\ answers[c] = <<>>
    /\ Single(natsBox[c.from], Nats!Call(c))
    /\ InCall(c) => ~Pending(c) /\ answers[c] = <<>>
    /\ Pending(c) => answers[c] = <<>>
    /\ Len(answers[c]) <= 1
    /\ c \in asked => InCall(c) \/ Pending(c) \/ answers[c] # <<>> \/ c.from \in restarted

SessionsOf(n) ==
    /\ \A p \in pending[n] : p.call.from = n /\ p.session <= nextRequestID[n]
    /\ \A p, q \in pending[n] : p.session = q.session \/ p.call = q.call => p = q

TimersOf(n) ==
    /\ \A p \in pending[n] : p.session \in wheel[n] \/ InBox(natsBox[n], Nats!Tick(p.session))
    /\ wheel[n] \subseteq requestTimers[n]
    /\ requestTimers[n] = {p.session : p \in pending[n]}

Own(n, s, c) ==
    \/ n \in restarted
    \/ /\ s <= nextRequestID[n]
       /\ \A p \in pending[n] : p.session = s => p.call = c

MailOK(n, m) ==
    /\ m.type = "call" => m.call.from = n
    /\ m.type \in {"req", "reply"} => Own(m.from, m.session, m.call)
    /\ m.type = "ack" => Own(n, m.session, m.call)

BoxOK(n, b) == \A i \in 1..Len(b) : MailOK(n, b[i])

Once == \A c \in Calls : OnceOf(c)
Sessions == \A n \in Nodes : SessionsOf(n) /\ TimersOf(n)
Mail ==
    /\ \A p \in wire : p.msg.type \notin {"call", "tick"} /\ MailOK(p.to, p.msg)
    /\ \A n \in Nodes : BoxOK(n, natsBox[n]) /\ BoxOK(n, appBox[n])

IInv == TypeOK /\ Once /\ Sessions /\ Mail /\ OwnReply

-----------------------------------------------------------------------------
(* Mailboxes.                                                              *)

LEMMA MsgTypes ==
    /\ \A c \in Calls : c.from \in Nodes /\ c.to \in Nodes /\ c.cast \in BOOLEAN
    /\ \A c \in Calls : Nats!Call(c) \in Nats!Msgs /\ Nats!NatsMsgNtf(c) \in Nats!Msgs
    /\ \A s \in Nat : Nats!Tick(s) \in Nats!Msgs
    /\ \A s \in Nat, c \in Calls : Nats!NatsMsgAck(s, c) \in Nats!Msgs
    /\ \A n \in Nodes, s \in Nat, c \in Calls :
         Nats!NatsMsgReq(n, s, c) \in Nats!Msgs /\ Nats!Reply(n, s, c) \in Nats!Msgs
<1>1. \A c \in Calls : c.from \in Nodes /\ c.to \in Nodes /\ c.cast \in BOOLEAN
  BY RpcAssumption DEF RpcAssumption
<1>2. QED
  BY <1>1 DEF Nats!Call, Nats!NatsMsgNtf, Nats!Tick, Nats!NatsMsgAck,
              Nats!NatsMsgReq, Nats!Reply, Nats!Msgs

LEMMA MsgParts ==
    ASSUME NEW m \in Nats!Msgs
    PROVE  /\ m.type \in {"req", "reply", "ack", "ntf", "call", "tick"}
           /\ m.type = "call" => m.call \in Calls /\ m = Nats!Call(m.call)
           /\ m.type = "ack" => /\ m.session \in Nat /\ m.call \in Calls
                                /\ m = Nats!NatsMsgAck(m.session, m.call)
           /\ m.type = "tick" => m.session \in Nat /\ m = Nats!Tick(m.session)
           /\ m.type \in {"req", "reply"} =>
                m.from \in Nodes /\ m.session \in Nat /\ m.call \in Calls
BY DEF Nats!Msgs, Nats!Call, Nats!NatsMsgAck, Nats!Tick

LEMMA ResponseTypes ==
    /\ \A c \in Calls : Nats!Answer(c) \in Nats!Responses
    /\ \A how \in {"ok", "failed", "timeout", "stopped"} : Nats!Ended(how) \in Nats!Responses
BY DEF Nats!Answer, Nats!Ended, Nats!Responses

(* A Nats actor takes its first message; a message joins a mailbox.        *)
LEMMA Handles ==
    ASSUME TypeOK, NEW n \in Nodes, NEW m, Nats!Handle(n, m)
    PROVE  /\ natsUp[n] /\ m \in Nats!Msgs /\ InBox(natsBox[n], m)
           /\ natsBox' \in [Nodes -> Seq(Nats!Msgs)]
           /\ \A k \in Nodes : \A x : InBox(natsBox'[k], x) => InBox(natsBox[k], x)
           /\ \A k \in Nodes : \A x :
                (k # n \/ x # m) /\ InBox(natsBox[k], x) => InBox(natsBox'[k], x)
           /\ \A k \in Nodes : \A x : Single(natsBox[k], x) => Single(natsBox'[k], x)
           /\ Single(natsBox[n], m) => ~InBox(natsBox'[n], m)
<1>1. natsBox \in [Nodes -> Seq(Nats!Msgs)]
  BY DEF TypeOK, Nats!TypeOK
<1>2. /\ natsUp[n] /\ natsBox[n] # <<>> /\ Head(natsBox[n]) = m
      /\ natsBox' = [natsBox EXCEPT ![n] = Tail(@)]
  BY DEF Nats!Handle
<1> HIDE DEF Nats!Msgs
<1>3. natsBox[n] \in Seq(Nats!Msgs)
  BY <1>1
<1>4. /\ Tail(natsBox[n]) \in Seq(Nats!Msgs)
      /\ m \in Nats!Msgs /\ InBox(natsBox[n], m)
      /\ \A x : InBox(Tail(natsBox[n]), x) => InBox(natsBox[n], x)
      /\ \A x : x # m /\ InBox(natsBox[n], x) => InBox(Tail(natsBox[n]), x)
      /\ \A x : Single(natsBox[n], x) => Single(Tail(natsBox[n]), x)
      /\ Single(natsBox[n], m) => ~InBox(Tail(natsBox[n]), m)
  BY <1>2, <1>3, TailBox
<1>5. \A k \in Nodes : natsBox'[k] = IF k = n THEN Tail(natsBox[n]) ELSE natsBox[k]
  BY <1>1, <1>2
<1>6. natsBox' \in [Nodes -> Seq(Nats!Msgs)]
  BY <1>1, <1>2, <1>4
<1>7. QED
  BY <1>2, <1>4, <1>5, <1>6

LEMMA Sends ==
    ASSUME TypeOK, NEW n \in Nodes, NEW m \in Nats!Msgs,
           natsBox' = [natsBox EXCEPT ![n] = Append(@, m)]
    PROVE  /\ natsBox' \in [Nodes -> Seq(Nats!Msgs)]
           /\ \A k \in Nodes : \A x :
                InBox(natsBox'[k], x) <=> InBox(natsBox[k], x) \/ (k = n /\ x = m)
           /\ \A k \in Nodes : \A x :
                Single(natsBox[k], x) /\ (k = n /\ x = m => ~InBox(natsBox[k], x))
                => Single(natsBox'[k], x)
<1>1. natsBox \in [Nodes -> Seq(Nats!Msgs)]
  BY DEF TypeOK, Nats!TypeOK
<1> HIDE DEF Nats!Msgs
<1>2. natsBox[n] \in Seq(Nats!Msgs)
  BY <1>1
<1>3. /\ Append(natsBox[n], m) \in Seq(Nats!Msgs)
      /\ \A x : InBox(Append(natsBox[n], m), x) <=> InBox(natsBox[n], x) \/ x = m
      /\ \A x : Single(natsBox[n], x) /\ (x = m => ~InBox(natsBox[n], x))
                => Single(Append(natsBox[n], m), x)
  BY <1>2, AppendBox
<1>4. \A k \in Nodes : natsBox'[k] = IF k = n THEN Append(natsBox[n], m) ELSE natsBox[k]
  BY <1>1
<1>5. natsBox' \in [Nodes -> Seq(Nats!Msgs)]
  BY <1>1, <1>3
<1>6. QED
  BY <1>3, <1>4, <1>5

LEMMA Elements ==
    ASSUME NEW S, NEW b \in Seq(S), NEW x, InBox(b, x)
    PROVE  x \in S
BY DEF InBox

-----------------------------------------------------------------------------
(* What keeps the parts of the invariant.                                  *)

LEMMA OnceKeeps ==
    ASSUME NEW c \in Calls, OnceOf(c),
           answers'[c] = answers[c], Pending(c)' <=> Pending(c),
           c \in asked' <=> c \in asked, restarted \subseteq restarted',
           InCall(c)' <=> InCall(c),
           Single(natsBox[c.from], Nats!Call(c))'
    PROVE  OnceOf(c)'
BY DEF OnceOf

(* A session belongs to its call as long as it is not given again.         *)
LEMMA OwnKeeps ==
    ASSUME nextRequestID \in [Nodes -> Nat], nextRequestID' \in [Nodes -> Nat],
           restarted \subseteq restarted',
           \A n \in Nodes : n \notin restarted' =>
             /\ nextRequestID[n] <= nextRequestID'[n]
             /\ \A p \in pending'[n] : p \in pending[n] \/ p.session > nextRequestID[n],
           NEW n \in Nodes, NEW s \in Nat, NEW c, Own(n, s, c)
    PROVE  Own(n, s, c)'
<1>1. CASE n \in restarted'
  BY <1>1 DEF Own
<1>2. CASE n \notin restarted'
  <2>1. /\ s <= nextRequestID[n] /\ nextRequestID[n] \in Nat /\ nextRequestID'[n] \in Nat
        /\ nextRequestID[n] <= nextRequestID'[n]
    BY <1>2 DEF Own
  <2>2. s <= nextRequestID'[n]
    BY <2>1
  <2>3. \A p \in pending'[n] : p.session = s => p \in pending[n]
    BY <1>2, <2>1
  <2>4. QED
    BY <1>2, <2>2, <2>3 DEF Own
<1>3. QED
  BY <1>1, <1>2

SessionsGrow ==
    /\ restarted \subseteq restarted'
    /\ \A n \in Nodes : n \notin restarted' =>
         /\ nextRequestID[n] <= nextRequestID'[n]
         /\ \A p \in pending'[n] : p \in pending[n] \/ p.session > nextRequestID[n]

LEMMA MailOKKeeps ==
    ASSUME TypeOK, TypeOK', SessionsGrow,
           NEW n \in Nodes, NEW m \in Nats!Msgs, MailOK(n, m)
    PROVE  MailOK(n, m)'
<1>1. nextRequestID \in [Nodes -> Nat] /\ nextRequestID' \in [Nodes -> Nat]
  BY DEF TypeOK, Nats!TypeOK
<1>2. \A k \in Nodes, s \in Nat, c \in Calls : Own(k, s, c) => Own(k, s, c)'
  BY <1>1, OwnKeeps DEF SessionsGrow
<1>3. QED
  BY <1>2, MsgParts DEF MailOK

LEMMA MailKeeps ==
    ASSUME TypeOK, TypeOK', Mail, SessionsGrow,
           \A p \in wire' : p \in wire \/ (p.msg.type \notin {"call", "tick"} /\ MailOK(p.to, p.msg)'),
           \A n \in Nodes : \A m :
             InBox(natsBox'[n], m) => InBox(natsBox[n], m) \/ MailOK(n, m)',
           \A n \in Nodes : \A m :
             InBox(appBox'[n], m) => InBox(appBox[n], m) \/ MailOK(n, m)'
    PROVE  Mail'
<1>1. /\ wire \subseteq [to : Nodes, msg : Nats!Msgs]
      /\ natsBox \in [Nodes -> Seq(Nats!Msgs)]
      /\ appBox \in [Nodes -> Seq(Nats!Msgs)]
  BY DEF TypeOK, Nats!TypeOK
<1> HIDE DEF Nats!Msgs
<1>2. \A p \in wire' : p.msg.type \notin {"call", "tick"} /\ MailOK(p.to, p.msg)'
  <2>1. SUFFICES ASSUME NEW p \in wire
                 PROVE  p.msg.type \notin {"call", "tick"} /\ MailOK(p.to, p.msg)'
    OBVIOUS
  <2>2. p.to \in Nodes /\ p.msg \in Nats!Msgs
    BY <1>1
  <2>3. p.msg.type \notin {"call", "tick"} /\ MailOK(p.to, p.msg)
    BY DEF Mail
  <2>4. QED
    BY <2>2, <2>3, MailOKKeeps
<1>3. ASSUME NEW n \in Nodes, NEW m, InBox(natsBox[n], m)
      PROVE  MailOK(n, m)'
  <2>1. m \in Nats!Msgs
    BY <1>1, <1>3, Elements
  <2>2. MailOK(n, m)
    BY <1>3 DEF Mail, BoxOK, InBox
  <2>3. QED
    BY <2>1, <2>2, MailOKKeeps
<1>4. ASSUME NEW n \in Nodes, NEW m, InBox(appBox[n], m)
      PROVE  MailOK(n, m)'
  <2>1. m \in Nats!Msgs
    BY <1>1, <1>4, Elements
  <2>2. MailOK(n, m)
    BY <1>4 DEF Mail, BoxOK, InBox
  <2>3. QED
    BY <2>1, <2>2, MailOKKeeps
<1>5. \A n \in Nodes : BoxOK(n, natsBox[n])' /\ BoxOK(n, appBox[n])'
  BY <1>3, <1>4 DEF BoxOK, InBox
<1>6. QED
  BY <1>2, <1>5 DEF Mail

-----------------------------------------------------------------------------
(* Steps that leave calls, pending requests and answers alone.             *)

CallsStay ==
    \A c \in Calls : /\ InCall(c)' <=> InCall(c)
                     /\ Single(natsBox[c.from], Nats!Call(c))'

TimersStay ==
    \A n \in Nodes :
      /\ wheel'[n] \subseteq wheel[n]
      /\ \A p \in pending[n] :
           p.session \in wheel[n] \/ InBox(natsBox[n], Nats!Tick(p.session)) =>
             p.session \in wheel'[n] \/ InBox(natsBox'[n], Nats!Tick(p.session))

NewMailOK ==
    /\ \A p \in wire' : p \in wire \/ (p.msg.type \notin {"call", "tick"} /\ MailOK(p.to, p.msg)')
    /\ \A n \in Nodes : \A m :
         InBox(natsBox'[n], m) => InBox(natsBox[n], m) \/ MailOK(n, m)'
    /\ \A n \in Nodes : \A m :
         InBox(appBox'[n], m) => InBox(appBox[n], m) \/ MailOK(n, m)'

LEMMA Quiet ==
    ASSUME IInv, TypeOK',
           UNCHANGED <<pending, requestTimers, nextRequestID, answers, asked, restarted>>,
           CallsStay, TimersStay, NewMailOK
    PROVE  IInv'
<1>1. Once'
  <2>1. SUFFICES ASSUME NEW c \in Calls PROVE OnceOf(c)'
    BY DEF Once
  <2>2. OnceOf(c) /\ (Pending(c)' <=> Pending(c))
    BY DEF IInv, Once, Pending
  <2>3. (InCall(c)' <=> InCall(c)) /\ Single(natsBox[c.from], Nats!Call(c))'
    BY DEF CallsStay
  <2>4. QED
    BY <2>2, <2>3, OnceKeeps
<1>2. Sessions'
  <2>1. SUFFICES ASSUME NEW n \in Nodes PROVE SessionsOf(n)' /\ TimersOf(n)'
    BY DEF Sessions
  <2>2. SessionsOf(n) /\ TimersOf(n)
    BY DEF IInv, Sessions
  <2>3. SessionsOf(n)'
    BY <2>2 DEF SessionsOf
  <2>4. TimersOf(n)'
    BY <2>2 DEF TimersOf, TimersStay
  <2>5. QED
    BY <2>3, <2>4
<1>3. Mail'
  <2>1. nextRequestID \in [Nodes -> Nat]
    BY DEF IInv, TypeOK, Nats!TypeOK
  <2>2. SessionsGrow
    BY <2>1 DEF SessionsGrow
  <2>3. QED
    BY <2>2, MailKeeps DEF IInv, NewMailOK
<1>4. OwnReply'
  BY DEF IInv, OwnReply
<1>5. QED
  BY <1>1, <1>2, <1>3, <1>4 DEF IInv

(* A message leaves a Nats actor's mailbox that is not a call.             *)
LEMMA TakesNoCall ==
    ASSUME IInv, NEW n \in Nodes, NEW m, Nats!Handle(n, m), m.type # "call"
    PROVE  CallsStay
<1>1. /\ \A k \in Nodes : \A x : InBox(natsBox'[k], x) => InBox(natsBox[k], x)
      /\ \A k \in Nodes : \A x :
           (k # n \/ x # m) /\ InBox(natsBox[k], x) => InBox(natsBox'[k], x)
      /\ \A k \in Nodes : \A x : Single(natsBox[k], x) => Single(natsBox'[k], x)
  BY Handles DEF IInv
<1>2. SUFFICES ASSUME NEW c \in Calls
               PROVE  (InCall(c)' <=> InCall(c)) /\ Single(natsBox[c.from], Nats!Call(c))'
  BY DEF CallsStay
<1>3. c.from \in Nodes /\ Nats!Call(c) # m
  BY MsgTypes DEF Nats!Call
<1>4. Single(natsBox[c.from], Nats!Call(c))
  BY DEF IInv, Once, OnceOf
<1>5. QED
  BY <1>1, <1>3, <1>4 DEF InCall

(* ... nor a tick for a request that still waits.                          *)
LEMMA TakesOther ==
    ASSUME IInv, NEW n \in Nodes, NEW m, Nats!Handle(n, m), m.type # "call",
           \A p \in pending[n] : m # Nats!Tick(p.session)
    PROVE  /\ CallsStay
           /\ wheel' = wheel => TimersStay
           /\ \A k \in Nodes : \A x : InBox(natsBox'[k], x) => InBox(natsBox[k], x)
<1>1. /\ \A k \in Nodes : \A x : InBox(natsBox'[k], x) => InBox(natsBox[k], x)
      /\ \A k \in Nodes : \A x :
           (k # n \/ x # m) /\ InBox(natsBox[k], x) => InBox(natsBox'[k], x)
  BY Handles DEF IInv
<1>2. wheel' = wheel => TimersStay
  BY <1>1 DEF TimersStay
<1>3. QED
  BY <1>1, <1>2, TakesNoCall

(* A message that is neither a call nor wrong joins one.                   *)
LEMMA PutsOther ==
    ASSUME IInv, NEW n \in Nodes, NEW m \in Nats!Msgs, m.type # "call",
           natsBox' = [natsBox EXCEPT ![n] = Append(@, m)]
    PROVE  /\ CallsStay
           /\ wheel' = wheel => TimersStay
           /\ \A k \in Nodes : \A x :
                InBox(natsBox'[k], x) => InBox(natsBox[k], x) \/ (k = n /\ x = m)
<1>1. /\ \A k \in Nodes : \A x :
           InBox(natsBox'[k], x) <=> InBox(natsBox[k], x) \/ (k = n /\ x = m)
      /\ \A k \in Nodes : \A x :
           Single(natsBox[k], x) /\ (k = n /\ x = m => ~InBox(natsBox[k], x))
           => Single(natsBox'[k], x)
  BY Sends DEF IInv
<1>2. CallsStay
  <2>1. SUFFICES ASSUME NEW c \in Calls
                 PROVE  (InCall(c)' <=> InCall(c)) /\ Single(natsBox[c.from], Nats!Call(c))'
    BY DEF CallsStay
  <2>2. c.from \in Nodes /\ Nats!Call(c) # m
    BY MsgTypes DEF Nats!Call
  <2>3. Single(natsBox[c.from], Nats!Call(c))
    BY DEF IInv, Once, OnceOf
  <2>4. QED
    BY <1>1, <2>2, <2>3 DEF InCall
<1>3. wheel' = wheel => TimersStay
  BY <1>1 DEF TimersStay
<1>4. QED
  BY <1>1, <1>2, <1>3

LEMMA MailSame ==
    ASSUME UNCHANGED <<pending, nextRequestID, restarted>>
    PROVE  \A n, m : MailOK(n, m) <=> MailOK(n, m)'
BY DEF MailOK, Own

(* The mail in a mailbox or on the wire is well-typed and right.           *)
LEMMA MailKnown ==
    ASSUME IInv
    PROVE  /\ \A n \in Nodes : \A m : InBox(natsBox[n], m) => m \in Nats!Msgs /\ MailOK(n, m)
           /\ \A n \in Nodes : \A m : InBox(appBox[n], m) => m \in Nats!Msgs /\ MailOK(n, m)
           /\ \A p \in wire : /\ p.to \in Nodes /\ p.msg \in Nats!Msgs
                              /\ p.msg.type \notin {"call", "tick"} /\ MailOK(p.to, p.msg)
<1>1. /\ wire \subseteq [to : Nodes, msg : Nats!Msgs]
      /\ natsBox \in [Nodes -> Seq(Nats!Msgs)]
      /\ appBox \in [Nodes -> Seq(Nats!Msgs)]
  BY DEF IInv, TypeOK, Nats!TypeOK
<1> HIDE DEF Nats!Msgs
<1>2. \A n \in Nodes : \A m : InBox(natsBox[n], m) => m \in Nats!Msgs
  BY <1>1, Elements
<1>3. \A n \in Nodes : \A m : InBox(appBox[n], m) => m \in Nats!Msgs
  BY <1>1, Elements
<1>4. /\ \A n \in Nodes : \A m : InBox(natsBox[n], m) => MailOK(n, m)
      /\ \A n \in Nodes : \A m : InBox(appBox[n], m) => MailOK(n, m)
  BY DEF IInv, Mail, BoxOK, InBox
<1>5. \A p \in wire : p.to \in Nodes /\ p.msg \in Nats!Msgs
  BY <1>1
<1>6. \A p \in wire : p.msg.type \notin {"call", "tick"} /\ MailOK(p.to, p.msg)
  BY DEF IInv, Mail
<1>7. QED
  BY <1>2, <1>3, <1>4, <1>5, <1>6

LEMMA RouteStep ==
    ASSUME IInv, NEW n \in Nodes, NEW m, Nats!Route(n, m), UNCHANGED appOnly
    PROVE  IInv'
<1>1. /\ m.type \in {"req", "ntf"} /\ Nats!Handle(n, m) /\ Nats!HasRoom(n)
      /\ appBox' = [appBox EXCEPT ![n] = Append(@, m)]
      /\ UNCHANGED <<natsUp, pending, requestTimers, wheel, nextRequestID, answers, wire>>
      /\ UNCHANGED <<asked, waiting, restarted>>
  BY DEF Nats!Route, appOnly
<1>2. natsBox' \in [Nodes -> Seq(Nats!Msgs)] /\ m \in Nats!Msgs /\ InBox(natsBox[n], m)
  BY <1>1, Handles DEF IInv
<1>3. appBox \in [Nodes -> Seq(Nats!Msgs)] /\ \A k \in Nodes : Len(appBox[k]) <= BoxSize
  BY DEF IInv, TypeOK, Nats!TypeOK
<1>4. /\ Append(appBox[n], m) \in Seq(Nats!Msgs)
      /\ Len(Append(appBox[n], m)) = Len(appBox[n]) + 1
      /\ \A x : InBox(Append(appBox[n], m), x) => InBox(appBox[n], x) \/ x = m
  BY <1>2, <1>3, AppendBox
<1>5. \A k \in Nodes : appBox'[k] = IF k = n THEN Append(appBox[n], m) ELSE appBox[k]
  BY <1>1, <1>3
<1>6. TypeOK'
  <2>1. appBox' \in [Nodes -> Seq(Nats!Msgs)]
    BY <1>1, <1>3, <1>4
  <2>2. \A k \in Nodes : Len(appBox'[k]) <= BoxSize
    <3>1. Len(Append(appBox[n], m)) <= BoxSize
      <4>1. BoxSize \in Nat /\ Len(appBox[n]) < BoxSize
        BY <1>1, RpcAssumption DEF RpcAssumption, Nats!HasRoom
      <4>2. appBox[n] \in Seq(Nats!Msgs)
        BY <1>3
      <4>3. Len(appBox[n]) \in Nat
        BY <4>2
      <4>4. QED
        BY <1>4, <4>1, <4>3
    <3>2. QED
      BY <1>3, <1>5, <3>1
  <2>3. QED
    BY <1>1, <1>2, <2>1, <2>2 DEF IInv, TypeOK, Nats!TypeOK
<1>7. /\ CallsStay /\ TimersStay
      /\ \A k \in Nodes : \A x : InBox(natsBox'[k], x) => InBox(natsBox[k], x)
  <2>1. \A p \in pending[n] : m # Nats!Tick(p.session)
    BY <1>1 DEF Nats!Tick
  <2>2. m.type # "call"
    BY <1>1
  <2>3. QED
    BY <1>1, <2>1, <2>2, TakesOther
<1>8. NewMailOK
  <2>1. MailOK(n, m)'
    BY <1>1, <1>2, MailKnown, MailSame
  <2>2. QED
    BY <1>1, <1>4, <1>5, <1>7, <2>1 DEF NewMailOK
<1>9. QED
  BY <1>1, <1>6, <1>7, <1>8, Quiet

LEMMA UnroutableStep ==
    ASSUME IInv, NEW n \in Nodes, NEW m, Nats!Unroutable(n, m), UNCHANGED appOnly
    PROVE  IInv'
<1>1. /\ m.type \in {"req", "ntf"} /\ Nats!Handle(n, m)
      /\ UNCHANGED <<natsUp, pending, requestTimers, wheel, nextRequestID, answers, wire, appBox>>
      /\ UNCHANGED <<asked, waiting, restarted>>
  BY DEF Nats!Unroutable, appOnly
<1>2. natsBox' \in [Nodes -> Seq(Nats!Msgs)]
  BY <1>1, Handles DEF IInv
<1>3. TypeOK'
  BY <1>1, <1>2 DEF IInv, TypeOK, Nats!TypeOK
<1>4. /\ CallsStay /\ TimersStay
      /\ \A k \in Nodes : \A x : InBox(natsBox'[k], x) => InBox(natsBox[k], x)
  <2>1. m.type # "call" /\ \A p \in pending[n] : m # Nats!Tick(p.session)
    BY <1>1 DEF Nats!Tick
  <2>2. QED
    BY <1>1, <2>1, TakesOther
<1>5. NewMailOK
  BY <1>1, <1>4 DEF NewMailOK
<1>6. QED
  BY <1>1, <1>3, <1>4, <1>5, Quiet

LEMMA MsgHandleStep ==
    ASSUME IInv, NEW n \in Nodes, NEW m, Nats!MsgHandle(n, m), UNCHANGED appOnly
    PROVE  IInv'
<1> DEFINE ack == [to |-> m.from, msg |-> Nats!NatsMsgAck(m.session, m.call)]
<1>1. /\ m.type = "reply" /\ Nats!Handle(n, m)
      /\ wire' = wire \cup {ack} \/ wire' = wire
      /\ UNCHANGED <<natsUp, pending, requestTimers, wheel, nextRequestID, answers, appBox>>
      /\ UNCHANGED <<asked, waiting, restarted>>
  BY DEF Nats!MsgHandle, Nats!Publish, appOnly
<1>2. natsBox' \in [Nodes -> Seq(Nats!Msgs)] /\ m \in Nats!Msgs /\ InBox(natsBox[n], m)
  BY <1>1, Handles DEF IInv
<1>3. /\ m.from \in Nodes /\ m.session \in Nat /\ m.call \in Calls
      /\ Own(m.from, m.session, m.call)
  BY <1>1, <1>2, MsgParts, MailKnown DEF MailOK
<1>4. TypeOK'
  <2>1. ack \in [to : Nodes, msg : Nats!Msgs]
    BY <1>3, MsgTypes
  <2>2. QED
    BY <1>1, <1>2, <2>1 DEF IInv, TypeOK, Nats!TypeOK
<1>5. /\ CallsStay /\ TimersStay
      /\ \A k \in Nodes : \A x : InBox(natsBox'[k], x) => InBox(natsBox[k], x)
  <2>1. m.type # "call" /\ \A p \in pending[n] : m # Nats!Tick(p.session)
    BY <1>1 DEF Nats!Tick
  <2>2. QED
    BY <1>1, <2>1, TakesOther
<1>6. NewMailOK
  <2>1. ack.msg.type = "ack" /\ MailOK(ack.to, ack.msg)
    <3>1. ack.to = m.from /\ ack.msg = Nats!NatsMsgAck(m.session, m.call)
      OBVIOUS
    <3>2. /\ ack.msg.type = "ack"
          /\ ack.msg.session = m.session /\ ack.msg.call = m.call
      BY <3>1 DEF Nats!NatsMsgAck
    <3> HIDE DEF ack
    <3>3. QED
      BY <1>3, <3>1, <3>2 DEF MailOK
  <2>2. MailOK(ack.to, ack.msg)'
    BY <1>1, <2>1, MailSame
  <2>3. QED
    BY <1>1, <1>5, <2>1, <2>2 DEF NewMailOK
<1>7. QED
  BY <1>1, <1>4, <1>5, <1>6, Quiet

(* An answer or a tick for a session that waits for nothing.               *)
LEMMA UnknownStep ==
    ASSUME IInv, NEW n \in Nodes, NEW m, NEW s, Nats!Handle(n, m), Nats!Unknown(n, s),
           m.type = "ack" \/ m = Nats!Tick(s),
           UNCHANGED <<natsUp, nextRequestID, wire, appBox, appOnly>>
    PROVE  IInv'
<1>1. /\ UNCHANGED <<pending, requestTimers, wheel, answers, natsUp, nextRequestID, wire, appBox>>
      /\ UNCHANGED <<asked, waiting, restarted>>
      /\ \A p \in pending[n] : p.session # s
  BY DEF Nats!Unknown, Nats!PendingOf, appOnly
<1>2. natsBox' \in [Nodes -> Seq(Nats!Msgs)]
  BY Handles DEF IInv
<1>3. TypeOK'
  BY <1>1, <1>2 DEF IInv, TypeOK, Nats!TypeOK
<1>4. /\ CallsStay /\ TimersStay
      /\ \A k \in Nodes : \A x : InBox(natsBox'[k], x) => InBox(natsBox[k], x)
  <2>1. m.type # "call" /\ \A p \in pending[n] : m # Nats!Tick(p.session)
    BY <1>1 DEF Nats!Tick
  <2>2. QED
    BY <1>1, <2>1, TakesOther
<1>5. NewMailOK
  BY <1>1, <1>4 DEF NewMailOK
<1>6. QED
  BY <1>1, <1>3, <1>4, <1>5, Quiet

LEMMA TimerStep ==
    ASSUME IInv, NEW n \in Nodes, NEW s \in wheel[n], Nats!TimerFires(n, s), UNCHANGED appOnly
    PROVE  IInv'
<1>1. /\ wheel' = [wheel EXCEPT ![n] = @ \ {s}]
      /\ natsBox' = [natsBox EXCEPT ![n] = Append(@, Nats!Tick(s))]
      /\ UNCHANGED <<natsUp, pending, requestTimers, nextRequestID, answers, wire, appBox>>
      /\ UNCHANGED <<asked, waiting, restarted>>
  BY DEF Nats!TimerFires, appOnly
<1>2. wheel \in [Nodes -> SUBSET Nat]
  BY DEF IInv, TypeOK, Nats!TypeOK
<1>3. Nats!Tick(s) \in Nats!Msgs /\ Nats!Tick(s).type = "tick"
  BY <1>2, MsgTypes DEF Nats!Tick
<1>4. /\ natsBox' \in [Nodes -> Seq(Nats!Msgs)]
      /\ \A k \in Nodes : \A x :
           InBox(natsBox'[k], x) <=> InBox(natsBox[k], x) \/ (k = n /\ x = Nats!Tick(s))
  BY <1>1, <1>3, Sends DEF IInv
<1>5. TypeOK'
  <2>1. wheel' \in [Nodes -> SUBSET Nat]
    BY <1>1, <1>2
  <2>2. QED
    BY <1>1, <1>4, <2>1 DEF IInv, TypeOK, Nats!TypeOK
<1>6. CallsStay
  BY <1>1, <1>3, PutsOther
<1>7. TimersStay
  <2>1. \A k \in Nodes : wheel'[k] = IF k = n THEN wheel[k] \ {s} ELSE wheel[k]
    BY <1>1, <1>2
  <2>2. QED
    BY <1>4, <2>1 DEF TimersStay
<1>8. NewMailOK
  <2>1. MailOK(n, Nats!Tick(s))'
    BY <1>3 DEF MailOK
  <2>2. QED
    BY <1>1, <1>4, <2>1 DEF NewMailOK
<1>9. QED
  BY <1>1, <1>5, <1>6, <1>7, <1>8, Quiet

LEMMA ReceiveStep ==
    ASSUME IInv, NEW n \in Nodes, Nats!subscribe(n), UNCHANGED appOnly
    PROVE  IInv'
<1>1. PICK p \in wire :
        /\ p.to = n
        /\ wire' = wire \ {p}
        /\ natsBox' = [natsBox EXCEPT ![n] = Append(@, p.msg)]
        /\ UNCHANGED <<natsUp, pending, requestTimers, wheel, nextRequestID, answers, appBox>>
        /\ UNCHANGED <<asked, waiting, restarted>>
  BY DEF Nats!subscribe, appOnly
<1>2. /\ p.msg \in Nats!Msgs /\ p.msg.type \notin {"call", "tick"} /\ MailOK(n, p.msg)
  BY <1>1, MailKnown
<1>3. natsBox' \in [Nodes -> Seq(Nats!Msgs)]
  BY <1>1, <1>2, Sends DEF IInv
<1>4. TypeOK'
  BY <1>1, <1>3 DEF IInv, TypeOK, Nats!TypeOK
<1>5. /\ CallsStay /\ TimersStay
      /\ \A k \in Nodes : \A x :
           InBox(natsBox'[k], x) => InBox(natsBox[k], x) \/ (k = n /\ x = p.msg)
  BY <1>1, <1>2, PutsOther
<1>6. MailOK(n, p.msg)'
  BY <1>1, <1>2, MailSame
<1>7. NewMailOK
  BY <1>1, <1>5, <1>6 DEF NewMailOK
<1>8. QED
  BY <1>1, <1>4, <1>5, <1>7, Quiet

LEMMA AppStep ==
    ASSUME IInv, NEW n \in Nodes, AppHandles(n)
    PROVE  IInv'
<1>0. PICK m : m = Head(appBox[n])
  OBVIOUS
<1> DEFINE reply == Nats!Reply(m.from, m.session, m.call)
<1>1. /\ appBox[n] # <<>>
      /\ appBox' = [appBox EXCEPT ![n] = Tail(@)]
      /\ \/ m.type = "req" /\ natsBox' = [natsBox EXCEPT ![n] = Append(@, reply)]
         \/ natsBox' = natsBox
      /\ UNCHANGED <<natsUp, pending, requestTimers, wheel, nextRequestID, answers, wire>>
      /\ UNCHANGED <<asked, waiting, restarted>>
  BY <1>0 DEF AppHandles, natsOnly, appOnly
<1>2. appBox \in [Nodes -> Seq(Nats!Msgs)] /\ \A k \in Nodes : Len(appBox[k]) <= BoxSize
  BY DEF IInv, TypeOK, Nats!TypeOK
<1>3. /\ Tail(appBox[n]) \in Seq(Nats!Msgs)
      /\ InBox(appBox[n], m)
      /\ \A x : InBox(Tail(appBox[n]), x) => InBox(appBox[n], x)
  BY <1>0, <1>1, <1>2, TailBox
<1>4. \A k \in Nodes : appBox'[k] = IF k = n THEN Tail(appBox[n]) ELSE appBox[k]
  BY <1>1, <1>2
<1>5. m \in Nats!Msgs /\ MailOK(n, m)
  BY <1>3, MailKnown
<1>6. m.type = "req" =>
        /\ reply \in Nats!Msgs /\ reply.type = "reply"
        /\ MailOK(n, reply)
  <2>1. SUFFICES ASSUME m.type = "req"
                 PROVE  reply \in Nats!Msgs /\ reply.type = "reply" /\ MailOK(n, reply)
    OBVIOUS
  <2>2. /\ m.from \in Nodes /\ m.session \in Nat /\ m.call \in Calls
        /\ Own(m.from, m.session, m.call)
    BY <1>5, <2>1, MsgParts DEF MailOK
  <2>3. /\ reply.type = "reply" /\ reply.from = m.from
        /\ reply.session = m.session /\ reply.call = m.call
    BY DEF Nats!Reply
  <2>4. reply \in Nats!Msgs
    BY <2>2, MsgTypes
  <2> HIDE DEF reply
  <2>5. QED
    BY <2>2, <2>3, <2>4 DEF MailOK
<1> HIDE DEF reply
<1>7. /\ natsBox' \in [Nodes -> Seq(Nats!Msgs)]
      /\ CallsStay /\ TimersStay
      /\ \A k \in Nodes : \A x :
           InBox(natsBox'[k], x) => InBox(natsBox[k], x) \/ (k = n /\ x = reply /\ m.type = "req")
  <2>1. CASE natsBox' = natsBox
    <3>1. natsBox' \in [Nodes -> Seq(Nats!Msgs)]
      BY <2>1 DEF IInv, TypeOK, Nats!TypeOK
    <3>2. CallsStay
      BY <2>1 DEF CallsStay, InCall, IInv, Once, OnceOf
    <3>3. TimersStay
      BY <1>1, <2>1 DEF TimersStay
    <3>4. QED
      BY <2>1, <3>1, <3>2, <3>3
  <2>2. CASE m.type = "req" /\ natsBox' = [natsBox EXCEPT ![n] = Append(@, reply)]
    <3>1. natsBox' \in [Nodes -> Seq(Nats!Msgs)]
      BY <1>6, <2>2, Sends DEF IInv
    <3>2. reply.type # "call"
      BY <1>6, <2>2
    <3>3. QED
      BY <1>1, <1>6, <2>2, <3>1, <3>2, PutsOther
  <2>3. QED
    BY <1>1, <2>1, <2>2
<1>8. TypeOK'
  <2>1. appBox' \in [Nodes -> Seq(Nats!Msgs)]
    BY <1>1, <1>2, <1>3
  <2>2. \A k \in Nodes : Len(appBox'[k]) <= BoxSize
    <3>1. Len(Tail(appBox[n])) <= BoxSize
      <4>1. appBox[n] \in Seq(Nats!Msgs) /\ Len(appBox[n]) <= BoxSize
        BY <1>2
      <4>2. Len(appBox[n]) \in Nat /\ Len(Tail(appBox[n])) = Len(appBox[n]) - 1
        BY <1>1, <4>1
      <4>3. BoxSize \in Nat
        BY RpcAssumption DEF RpcAssumption
      <4>4. QED
        BY <4>1, <4>2, <4>3
    <3>2. QED
      BY <1>2, <1>4, <3>1
  <2>3. QED
    BY <1>1, <1>7, <2>1, <2>2 DEF IInv, TypeOK, Nats!TypeOK
<1>9. NewMailOK
  <2>1. m.type = "req" => MailOK(n, reply)'
    BY <1>1, <1>6, MailSame
  <2>2. \A k \in Nodes : \A x : InBox(appBox'[k], x) => InBox(appBox[k], x)
    BY <1>3, <1>4
  <2>3. QED
    BY <1>1, <1>7, <2>1, <2>2 DEF NewMailOK
<1>10. QED
  BY <1>1, <1>7, <1>8, <1>9, Quiet

LEMMA StillStep ==
    ASSUME IInv, wire' \subseteq wire, waiting' \in [Nodes -> Calls \cup {NoCall}],
           UNCHANGED <<natsOnly, natsBox, answers, appBox, asked, restarted>>
    PROVE  IInv'
<1>1. UNCHANGED <<natsUp, natsBox, pending, requestTimers, wheel, nextRequestID, answers,
                  appBox, asked, restarted>>
  BY DEF natsOnly
<1>2. TypeOK'
  BY <1>1 DEF IInv, TypeOK, Nats!TypeOK
<1>3. CallsStay
  BY <1>1 DEF CallsStay, InCall, IInv, Once, OnceOf
<1>4. TimersStay
  BY <1>1 DEF TimersStay
<1>5. NewMailOK
  BY <1>1 DEF NewMailOK
<1>6. QED
  BY <1>1, <1>2, <1>3, <1>4, <1>5, Quiet

-----------------------------------------------------------------------------
(* Steps that answer a call or make it pending.                            *)

(* The answer to a pending request, by an acknowledgement or a tick.       *)
LEMMA FinishStep ==
    ASSUME IInv, NEW n \in Nodes, NEW m, NEW p \in pending[n], NEW r \in Nats!Responses,
           Nats!Handle(n, m), m.type = "ack" \/ m = Nats!Tick(p.session),
           Nats!finishPending(n, p.session, p, r),
           r.type = "answer" => n \in restarted \/ r.call = p.call,
           UNCHANGED <<natsUp, nextRequestID, wire, appBox, appOnly>>
    PROVE  IInv'
<1> DEFINE d == p.call
           s == p.session
<1>1. /\ pending' = [pending EXCEPT ![n] = @ \ {p}]
      /\ requestTimers' = [requestTimers EXCEPT ![n] = @ \ {s}]
      /\ wheel' = [wheel EXCEPT ![n] = @ \ {s}]
      /\ answers' = [answers EXCEPT ![d] = Append(@, r)]
      /\ UNCHANGED <<natsUp, nextRequestID, wire, appBox>>
      /\ UNCHANGED <<asked, waiting, restarted>>
  BY DEF Nats!finishPending, Nats!Respond, appOnly
<1>2. /\ pending \in [Nodes -> SUBSET [session : Nat, call : Calls]]
      /\ requestTimers \in [Nodes -> SUBSET Nat] /\ wheel \in [Nodes -> SUBSET Nat]
      /\ answers \in [Calls -> Seq(Nats!Responses)]
      /\ nextRequestID \in [Nodes -> Nat]
  BY DEF IInv, TypeOK, Nats!TypeOK
<1>3. /\ natsBox' \in [Nodes -> Seq(Nats!Msgs)]
      /\ \A k \in Nodes : \A x : InBox(natsBox'[k], x) => InBox(natsBox[k], x)
      /\ \A k \in Nodes : \A x :
           (k # n \/ x # m) /\ InBox(natsBox[k], x) => InBox(natsBox'[k], x)
  BY Handles DEF IInv
<1>4. CallsStay
  <2>1. m.type # "call"
    BY DEF Nats!Tick
  <2>2. QED
    BY <2>1, TakesNoCall
<1>5. d \in Calls /\ s \in Nat
  BY <1>2
<1>6. /\ \A k \in Nodes : pending'[k] = IF k = n THEN pending[n] \ {p} ELSE pending[k]
      /\ \A k \in Nodes : requestTimers'[k] =
           IF k = n THEN requestTimers[n] \ {s} ELSE requestTimers[k]
      /\ \A k \in Nodes : wheel'[k] = IF k = n THEN wheel[n] \ {s} ELSE wheel[k]
      /\ \A c \in Calls : answers'[c] = IF c = d THEN Append(answers[d], r) ELSE answers[c]
  BY <1>1, <1>2
<1>7. /\ \A q \in pending[n] : q.session = s \/ q.call = d => q = p
      /\ d.from = n
  BY DEF IInv, Sessions, SessionsOf
<1>8. /\ answers[d] = <<>> /\ ~InCall(d) /\ d \in asked
  <2>1. OnceOf(d) /\ Pending(d)
    BY <1>5, <1>7 DEF IInv, Once, Pending
  <2>2. QED
    BY <2>1 DEF OnceOf
<1>9. answers'[d] = <<r>>
  BY <1>5, <1>6, <1>8
<1>10. TypeOK'
  <2>1. pending' \in [Nodes -> SUBSET [session : Nat, call : Calls]]
    BY <1>1, <1>2
  <2>2. requestTimers' \in [Nodes -> SUBSET Nat] /\ wheel' \in [Nodes -> SUBSET Nat]
    BY <1>1, <1>2
  <2>3. answers' \in [Calls -> Seq(Nats!Responses)]
    <3>1. Append(answers[d], r) \in Seq(Nats!Responses)
      BY <1>2, <1>5
    <3>2. QED
      BY <1>1, <1>2, <3>1
  <2>4. QED
    BY <1>1, <1>3, <2>1, <2>2, <2>3 DEF IInv, TypeOK, Nats!TypeOK
<1>11. Once'
  <2>1. SUFFICES ASSUME NEW c \in Calls PROVE OnceOf(c)'
    BY DEF Once
  <2>2. /\ c.from \in Nodes /\ OnceOf(c)
        /\ (InCall(c)' <=> InCall(c)) /\ Single(natsBox[c.from], Nats!Call(c))'
    BY <1>4, MsgTypes DEF CallsStay, IInv, Once
  <2>3. CASE c = d
    <3>1. ~Pending(c)'
      BY <1>6, <1>7, <2>3 DEF Pending
    <3>2. answers'[c] # <<>> /\ Len(answers'[c]) = 1
      <4>1. <<r>> # <<>> /\ Len(<<r>>) = 1
        OBVIOUS
      <4>2. QED
        BY <1>9, <2>3, <4>1
    <3>3. ~InCall(c)' /\ c \in asked'
      BY <1>1, <1>8, <2>2, <2>3
    <3>4. QED
      BY <2>2, <3>1, <3>2, <3>3 DEF OnceOf
  <2>4. CASE c # d
    <3>1. answers'[c] = answers[c]
      BY <1>6, <2>4
    <3>2. Pending(c)' <=> Pending(c)
      BY <1>6, <2>2, <2>4 DEF Pending
    <3>3. QED
      BY <1>1, <2>2, <3>1, <3>2, OnceKeeps
  <2>5. QED
    BY <2>3, <2>4
<1>12. Sessions'
  <2>1. SUFFICES ASSUME NEW k \in Nodes PROVE SessionsOf(k)' /\ TimersOf(k)'
    BY DEF Sessions
  <2>2. SessionsOf(k) /\ TimersOf(k)
    BY DEF IInv, Sessions
  <2>3. SessionsOf(k)'
    BY <1>1, <1>6, <2>2 DEF SessionsOf
  <2>4. CASE k # n
    <3>1. \A q \in pending[k] :
            InBox(natsBox[k], Nats!Tick(q.session)) => InBox(natsBox'[k], Nats!Tick(q.session))
      BY <1>3, <2>4
    <3>2. QED
      BY <1>6, <2>2, <2>3, <2>4, <3>1 DEF TimersOf
  <2>5. CASE k = n
    <3>1. \A q \in pending'[n] : q \in pending[n] /\ q.session # s
      BY <1>6, <1>7
    <3>2. \A q \in pending'[n] :
            InBox(natsBox[n], Nats!Tick(q.session)) => InBox(natsBox'[n], Nats!Tick(q.session))
      BY <1>3, <3>1 DEF Nats!Tick
    <3>3. \A q \in pending'[n] : q.session \in wheel'[n] \/ InBox(natsBox'[n], Nats!Tick(q.session))
      BY <1>6, <2>2, <2>5, <3>1, <3>2 DEF TimersOf
    <3>4. wheel'[n] \subseteq requestTimers'[n]
      BY <1>6, <2>2, <2>5 DEF TimersOf
    <3>5. requestTimers'[n] = {q.session : q \in pending'[n]}
      <4>1. requestTimers[n] = {q.session : q \in pending[n]}
        BY <2>2, <2>5 DEF TimersOf
      <4>2. {q.session : q \in pending'[n]} = {q.session : q \in pending[n]} \ {s}
        BY <1>6, <3>1
      <4>3. QED
        BY <1>6, <4>1, <4>2
    <3>6. QED
      BY <2>3, <2>5, <3>3, <3>4, <3>5 DEF TimersOf
  <2>6. QED
    BY <2>3, <2>4, <2>5
<1>13. Mail'
  <2>1. SessionsGrow
    BY <1>1, <1>2, <1>6 DEF SessionsGrow
  <2>2. QED
    BY <1>1, <1>3, <1>10, <2>1, MailKeeps DEF IInv
<1>14. OwnReply'
  <2>1. SUFFICES ASSUME NEW c \in Calls, c.from \notin restarted, NEW i \in 1..Len(answers'[c]),
                        answers'[c][i].type = "answer"
                 PROVE  answers'[c][i].call = c
    BY <1>1 DEF OwnReply
  <2>2. CASE c = d
    <3>1. answers'[c][i] = r
      BY <1>9, <2>1, <2>2
    <3>2. QED
      BY <1>7, <2>1, <2>2, <3>1
  <2>3. CASE c # d
    BY <1>6, <2>1, <2>3 DEF IInv, OwnReply
  <2>4. QED
    BY <2>2, <2>3
<1>15. QED
  BY <1>10, <1>11, <1>12, <1>13, <1>14 DEF IInv

(* A Nats actor takes a call: what was known of it, and what of the rest.  *)
LEMMA TakesCall ==
    ASSUME IInv, NEW n \in Nodes, NEW c, Nats!Handle(n, Nats!Call(c))
    PROVE  /\ c \in Calls /\ c.from = n
           /\ c \in asked /\ ~Pending(c) /\ answers[c] = <<>> /\ ~InCall(c)'
           /\ \A d \in Calls : Single(natsBox[d.from], Nats!Call(d))'
           /\ \A d \in Calls : d # c => (InCall(d)' <=> InCall(d))
           /\ natsBox' \in [Nodes -> Seq(Nats!Msgs)]
           /\ \A k \in Nodes : \A x : InBox(natsBox'[k], x) => InBox(natsBox[k], x)
           /\ \A k \in Nodes, s \in Nat :
                InBox(natsBox[k], Nats!Tick(s)) => InBox(natsBox'[k], Nats!Tick(s))
<1> DEFINE m == Nats!Call(c)
<1>1. /\ m \in Nats!Msgs /\ InBox(natsBox[n], m)
      /\ natsBox' \in [Nodes -> Seq(Nats!Msgs)]
      /\ \A k \in Nodes : \A x : InBox(natsBox'[k], x) => InBox(natsBox[k], x)
      /\ \A k \in Nodes : \A x :
           (k # n \/ x # m) /\ InBox(natsBox[k], x) => InBox(natsBox'[k], x)
      /\ \A k \in Nodes : \A x : Single(natsBox[k], x) => Single(natsBox'[k], x)
      /\ Single(natsBox[n], m) => ~InBox(natsBox'[n], m)
  BY Handles DEF IInv
<1>2. m.type = "call" /\ m.call = c /\ \A s : m # Nats!Tick(s)
  BY DEF Nats!Call, Nats!Tick
<1>3. MailOK(n, m)
  BY <1>1, MailKnown
<1>4. c \in Calls /\ c.from = n
  BY <1>1, <1>2, <1>3, MsgParts DEF MailOK
<1>5. \A d \in Calls : d # c => Nats!Call(d) # m
  BY DEF Nats!Call
<1>6. \A d \in Calls : d.from \in Nodes /\ OnceOf(d)
  BY MsgTypes DEF IInv, Once
<1> HIDE DEF m
<1>7. InCall(c)
  BY <1>1, <1>4 DEF InCall, m
<1>8. Single(natsBox[n], m) /\ c \in asked /\ ~Pending(c) /\ answers[c] = <<>>
  BY <1>4, <1>6, <1>7 DEF OnceOf, m
<1>9. ~InCall(c)'
  BY <1>1, <1>4, <1>8 DEF InCall, m
<1>10. \A d \in Calls : Single(natsBox[d.from], Nats!Call(d))'
  BY <1>1, <1>6 DEF OnceOf
<1>11. \A d \in Calls : d # c => (InCall(d)' <=> InCall(d))
  BY <1>1, <1>5, <1>6 DEF InCall
<1>12. \A k \in Nodes, s \in Nat :
         InBox(natsBox[k], Nats!Tick(s)) => InBox(natsBox'[k], Nats!Tick(s))
  BY <1>1, <1>2
<1>13. QED
  BY <1>1, <1>4, <1>8, <1>9, <1>10, <1>11, <1>12

(* The call fails, or is a cast that is published: answered at once.       *)
LEMMA RespondStep ==
    ASSUME IInv, NEW n \in Nodes, NEW c, NEW r \in Nats!Responses,
           Nats!Handle(n, Nats!Call(c)), Nats!Respond(c, r), r.type # "answer",
           nextRequestID' = [nextRequestID EXCEPT ![n] = @ + 1] \/ nextRequestID' = nextRequestID,
           \/ wire' = wire
           \/ wire' = wire \cup {[to |-> c.to, msg |-> Nats!NatsMsgNtf(c)]},
           UNCHANGED <<natsUp, pending, requestTimers, wheel, appBox, appOnly>>
    PROVE  IInv'
<1>1. /\ c \in Calls /\ c.from = n
      /\ c \in asked /\ ~Pending(c) /\ answers[c] = <<>> /\ ~InCall(c)'
      /\ \A d \in Calls : Single(natsBox[d.from], Nats!Call(d))'
      /\ \A d \in Calls : d # c => (InCall(d)' <=> InCall(d))
      /\ natsBox' \in [Nodes -> Seq(Nats!Msgs)]
      /\ \A k \in Nodes : \A x : InBox(natsBox'[k], x) => InBox(natsBox[k], x)
      /\ \A k \in Nodes, s \in Nat :
           InBox(natsBox[k], Nats!Tick(s)) => InBox(natsBox'[k], Nats!Tick(s))
  BY TakesCall
<1>2. UNCHANGED <<natsUp, pending, requestTimers, wheel, appBox, asked, waiting, restarted>>
  BY DEF appOnly
<1>3. /\ answers \in [Calls -> Seq(Nats!Responses)]
      /\ nextRequestID \in [Nodes -> Nat]
      /\ pending \in [Nodes -> SUBSET [session : Nat, call : Calls]]
  BY DEF IInv, TypeOK, Nats!TypeOK
<1>4. \A d \in Calls : answers'[d] = IF d = c THEN Append(answers[c], r) ELSE answers[d]
  BY <1>1, <1>3 DEF Nats!Respond
<1>5. answers'[c] = <<r>> /\ <<r>> # <<>> /\ Len(<<r>>) = 1
  BY <1>1, <1>4
<1>6. nextRequestID' \in [Nodes -> Nat] /\ \A k \in Nodes : nextRequestID[k] <= nextRequestID'[k]
  <2>1. CASE nextRequestID' = nextRequestID
    BY <1>3, <2>1
  <2>2. CASE nextRequestID' = [nextRequestID EXCEPT ![n] = @ + 1]
    <3>1. nextRequestID[n] \in Nat /\ nextRequestID[n] + 1 \in Nat
      BY <1>3
    <3>2. \A k \in Nodes : nextRequestID'[k] =
            IF k = n THEN nextRequestID[n] + 1 ELSE nextRequestID[k]
      BY <1>3, <2>2
    <3>3. \A k \in Nodes : nextRequestID[k] \in Nat
      BY <1>3
    <3>4. QED
      BY <1>3, <2>2, <3>1, <3>2, <3>3
  <2>3. QED
    BY <2>1, <2>2
<1>7. Nats!NatsMsgNtf(c) \in Nats!Msgs /\ Nats!NatsMsgNtf(c).type = "ntf" /\ c.to \in Nodes
  BY <1>1, MsgTypes DEF Nats!NatsMsgNtf
<1>8. TypeOK'
  <2>1. answers' \in [Calls -> Seq(Nats!Responses)]
    <3>1. Append(answers[c], r) \in Seq(Nats!Responses)
      BY <1>1, <1>3
    <3>2. QED
      BY <1>3, <3>1 DEF Nats!Respond
  <2>2. wire' \subseteq [to : Nodes, msg : Nats!Msgs]
    BY <1>7 DEF IInv, TypeOK, Nats!TypeOK
  <2>3. QED
    BY <1>1, <1>2, <1>6, <2>1, <2>2 DEF IInv, TypeOK, Nats!TypeOK
<1>9. Once'
  <2>1. SUFFICES ASSUME NEW d \in Calls PROVE OnceOf(d)'
    BY DEF Once
  <2>2. Pending(d)' <=> Pending(d)
    BY <1>2 DEF Pending
  <2>3. CASE d = c
    <3>1. ~InCall(d)' /\ d \in asked' /\ ~Pending(d)'
      BY <1>1, <1>2, <2>2, <2>3
    <3>2. answers'[d] # <<>> /\ Len(answers'[d]) = 1
      BY <1>5, <2>3
    <3>3. Single(natsBox[d.from], Nats!Call(d))'
      BY <1>1
    <3>4. QED
      BY <3>1, <3>2, <3>3 DEF OnceOf
  <2>4. CASE d # c
    <3>1. OnceOf(d) /\ answers'[d] = answers[d]
      BY <1>4, <2>4 DEF IInv, Once
    <3>2. QED
      BY <1>1, <1>2, <2>2, <2>4, <3>1, OnceKeeps
  <2>5. QED
    BY <2>3, <2>4
<1>10. Sessions'
  <2>1. SUFFICES ASSUME NEW k \in Nodes PROVE SessionsOf(k)' /\ TimersOf(k)'
    BY DEF Sessions
  <2>2. SessionsOf(k) /\ TimersOf(k)
    BY DEF IInv, Sessions
  <2>3. /\ nextRequestID[k] \in Nat /\ nextRequestID'[k] \in Nat
        /\ nextRequestID[k] <= nextRequestID'[k]
        /\ \A p \in pending[k] : p.session \in Nat
    BY <1>3, <1>6
  <2>4. SessionsOf(k)'
    BY <1>2, <2>2, <2>3 DEF SessionsOf
  <2>5. TimersOf(k)'
    BY <1>1, <1>2, <2>2, <2>3 DEF TimersOf
  <2>6. QED
    BY <2>4, <2>5
<1>11. Mail'
  <2>1. SessionsGrow
    BY <1>2, <1>6 DEF SessionsGrow
  <2>2. MailOK(c.to, Nats!NatsMsgNtf(c))'
    BY <1>7 DEF MailOK
  <2>3. \A p \in wire' : p \in wire \/ (p.msg.type \notin {"call", "tick"} /\ MailOK(p.to, p.msg)')
    <3>1. SUFFICES ASSUME NEW p \in wire', p = [to |-> c.to, msg |-> Nats!NatsMsgNtf(c)]
                   PROVE  p.msg.type \notin {"call", "tick"} /\ MailOK(p.to, p.msg)'
      OBVIOUS
    <3>2. p.to = c.to /\ p.msg = Nats!NatsMsgNtf(c)
      BY <3>1
    <3>3. QED
      BY <1>7, <2>2, <3>2
  <2>4. QED
    BY <1>1, <1>2, <1>8, <2>1, <2>3, MailKeeps DEF IInv
<1>12. OwnReply'
  <2>1. SUFFICES ASSUME NEW d \in Calls, d.from \notin restarted, NEW i \in 1..Len(answers'[d]),
                        answers'[d][i].type = "answer"
                 PROVE  answers'[d][i].call = d
    BY <1>2 DEF OwnReply
  <2>2. d # c
    <3>1. d = c => answers'[d][i] = r
      BY <1>5, <2>1
    <3>2. QED
      BY <2>1, <3>1
  <2>3. QED
    BY <1>4, <2>1, <2>2 DEF IInv, OwnReply
<1>13. QED
  BY <1>8, <1>9, <1>10, <1>11, <1>12 DEF IInv

(* A call is published and pending, with a session of its own.             *)
LEMMA PendStep ==
    ASSUME IInv, NEW n \in Nodes, NEW c, NEW s,
           s = nextRequestID[n] + 1,
           Nats!Handle(n, Nats!Call(c)),
           nextRequestID' = [nextRequestID EXCEPT ![n] = s],
           pending' = [pending EXCEPT ![n] = @ \cup {[session |-> s, call |-> c]}],
           Nats!SetTimer(n, s), Nats!Publish(c.to, Nats!NatsMsgReq(n, s, c)),
           UNCHANGED <<natsUp, answers, appBox, appOnly>>
    PROVE  IInv'
<1> DEFINE new == [session |-> s, call |-> c]
           req == Nats!NatsMsgReq(n, s, c)
<1>1. /\ c \in Calls /\ c.from = n
      /\ c \in asked /\ ~Pending(c) /\ answers[c] = <<>> /\ ~InCall(c)'
      /\ \A d \in Calls : Single(natsBox[d.from], Nats!Call(d))'
      /\ \A d \in Calls : d # c => (InCall(d)' <=> InCall(d))
      /\ natsBox' \in [Nodes -> Seq(Nats!Msgs)]
      /\ \A k \in Nodes : \A x : InBox(natsBox'[k], x) => InBox(natsBox[k], x)
      /\ \A k \in Nodes, t \in Nat :
           InBox(natsBox[k], Nats!Tick(t)) => InBox(natsBox'[k], Nats!Tick(t))
  BY TakesCall
<1>2. UNCHANGED <<natsUp, answers, appBox, asked, waiting, restarted>>
  BY DEF appOnly
<1>3. /\ nextRequestID \in [Nodes -> Nat]
      /\ pending \in [Nodes -> SUBSET [session : Nat, call : Calls]]
      /\ requestTimers \in [Nodes -> SUBSET Nat] /\ wheel \in [Nodes -> SUBSET Nat]
  BY DEF IInv, TypeOK, Nats!TypeOK
<1>4. s \in Nat /\ nextRequestID[n] \in Nat /\ nextRequestID[n] < s
  BY <1>3
<1>5. new \in [session : Nat, call : Calls] /\ new.session = s /\ new.call = c
  BY <1>1, <1>4
<1>6. /\ requestTimers' = [requestTimers EXCEPT ![n] = @ \cup {s}]
      /\ wheel' = [wheel EXCEPT ![n] = @ \cup {s}]
      /\ wire' = wire \cup {[to |-> c.to, msg |-> req]}
  BY DEF Nats!SetTimer, Nats!Publish
<1>7. /\ \A k \in Nodes : pending'[k] = IF k = n THEN pending[n] \cup {new} ELSE pending[k]
      /\ \A k \in Nodes : requestTimers'[k] =
           IF k = n THEN requestTimers[n] \cup {s} ELSE requestTimers[k]
      /\ \A k \in Nodes : wheel'[k] = IF k = n THEN wheel[n] \cup {s} ELSE wheel[k]
      /\ \A k \in Nodes : nextRequestID'[k] = IF k = n THEN s ELSE nextRequestID[k]
  BY <1>3, <1>6
<1>8. \A k \in Nodes : \A p \in pending[k] :
        p.call.from = k /\ p.session \in Nat /\ p.session <= nextRequestID[k]
  BY <1>3 DEF IInv, Sessions, SessionsOf
<1>9. \A p \in pending[n] : p.session # s /\ p.call # c
  <2>1. SUFFICES ASSUME NEW p \in pending[n] PROVE p.session # s /\ p.call # c
    OBVIOUS
  <2>2. p.session # s
    BY <1>4, <1>8
  <2>3. p.call # c
    BY <1>1 DEF Pending
  <2>4. QED
    BY <2>2, <2>3
<1> HIDE DEF new
<1>10. \A k \in Nodes : nextRequestID[k] \in Nat /\ nextRequestID[k] <= nextRequestID'[k]
  <2>1. \A k \in Nodes : nextRequestID[k] \in Nat
    BY <1>3
  <2>2. QED
    BY <1>4, <1>7, <2>1
<1>11. /\ req \in Nats!Msgs /\ req.type = "req"
       /\ req.from = n /\ req.session = s /\ req.call = c
       /\ c.to \in Nodes
  BY <1>1, <1>4, MsgTypes DEF Nats!NatsMsgReq
<1> HIDE DEF req
<1>12. TypeOK'
  <2>1. pending' \in [Nodes -> SUBSET [session : Nat, call : Calls]]
    BY <1>3, <1>5 DEF new
  <2>2. requestTimers' \in [Nodes -> SUBSET Nat] /\ wheel' \in [Nodes -> SUBSET Nat]
    BY <1>3, <1>4, <1>6
  <2>3. nextRequestID' \in [Nodes -> Nat]
    BY <1>3, <1>4
  <2>4. wire' \subseteq [to : Nodes, msg : Nats!Msgs]
    BY <1>6, <1>11 DEF IInv, TypeOK, Nats!TypeOK
  <2>5. QED
    BY <1>1, <1>2, <2>1, <2>2, <2>3, <2>4 DEF IInv, TypeOK, Nats!TypeOK
<1>13. Once'
  <2>1. SUFFICES ASSUME NEW d \in Calls PROVE OnceOf(d)'
    BY DEF Once
  <2>2. d.from \in Nodes /\ OnceOf(d)
    BY MsgTypes DEF IInv, Once
  <2>3. CASE d = c
    <3>1. Pending(d)'
      BY <1>1, <1>5, <1>7, <2>3 DEF Pending
    <3>2. ~InCall(d)' /\ d \in asked' /\ answers'[d] = <<>> /\ Len(<<>>) = 0
      BY <1>1, <1>2, <2>3
    <3>3. Single(natsBox[d.from], Nats!Call(d))'
      BY <1>1
    <3>4. QED
      BY <3>1, <3>2, <3>3 DEF OnceOf
  <2>4. CASE d # c
    <3>1. Pending(d)' <=> Pending(d)
      BY <1>5, <1>7, <2>2, <2>4 DEF Pending
    <3>2. QED
      BY <1>1, <1>2, <2>2, <2>4, <3>1, OnceKeeps
  <2>5. QED
    BY <2>3, <2>4
<1>14. Sessions'
  <2>1. SUFFICES ASSUME NEW k \in Nodes PROVE SessionsOf(k)' /\ TimersOf(k)'
    BY DEF Sessions
  <2>2. SessionsOf(k) /\ TimersOf(k)
    BY DEF IInv, Sessions
  <2>3. SessionsOf(k)'
    <3>1. ASSUME NEW p \in pending'[k]
          PROVE  p.call.from = k /\ p.session <= nextRequestID'[k]
      <4>1. CASE p \in pending[k]
        <5>1. /\ p.call.from = k /\ p.session \in Nat /\ p.session <= nextRequestID[k]
              /\ nextRequestID[k] \in Nat /\ nextRequestID'[k] \in Nat
              /\ nextRequestID[k] <= nextRequestID'[k]
          BY <1>3, <1>4, <1>7, <1>8, <1>10, <4>1
        <5>2. QED
          BY <5>1
      <4>2. CASE k = n /\ p = new
        <5>1. p.call.from = k /\ p.session = s /\ nextRequestID'[k] = s
          BY <1>1, <1>5, <1>7, <4>2
        <5>2. QED
          BY <1>4, <5>1
      <4>3. QED
        BY <1>7, <3>1, <4>1, <4>2
    <3>2. \A p, q \in pending'[k] : p.session = q.session \/ p.call = q.call => p = q
      BY <1>5, <1>7, <1>9, <2>2 DEF SessionsOf
    <3>3. QED
      BY <3>1, <3>2 DEF SessionsOf
  <2>4. TimersOf(k)'
    <3>1. ASSUME NEW p \in pending'[k]
          PROVE  p.session \in wheel'[k] \/ InBox(natsBox'[k], Nats!Tick(p.session))
      <4>1. CASE p \in pending[k]
        BY <1>1, <1>7, <1>8, <2>2, <4>1 DEF TimersOf
      <4>2. CASE k = n /\ p = new
        BY <1>5, <1>7, <4>2
      <4>3. QED
        BY <1>7, <3>1, <4>1, <4>2
    <3>2. wheel'[k] \subseteq requestTimers'[k]
      BY <1>7, <2>2 DEF TimersOf
    <3>3. requestTimers'[k] = {p.session : p \in pending'[k]}
      BY <1>5, <1>7, <2>2 DEF TimersOf
    <3>4. QED
      BY <3>1, <3>2, <3>3 DEF TimersOf
  <2>5. QED
    BY <2>3, <2>4
<1>15. Mail'
  <2>1. SessionsGrow
    <3>1. \A k \in Nodes : \A p \in pending'[k] : p \in pending[k] \/ p.session > nextRequestID[k]
      BY <1>4, <1>5, <1>7
    <3>2. QED
      BY <1>2, <1>10, <3>1 DEF SessionsGrow
  <2>2. Own(n, s, c)'
    <3>1. \A p \in pending'[n] : p.session = s => p.call = c
      BY <1>5, <1>7, <1>9
    <3>2. s <= nextRequestID'[n]
      BY <1>4, <1>7
    <3>3. QED
      BY <3>1, <3>2 DEF Own
  <2>3. ASSUME NEW p \in wire', p = [to |-> c.to, msg |-> req]
        PROVE  p.msg.type \notin {"call", "tick"} /\ MailOK(p.to, p.msg)'
    <3>1. p.to = c.to /\ p.msg = req
      BY <2>3
    <3>2. /\ p.msg.type = "req" /\ p.msg.from = n
          /\ p.msg.session = s /\ p.msg.call = c
      BY <1>11, <3>1
    <3>3. QED
      BY <2>2, <3>2 DEF MailOK
  <2>4. \A p \in wire' : p \in wire \/ (p.msg.type \notin {"call", "tick"} /\ MailOK(p.to, p.msg)')
    BY <1>6, <2>3
  <2>5. QED
    BY <1>1, <1>2, <1>12, <2>1, <2>4, MailKeeps DEF IInv
<1>16. OwnReply'
  BY <1>2 DEF IInv, OwnReply
<1>17. QED
  BY <1>12, <1>13, <1>14, <1>15, <1>16 DEF IInv

LEMMA CallSteps ==
    ASSUME IInv, NEW n \in Nodes, NEW c, Nats!sendCall(n, c) \/ Nats!catsMsg(n, c),
           UNCHANGED appOnly
    PROVE  IInv'
<1>1. Nats!Handle(n, Nats!Call(c)) /\ UNCHANGED <<natsUp, appBox>>
  BY DEF Nats!sendCall, Nats!catsMsg
<1>2. nextRequestID \in [Nodes -> Nat]
  BY DEF IInv, TypeOK, Nats!TypeOK
<1>3. /\ Nats!Ended("failed") \in Nats!Responses /\ Nats!Ended("failed").type # "answer"
      /\ Nats!Ended("ok") \in Nats!Responses /\ Nats!Ended("ok").type # "answer"
  BY ResponseTypes DEF Nats!Ended
<1>4. CASE Nats!CallFails(n, c)
  <2>1. /\ Nats!Respond(c, Nats!Ended("failed"))
        /\ UNCHANGED <<pending, requestTimers, wheel, wire>>
    BY <1>4 DEF Nats!CallFails
  <2>2. nextRequestID' = [nextRequestID EXCEPT ![n] = @ + 1] \/ nextRequestID' = nextRequestID
    BY <1>2, <1>4 DEF Nats!CallFails
  <2>3. QED
    BY <1>1, <1>3, <2>1, <2>2, RespondStep
<1>5. CASE Nats!sendCall(n, c) /\ ~Nats!CallFails(n, c)
  <2>1. PICK s : s = nextRequestID[n] + 1
    OBVIOUS
  <2>2. /\ nextRequestID' = [nextRequestID EXCEPT ![n] = s]
        /\ pending' = [pending EXCEPT ![n] = @ \cup {[session |-> s, call |-> c]}]
        /\ Nats!SetTimer(n, s) /\ Nats!Publish(c.to, Nats!NatsMsgReq(n, s, c))
        /\ UNCHANGED answers
    BY <1>5, <2>1 DEF Nats!sendCall, Nats!NewSession
  <2>3. QED
    BY <1>1, <2>1, <2>2, PendStep
<1>6. CASE Nats!catsMsg(n, c) /\ ~Nats!CallFails(n, c)
  <2>1. /\ nextRequestID' = [nextRequestID EXCEPT ![n] = @ + 1]
        /\ wire' = wire \cup {[to |-> c.to, msg |-> Nats!NatsMsgNtf(c)]}
        /\ Nats!Respond(c, Nats!Ended("ok"))
        /\ UNCHANGED <<pending, requestTimers, wheel>>
    BY <1>6 DEF Nats!catsMsg, Nats!NewSession, Nats!Publish
  <2>2. QED
    BY <1>1, <1>3, <2>1, RespondStep
<1>7. QED
  BY <1>4, <1>5, <1>6

LEMMA AckStep ==
    ASSUME IInv, NEW n \in Nodes, NEW s, NEW c, Nats!OnAck(n, s, c), UNCHANGED appOnly
    PROVE  IInv'
<1> DEFINE m == Nats!NatsMsgAck(s, c)
<1>1. Nats!Handle(n, m) /\ UNCHANGED <<natsUp, nextRequestID, wire, appBox>>
  BY DEF Nats!OnAck
<1>2. m.type = "ack" /\ m.session = s /\ m.call = c
  BY DEF Nats!NatsMsgAck
<1>3. m \in Nats!Msgs /\ InBox(natsBox[n], m)
  BY <1>1, Handles DEF IInv
<1> HIDE DEF m
<1>4. c \in Calls /\ s \in Nat /\ Own(n, s, c)
  BY <1>2, <1>3, MsgParts, MailKnown DEF MailOK
<1>5. CASE Nats!Unknown(n, s)
  BY <1>1, <1>2, <1>5, UnknownStep
<1>6. ASSUME NEW p \in Nats!PendingOf(n, s), Nats!AckAnswers(n, s, p, c)
      PROVE  IInv'
  <2>1. p \in pending[n] /\ p.session = s
    BY DEF Nats!PendingOf
  <2>2. PICK r : /\ r = Nats!Answer(c) \/ r = Nats!Ended("failed")
                 /\ Nats!finishPending(n, s, p, r)
    BY <1>6 DEF Nats!AckAnswers
  <2>3. r \in Nats!Responses
    BY <1>4, <2>2, ResponseTypes
  <2>4. r.type = "answer" => r.call = c
    BY <2>2 DEF Nats!Answer, Nats!Ended
  <2>5. n \in restarted \/ p.call = c
    BY <1>4, <2>1 DEF Own
  <2>6. QED
    BY <1>1, <1>2, <2>1, <2>2, <2>3, <2>4, <2>5, FinishStep
<1>7. QED
  BY <1>5, <1>6 DEF Nats!OnAck

LEMMA TimeoutStep ==
    ASSUME IInv, NEW n \in Nodes, NEW s, Nats!timeoutRequest(n, s), UNCHANGED appOnly
    PROVE  IInv'
<1>1. Nats!Handle(n, Nats!Tick(s)) /\ UNCHANGED <<natsUp, nextRequestID, wire, appBox>>
  BY DEF Nats!timeoutRequest
<1>2. CASE Nats!Unknown(n, s)
  BY <1>1, <1>2, UnknownStep
<1>3. ASSUME NEW p \in Nats!PendingOf(n, s),
             Nats!finishPending(n, s, p, Nats!Ended("timeout"))
      PROVE  IInv'
  <2>1. p \in pending[n] /\ p.session = s
    BY DEF Nats!PendingOf
  <2>2. Nats!Ended("timeout") \in Nats!Responses /\ Nats!Ended("timeout").type # "answer"
    BY ResponseTypes DEF Nats!Ended
  <2>3. QED
    BY <1>1, <1>3, <2>1, <2>2, FinishStep
<1>4. QED
  BY <1>2, <1>3 DEF Nats!timeoutRequest

LEMMA NatsSteps ==
    ASSUME IInv, NEW n \in Nodes, NatsStep(n) \/ Drops(n)
    PROVE  IInv'
<1>1. UNCHANGED appOnly
  BY DEF NatsStep, Drops
<1>2. PICK m : m = Head(natsBox[n])
  OBVIOUS
<1>3. \/ Nats!sendCall(n, m.call) \/ Nats!catsMsg(n, m.call)
      \/ Nats!OnAck(n, m.session, m.call)
      \/ Nats!timeoutRequest(n, m.session)
      \/ Nats!Route(n, m) \/ Nats!Unroutable(n, m)
      \/ Nats!MsgHandle(n, m)
  BY <1>2 DEF NatsStep, Drops, Nats!Step
<1>4. QED
  BY <1>1, <1>3, CallSteps, AckStep, TimeoutStep, RouteStep, UnroutableStep, MsgHandleStep

(* An actor makes a call that was not made before.                         *)
LEMMA AskStep ==
    ASSUME IInv, NEW c \in Calls, Ask(c)
    PROVE  IInv'
<1> DEFINE m == Nats!Call(c)
<1>1. /\ c \notin asked /\ asked' = asked \cup {c}
      /\ natsBox' = [natsBox EXCEPT ![c.from] = Append(@, m)]
      /\ UNCHANGED <<natsUp, pending, requestTimers, wheel, nextRequestID>>
      /\ UNCHANGED <<answers, wire, appBox, restarted>>
  BY DEF Ask, natsOnly
<1>2. c.from \in Nodes /\ m \in Nats!Msgs
  BY MsgTypes
<1>3. /\ natsBox' \in [Nodes -> Seq(Nats!Msgs)]
      /\ \A k \in Nodes : \A x :
           InBox(natsBox'[k], x) <=> InBox(natsBox[k], x) \/ (k = c.from /\ x = m)
      /\ \A k \in Nodes : \A x :
           Single(natsBox[k], x) /\ (k = c.from /\ x = m => ~InBox(natsBox[k], x))
           => Single(natsBox'[k], x)
  BY <1>1, <1>2, Sends DEF IInv
<1>4. waiting' \in [Nodes -> Calls \cup {NoCall}]
  <2>1. waiting \in [Nodes -> Calls \cup {NoCall}]
    BY DEF IInv, TypeOK
  <2>2. QED
    BY <1>2, <2>1 DEF Ask, AskAndWait
<1>5. \A d \in Calls : d # c => Nats!Call(d) # m
  BY DEF Nats!Call
<1>6. \A s : Nats!Tick(s) # m
  BY DEF Nats!Call, Nats!Tick
<1>7. m.type = "call" /\ m.call = c
  BY DEF Nats!Call
<1>8. TypeOK'
  BY <1>1, <1>3, <1>4 DEF IInv, TypeOK, Nats!TypeOK
<1>9. Once'
  <2>1. SUFFICES ASSUME NEW d \in Calls PROVE OnceOf(d)'
    BY DEF Once
  <2>2. OnceOf(d) /\ d.from \in Nodes /\ (Pending(d)' <=> Pending(d)) /\ answers'[d] = answers[d]
    BY <1>1, MsgTypes DEF IInv, Once, Pending
  <2>3. CASE d = c
    <3>1. ~InCall(d) /\ ~Pending(d) /\ answers[d] = <<>> /\ Single(natsBox[d.from], Nats!Call(d))
      BY <1>1, <2>2, <2>3 DEF OnceOf
    <3>2. Single(natsBox[d.from], Nats!Call(d))'
      BY <1>2, <1>3, <2>3, <3>1 DEF InCall
    <3>3. InCall(d)'
      BY <1>2, <1>3, <2>3 DEF InCall
    <3>4. ~Pending(d)' /\ answers'[d] = <<>> /\ d \in asked' /\ Len(<<>>) = 0
      BY <1>1, <2>2, <2>3, <3>1
    <3>5. QED
      BY <3>2, <3>3, <3>4 DEF OnceOf
  <2>4. CASE d # c
    <3>1. InCall(d)' <=> InCall(d)
      BY <1>3, <1>5, <2>2, <2>4 DEF InCall
    <3>2. Single(natsBox[d.from], Nats!Call(d))'
      BY <1>3, <1>5, <2>2, <2>4 DEF OnceOf
    <3>3. QED
      BY <1>1, <2>2, <2>4, <3>1, <3>2, OnceKeeps
  <2>5. QED
    BY <2>3, <2>4
<1>10. Sessions'
  <2>1. SUFFICES ASSUME NEW k \in Nodes PROVE SessionsOf(k)' /\ TimersOf(k)'
    BY DEF Sessions
  <2>2. SessionsOf(k) /\ TimersOf(k)
    BY DEF IInv, Sessions
  <2>3. SessionsOf(k)'
    BY <1>1, <2>2 DEF SessionsOf
  <2>4. TimersOf(k)'
    BY <1>1, <1>3, <2>2 DEF TimersOf
  <2>5. QED
    BY <2>3, <2>4
<1>11. Mail'
  <2>1. nextRequestID \in [Nodes -> Nat]
    BY DEF IInv, TypeOK, Nats!TypeOK
  <2>2. SessionsGrow
    BY <1>1, <2>1 DEF SessionsGrow
  <2>3. MailOK(c.from, m)'
    BY <1>7 DEF MailOK
  <2>4. QED
    BY <1>1, <1>3, <1>8, <2>2, <2>3, MailKeeps DEF IInv
<1>12. OwnReply'
  BY <1>1 DEF IInv, OwnReply
<1>13. QED
  BY <1>8, <1>9, <1>10, <1>11, <1>12 DEF IInv

-----------------------------------------------------------------------------
(* A Nats actor ends.                                                      *)

(* OnStop answers what is pending.                                         *)
LEMMA StopStep ==
    ASSUME IInv, NEW n \in Nodes, Stops(n)
    PROVE  IInv'
<1>1. /\ natsUp' = [natsUp EXCEPT ![n] = FALSE]
      /\ wheel' = [wheel EXCEPT ![n] = {}]
      /\ pending' = [pending EXCEPT ![n] = {}]
      /\ requestTimers' = [requestTimers EXCEPT ![n] = {}]
      /\ answers' = [c \in Calls |->
                       IF \E p \in pending[n] : p.call = c
                       THEN Append(answers[c], Nats!Ended("stopped")) ELSE answers[c]]
      /\ UNCHANGED <<natsBox, nextRequestID, wire, appBox>>
      /\ UNCHANGED <<asked, waiting, restarted>>
  BY DEF Stops, Nats!OnStop, Nats!AnswerAll, appOnly
<1>2. /\ natsUp \in [Nodes -> BOOLEAN]
      /\ pending \in [Nodes -> SUBSET [session : Nat, call : Calls]]
      /\ requestTimers \in [Nodes -> SUBSET Nat] /\ wheel \in [Nodes -> SUBSET Nat]
      /\ answers \in [Calls -> Seq(Nats!Responses)]
      /\ nextRequestID \in [Nodes -> Nat]
  BY DEF IInv, TypeOK, Nats!TypeOK
<1>3. Nats!Ended("stopped") \in Nats!Responses /\ Nats!Ended("stopped").type # "answer"
  BY ResponseTypes DEF Nats!Ended
<1>4. PICK r \in Nats!Responses : r = Nats!Ended("stopped") /\ r.type # "answer"
  BY <1>3
<1>5. \A k \in Nodes : /\ pending'[k] = IF k = n THEN {} ELSE pending[k]
                       /\ requestTimers'[k] = IF k = n THEN {} ELSE requestTimers[k]
                       /\ wheel'[k] = IF k = n THEN {} ELSE wheel[k]
  BY <1>1, <1>2
<1>6. \A p \in pending[n] : p.call.from = n
  BY DEF IInv, Sessions, SessionsOf
<1>7. \A c \in Calls : (\E p \in pending[n] : p.call = c) <=> c.from = n /\ Pending(c)
  BY <1>6 DEF Pending
<1>8. \A c \in Calls : answers'[c] = IF c.from = n /\ Pending(c)
                                     THEN Append(answers[c], r) ELSE answers[c]
  BY <1>1, <1>4, <1>7
<1>9. TypeOK'
  <2>1. answers' \in [Calls -> Seq(Nats!Responses)]
    <3>1. \A c \in Calls : Append(answers[c], r) \in Seq(Nats!Responses)
      BY <1>2
    <3>2. QED
      BY <1>1, <1>2, <1>4, <3>1
  <2>2. /\ natsUp' \in [Nodes -> BOOLEAN]
        /\ pending' \in [Nodes -> SUBSET [session : Nat, call : Calls]]
        /\ requestTimers' \in [Nodes -> SUBSET Nat] /\ wheel' \in [Nodes -> SUBSET Nat]
    BY <1>1, <1>2
  <2>3. QED
    BY <1>1, <2>1, <2>2 DEF IInv, TypeOK, Nats!TypeOK
<1>10. \A c \in Calls : (InCall(c)' <=> InCall(c)) /\ c.from \in Nodes
  BY <1>1, MsgTypes DEF InCall
<1>11. Once'
  <2>1. SUFFICES ASSUME NEW c \in Calls PROVE OnceOf(c)'
    BY DEF Once
  <2>2. OnceOf(c) /\ Single(natsBox[c.from], Nats!Call(c))'
    BY <1>1 DEF IInv, Once, OnceOf
  <2>3. CASE c.from = n /\ Pending(c)
    <3>1. ~InCall(c) /\ answers[c] = <<>> /\ c \in asked
      BY <2>2, <2>3 DEF OnceOf
    <3>2. answers'[c] = Append(answers[c], r)
      BY <1>8, <2>3
    <3>3. Append(<<>>, r) # <<>> /\ Len(Append(<<>>, r)) = 1
      OBVIOUS
    <3>4. answers'[c] # <<>> /\ Len(answers'[c]) = 1
      BY <3>1, <3>2, <3>3
    <3>5. ~Pending(c)' /\ ~InCall(c)' /\ c \in asked'
      BY <1>1, <1>5, <1>10, <2>3, <3>1 DEF Pending
    <3>6. QED
      BY <2>2, <3>4, <3>5 DEF OnceOf
  <2>4. CASE ~(c.from = n /\ Pending(c))
    <3>1. Pending(c)' <=> Pending(c)
      BY <1>5, <1>10, <2>4 DEF Pending
    <3>2. answers'[c] = answers[c]
      BY <1>8, <2>4
    <3>3. QED
      BY <1>1, <1>10, <2>2, <3>1, <3>2, OnceKeeps
  <2>5. QED
    BY <2>3, <2>4
<1>12. Sessions'
  <2>1. SUFFICES ASSUME NEW k \in Nodes PROVE SessionsOf(k)' /\ TimersOf(k)'
    BY DEF Sessions
  <2>2. SessionsOf(k) /\ TimersOf(k)
    BY DEF IInv, Sessions
  <2>3. SessionsOf(k)'
    BY <1>1, <1>5, <2>2 DEF SessionsOf
  <2>4. TimersOf(k)'
    <3>1. CASE k = n
      <4>1. pending'[k] = {} /\ requestTimers'[k] = {} /\ wheel'[k] = {}
        BY <1>5, <3>1
      <4>2. QED
        BY <4>1 DEF TimersOf
    <3>2. CASE k # n
      BY <1>1, <1>5, <2>2, <3>2 DEF TimersOf
    <3>3. QED
      BY <3>1, <3>2
  <2>5. QED
    BY <2>3, <2>4
<1>13. Mail'
  <2>1. SessionsGrow
    BY <1>1, <1>2, <1>5 DEF SessionsGrow
  <2>2. QED
    BY <1>1, <1>9, <2>1, MailKeeps DEF IInv
<1>14. OwnReply'
  <2>1. SUFFICES ASSUME NEW c \in Calls, c.from \notin restarted, NEW i \in 1..Len(answers'[c]),
                        answers'[c][i].type = "answer"
                 PROVE  answers'[c][i].call = c
    BY <1>1 DEF OwnReply
  <2>2. ~(c.from = n /\ Pending(c))
    <3>1. SUFFICES ASSUME c.from = n /\ Pending(c) PROVE FALSE
      OBVIOUS
    <3>2. answers[c] = <<>>
      BY <3>1 DEF IInv, Once, OnceOf
    <3>3. answers'[c] = Append(<<>>, r)
      BY <1>8, <3>1, <3>2
    <3>4. \A j \in 1..Len(Append(<<>>, r)) : Append(<<>>, r)[j] = r
      OBVIOUS
    <3>5. answers'[c][i] = r
      BY <2>1, <3>3, <3>4
    <3>6. QED
      BY <1>4, <2>1, <3>5
  <2>3. QED
    BY <1>8, <2>1, <2>2 DEF IInv, OwnReply
<1>15. QED
  BY <1>9, <1>11, <1>12, <1>13, <1>14 DEF IInv

(* A process is gone with what it held.                                    *)
LEMMA RestartStep ==
    ASSUME IInv, NEW n \in Nodes, Restart(n)
    PROVE  IInv'
<1>1. /\ restarted' = restarted \cup {n}
      /\ natsUp' = [natsUp EXCEPT ![n] = TRUE]
      /\ natsBox' = [natsBox EXCEPT ![n] = <<>>]
      /\ pending' = [pending EXCEPT ![n] = {}]
      /\ requestTimers' = [requestTimers EXCEPT ![n] = {}]
      /\ wheel' = [wheel EXCEPT ![n] = {}]
      /\ nextRequestID' = [nextRequestID EXCEPT ![n] = 0]
      /\ appBox' = [appBox EXCEPT ![n] = <<>>]
      /\ waiting' = [waiting EXCEPT ![n] = NoCall]
      /\ UNCHANGED <<answers, wire, asked>>
  BY DEF Restart
<1>2. /\ natsUp \in [Nodes -> BOOLEAN]
      /\ natsBox \in [Nodes -> Seq(Nats!Msgs)] /\ appBox \in [Nodes -> Seq(Nats!Msgs)]
      /\ pending \in [Nodes -> SUBSET [session : Nat, call : Calls]]
      /\ requestTimers \in [Nodes -> SUBSET Nat] /\ wheel \in [Nodes -> SUBSET Nat]
      /\ nextRequestID \in [Nodes -> Nat]
      /\ waiting \in [Nodes -> Calls \cup {NoCall}]
      /\ restarted \subseteq Nodes
      /\ \A k \in Nodes : Len(appBox[k]) <= BoxSize
  BY DEF IInv, TypeOK, Nats!TypeOK
<1>3. /\ \A k \in Nodes : natsBox'[k] = IF k = n THEN <<>> ELSE natsBox[k]
      /\ \A k \in Nodes : appBox'[k] = IF k = n THEN <<>> ELSE appBox[k]
      /\ \A k \in Nodes : pending'[k] = IF k = n THEN {} ELSE pending[k]
      /\ \A k \in Nodes : requestTimers'[k] = IF k = n THEN {} ELSE requestTimers[k]
      /\ \A k \in Nodes : wheel'[k] = IF k = n THEN {} ELSE wheel[k]
      /\ \A k \in Nodes : nextRequestID'[k] = IF k = n THEN 0 ELSE nextRequestID[k]
  <2> HIDE DEF Nats!Msgs
  <2>1. QED
    BY <1>1, <1>2
<1>4. \A x : ~InBox(<<>>, x) /\ Single(<<>>, x)
  BY DEF InBox, Single
<1>5. TypeOK'
  <2>1. /\ natsUp' \in [Nodes -> BOOLEAN]
        /\ pending' \in [Nodes -> SUBSET [session : Nat, call : Calls]]
        /\ requestTimers' \in [Nodes -> SUBSET Nat] /\ wheel' \in [Nodes -> SUBSET Nat]
    BY <1>1, <1>2
  <2>2. natsBox' \in [Nodes -> Seq(Nats!Msgs)] /\ appBox' \in [Nodes -> Seq(Nats!Msgs)]
    <3> HIDE DEF Nats!Msgs
    <3>1. <<>> \in Seq(Nats!Msgs)
      OBVIOUS
    <3>2. QED
      BY <1>1, <1>2, <3>1
  <2>3. \A k \in Nodes : Len(appBox'[k]) <= BoxSize
    <3>1. Len(<<>>) <= BoxSize
      BY RpcAssumption DEF RpcAssumption
    <3>2. QED
      BY <1>2, <1>3, <3>1
  <2>4. nextRequestID' \in [Nodes -> Nat]
    BY <1>1, <1>2
  <2>5. waiting' \in [Nodes -> Calls \cup {NoCall}] /\ restarted' \subseteq Nodes
    BY <1>1, <1>2
  <2>6. QED
    BY <1>1, <2>1, <2>2, <2>3, <2>4, <2>5 DEF IInv, TypeOK, Nats!TypeOK
<1>6. Once'
  <2>1. SUFFICES ASSUME NEW c \in Calls PROVE OnceOf(c)'
    BY DEF Once
  <2>2. OnceOf(c) /\ c.from \in Nodes
    BY MsgTypes DEF IInv, Once
  <2>3. CASE c.from = n
    <3>1. ~InCall(c)' /\ Single(natsBox[c.from], Nats!Call(c))'
      BY <1>3, <1>4, <2>3 DEF InCall
    <3>2. ~Pending(c)'
      BY <1>3, <2>3 DEF Pending
    <3>3. c.from \in restarted'
      BY <1>1, <2>3
    <3>4. QED
      BY <1>1, <2>2, <3>1, <3>2, <3>3 DEF OnceOf
  <2>4. CASE c.from # n
    <3>1. natsBox'[c.from] = natsBox[c.from] /\ pending'[c.from] = pending[c.from]
      BY <1>3, <2>2, <2>4
    <3>2. (InCall(c)' <=> InCall(c)) /\ (Pending(c)' <=> Pending(c))
      BY <3>1 DEF InCall, Pending
    <3>3. Single(natsBox[c.from], Nats!Call(c))'
      BY <2>2, <3>1 DEF OnceOf
    <3>4. QED
      BY <1>1, <2>2, <3>2, <3>3, OnceKeeps
  <2>5. QED
    BY <2>3, <2>4
<1>7. Sessions'
  <2>1. SUFFICES ASSUME NEW k \in Nodes PROVE SessionsOf(k)' /\ TimersOf(k)'
    BY DEF Sessions
  <2>2. SessionsOf(k) /\ TimersOf(k)
    BY DEF IInv, Sessions
  <2>3. CASE k = n
    <3>1. pending'[k] = {} /\ requestTimers'[k] = {} /\ wheel'[k] = {}
      BY <1>3, <2>3
    <3>2. QED
      BY <3>1 DEF SessionsOf, TimersOf
  <2>4. CASE k # n
    <3>1. /\ pending'[k] = pending[k] /\ nextRequestID'[k] = nextRequestID[k]
          /\ requestTimers'[k] = requestTimers[k] /\ wheel'[k] = wheel[k]
          /\ natsBox'[k] = natsBox[k]
      BY <1>3, <2>4
    <3>2. QED
      BY <2>2, <3>1 DEF SessionsOf, TimersOf
  <2>5. QED
    BY <2>3, <2>4
<1>8. Mail'
  <2>1. SessionsGrow
    <3>1. \A k \in Nodes : k \notin restarted' =>
            nextRequestID'[k] = nextRequestID[k] /\ pending'[k] = pending[k]
      BY <1>1, <1>3
    <3>2. \A k \in Nodes : nextRequestID[k] \in Nat
      BY <1>2
    <3>3. restarted \subseteq restarted'
      BY <1>1
    <3>4. QED
      BY <3>1, <3>2, <3>3 DEF SessionsGrow
  <2>2. /\ \A k \in Nodes : \A x : InBox(natsBox'[k], x) => InBox(natsBox[k], x)
        /\ \A k \in Nodes : \A x : InBox(appBox'[k], x) => InBox(appBox[k], x)
    BY <1>3, <1>4
  <2>3. QED
    BY <1>1, <1>5, <2>1, <2>2, MailKeeps DEF IInv
<1>9. OwnReply'
  BY <1>1 DEF IInv, OwnReply
<1>10. QED
  BY <1>5, <1>6, <1>7, <1>8, <1>9 DEF IInv

-----------------------------------------------------------------------------
LEMMA InitInv == Init => IInv
<1>1. SUFFICES ASSUME Init PROVE IInv
  OBVIOUS
<1>2. /\ natsUp = [n \in Nodes |-> TRUE]
      /\ natsBox = [n \in Nodes |-> <<>>] /\ appBox = [n \in Nodes |-> <<>>]
      /\ pending = [n \in Nodes |-> {}] /\ requestTimers = [n \in Nodes |-> {}]
      /\ wheel = [n \in Nodes |-> {}] /\ nextRequestID = [n \in Nodes |-> 0]
      /\ answers = [c \in Calls |-> <<>>]
      /\ wire = {} /\ asked = {} /\ restarted = {}
      /\ waiting = [n \in Nodes |-> NoCall]
  BY <1>1 DEF Init, Nats!Init
<1>3. /\ \A n \in Nodes : natsBox[n] = <<>> /\ appBox[n] = <<>> /\ pending[n] = {}
      /\ \A n \in Nodes : requestTimers[n] = {} /\ wheel[n] = {}
      /\ \A c \in Calls : answers[c] = <<>> /\ c.from \in Nodes
  BY <1>2, MsgTypes
<1>4. (\A x : ~InBox(<<>>, x) /\ Single(<<>>, x)) /\ Len(<<>>) = 0
  BY DEF InBox, Single
<1>5. TypeOK
  <2>1. \A n \in Nodes : Len(appBox[n]) <= BoxSize
    BY <1>3, <1>4, RpcAssumption DEF RpcAssumption
  <2>2. /\ natsBox \in [Nodes -> Seq(Nats!Msgs)] /\ appBox \in [Nodes -> Seq(Nats!Msgs)]
        /\ answers \in [Calls -> Seq(Nats!Responses)]
    <3> HIDE DEF Nats!Msgs, Nats!Responses
    <3>1. QED
      BY <1>2
  <2>3. QED
    BY <1>2, <2>1, <2>2 DEF TypeOK, Nats!TypeOK
<1>6. Once
  BY <1>2, <1>3, <1>4 DEF Once, OnceOf, InCall, Pending
<1>7. Sessions
  BY <1>3 DEF Sessions, SessionsOf, TimersOf
<1>8. Mail
  BY <1>2, <1>3, <1>4 DEF Mail, BoxOK
<1>9. OwnReply
  BY <1>3, <1>4 DEF OwnReply
<1>10. QED
  BY <1>5, <1>6, <1>7, <1>8, <1>9 DEF IInv

LEMMA NextInv == IInv /\ [Next]_vars => IInv'
<1>1. SUFFICES ASSUME IInv, [Next]_vars PROVE IInv'
  OBVIOUS
<1>2. waiting \in [Nodes -> Calls \cup {NoCall}]
  BY <1>1 DEF IInv, TypeOK
<1>3. CASE Lose
  BY <1>1, <1>2, <1>3, StillStep DEF Lose, appOnly
<1>4. ASSUME NEW c \in Calls, Ask(c) PROVE IInv'
  BY <1>1, <1>4, AskStep
<1>5. ASSUME NEW n \in Nodes, NatsStep(n) \/ Drops(n) PROVE IInv'
  BY <1>1, <1>5, NatsSteps
<1>6. ASSUME NEW n \in Nodes, Fires(n) PROVE IInv'
  BY <1>1, <1>6, TimerStep DEF Fires
<1>7. ASSUME NEW n \in Nodes, Receives(n) PROVE IInv'
  BY <1>1, <1>7, ReceiveStep DEF Receives
<1>8. ASSUME NEW n \in Nodes, AppHandles(n) PROVE IInv'
  BY <1>1, <1>8, AppStep
<1>9. ASSUME NEW n \in Nodes, sendOrErr(n) PROVE IInv'
  <2>1. waiting' \in [Nodes -> Calls \cup {NoCall}]
    BY <1>2, <1>9 DEF sendOrErr
  <2>2. QED
    BY <1>1, <1>9, <2>1, StillStep DEF sendOrErr
<1>10. ASSUME NEW n \in Nodes, Stops(n) PROVE IInv'
  BY <1>1, <1>10, StopStep
<1>11. ASSUME NEW n \in Nodes, Restart(n) PROVE IInv'
  BY <1>1, <1>11, RestartStep
<1>12. CASE UNCHANGED vars
  BY <1>1, <1>2, <1>12, StillStep DEF vars, appOnly
<1>13. QED
  BY <1>1, <1>3, <1>4, <1>5, <1>6, <1>7, <1>8, <1>9, <1>10, <1>11, <1>12 DEF Next

LEMMA Invariant == Spec => []IInv
BY InitInv, NextInv, PTL DEF Spec

(* The mailboxes hold frames, calls and ticks, a process's actor has no    *)
(* more messages than its mailbox has room for, and pending requests are   *)
(* calls with a session (natsrpc/internal/nats.go).                        *)
THEOREM TypeCorrect == Spec => []TypeOK
<1>1. IInv => TypeOK
  BY DEF IInv
<1>2. QED
  BY <1>1, Invariant, PTL

(* However acknowledgements, timeouts and the actor's end interleave, no   *)
(* call is answered twice (handle.go finishPending, nats.go OnStop).       *)
THEOREM OneAnswer == Spec => []AnsweredOnce
<1>1. IInv => AnsweredOnce
  BY DEF IInv, Once, OnceOf, AnsweredOnce
<1>2. QED
  BY <1>1, Invariant, PTL

(* A call that was made waits in the mailbox, is pending or is answered    *)
(* as long as its process lives (handle.go sendCall, nats.go OnStop).      *)
THEOREM NoCallForgotten == Spec => []NeverForgotten
<1>1. IInv => NeverForgotten
  <2>1. SUFFICES ASSUME IInv, NEW c \in asked
                 PROVE  \/ Queued(c.from, Nats!Call(c)) \/ Pending(c) \/ answers[c] # <<>>
                        \/ c.from \in restarted
    BY DEF NeverForgotten
  <2>2. c \in Calls
    BY <2>1 DEF IInv, TypeOK
  <2>3. QED
    BY <2>1, <2>2 DEF IInv, Once, OnceOf, InCall, InBox, Queued
<1>2. QED
  BY <1>1, Invariant, PTL

(* Every pending request has its timer running or its tick in the mailbox, *)
(* and no other request holds a timer (handle.go finishPending).           *)
THEOREM TimerForEach == Spec => []PendingTimesOut
<1>1. IInv => PendingTimesOut
  BY DEF IInv, Sessions, TimersOf, PendingTimesOut, InBox, Queued
<1>2. QED
  BY <1>1, Invariant, PTL

(* A process that has not restarted answers a call with the reply to that  *)
(* very call: a session is never given to a second one (handle.go          *)
(* sendCall, NatsMsgAck).                                                  *)
THEOREM RepliesAreOwn == Spec => []OwnReply
<1>1. IInv => OwnReply
  BY DEF IInv
<1>2. QED
  BY <1>1, Invariant, PTL
=============================================================================
