-------------------------- MODULE GateSessionProofs --------------------------
(***************************************************************************)
(* Theorems about GateSession, for every value of its constants: types,    *)
(* who speaks for a player, and when a session ends.                       *)
(***************************************************************************)
EXTENDS GateSession, MailboxLemmas, FiniteSetTheorems, FunctionTheorems, TLAPS

Open(s) == [type |-> "open", stream |-> s]
Close(s) == [type |-> "close", stream |-> s]
LoginOf(s) == [type |-> "login", stream |-> s]
ClosedOf(u) == [type |-> "closed", uid |-> u]

(***************************************************************************)
(* The inductive invariant.  Opening: GateActor is asked once to open a    *)
(* stream's session, before there is an agent, a session or a login of it, *)
(* and what closes it comes after its end.  Session: nothing that ends the *)
(* agent of a session or takes its player offline is on its way, but what  *)
(* Play handles before the session's login.                                *)
(***************************************************************************)
Unopened(s) ==
    /\ box[s] = <<>>
    /\ s \notin greeted /\ ~InBox(playBox, LoginOf(s))
    /\ ~InBox(sends, Gate!Stop(s))
    /\ \A u \in Uids : sessions[u] # s

OpeningOf(s) ==
    /\ stream[s] = "idle" => agent[s] = "none" /\ ~InBox(gateBox, Open(s))
    /\ InBox(gateBox, Open(s)) => agent[s] = "none"
    /\ Single(gateBox, Open(s))
    /\ agent[s] = "none" => Unopened(s)
    /\ agent[s] # "none" => uidOf[s] \in Uids
    /\ agent[s] # "stopped" => frameCount[s] <= MaxFrames
    /\ InBox(gateBox, Close(s)) => stream[s] = "closed" \/ agent[s] = "stopped"

Lasts(u, s) ==
    /\ uidOf[s] = u
    /\ ~InBox(box[s], "stop") /\ ~InBox(sends, Gate!Stop(s))
    /\ ~InBox(sends, Gate!SessionClosed(u))
    /\ Before(playBox, ClosedOf(u), LoginOf(s))
    /\ s \in greeted => u \in online /\ ~InBox(playBox, ClosedOf(u))
    /\ agent[s] = "live" \/ InBox(gateBox, Close(s))

SessionOf(u) ==
    /\ ~gateUp \/ u \in banned => sessions[u] = NoStream
    /\ sessions[u] # NoStream => Lasts(u, sessions[u])

Speaks(s) ==
    agent[s] = "live" =>
        sessions[uidOf[s]] = s \/ InBox(box[s], "stop") \/ InBox(sends, Gate!Stop(s))

Streaming == \A s \in Streams : OpeningOf(s) /\ Speaks(s)
Sessions == \A u \in Uids : SessionOf(u)

IInv == TypeOK /\ Streaming /\ Sessions

-----------------------------------------------------------------------------
(* Messages.                                                               *)
LEMMA MsgTypes ==
    /\ \A s \in Streams : /\ Open(s) \in Gate!GateMsgs /\ Close(s) \in Gate!GateMsgs
                          /\ Gate!Stop(s) \in Gate!Sends /\ Gate!Login(s) \in Gate!Sends
                          /\ \A r \in {"opened", "refused"} : Gate!Respond(s, r) \in Gate!Sends
    /\ \A k \in InputKinds, u \in Uids : [type |-> k, uid |-> u] \in Gate!GateMsgs
    /\ \A u \in Uids : Gate!SessionClosed(u) \in Gate!Sends /\ ClosedOf(u) \in Play!PlayMsgs
    /\ \A m \in {"login", "frame"}, s \in Streams : [type |-> m, stream |-> s] \in Play!PlayMsgs
BY DEF Open, Close, ClosedOf, InputKinds, Gate!GateMsgs, Gate!Sends, Gate!Stop, Gate!Login,
       Gate!Respond, Gate!SessionClosed, Play!PlayMsgs

LEMMA SendParts ==
    ASSUME NEW m \in Gate!Sends
    PROVE  /\ m.to \in {"agent", "stream", "play"}
           /\ m.to = "agent" => m.stream \in Streams /\ m.msg \in {"stop", "login"}
           /\ m.to = "agent" /\ m.msg = "stop" => m = Gate!Stop(m.stream)
           /\ m.to = "stream" => m.stream \in Streams /\ m.msg \in {"opened", "refused"}
           /\ m.to = "play" => m.uid \in Uids /\ m = Gate!SessionClosed(m.uid)
BY DEF Gate!Sends, Gate!Stop, Gate!SessionClosed

LEMMA MsgsDiffer ==
    /\ \A s, t : Open(s) # Close(t) /\ (Open(s) = Open(t) => s = t) /\ (Close(s) = Close(t) => s = t)
    /\ \A k \in InputKinds : \A s, u : Open(s) # [type |-> k, uid |-> u]
                                       /\ Close(s) # [type |-> k, uid |-> u]
    /\ \A s, t : Gate!Stop(s) # Gate!Login(t) /\ (Gate!Stop(s) = Gate!Stop(t) => s = t)
    /\ \A s, t, r : Gate!Stop(s) # Gate!Respond(t, r)
    /\ \A s, u : Gate!Stop(s) # Gate!SessionClosed(u)
    /\ \A u, v : Gate!SessionClosed(u) = Gate!SessionClosed(v) => u = v
    /\ \A u, s : Gate!SessionClosed(u) # Gate!Login(s)
    /\ \A u, s, r : Gate!SessionClosed(u) # Gate!Respond(s, r)
    /\ \A s, t : LoginOf(s) = LoginOf(t) => s = t
    /\ \A u, v : ClosedOf(u) = ClosedOf(v) => u = v
    /\ \A s, u : LoginOf(s) # ClosedOf(u)
    /\ \A s, t, u : [type |-> "frame", stream |-> t] # LoginOf(s)
                    /\ [type |-> "frame", stream |-> t] # ClosedOf(u)
BY DEF Open, Close, LoginOf, ClosedOf, InputKinds, Gate!Stop, Gate!Login, Gate!Respond,
       Gate!SessionClosed

(* The parts of the state's type that the steps below rely on.             *)
LEMMA Types ==
    ASSUME TypeOK
    PROVE  /\ sessions \in [Uids -> Streams \cup {NoStream}]
           /\ banned \subseteq Uids /\ gateUp \in BOOLEAN
           /\ gateBox \in Seq(Gate!GateMsgs) /\ sends \in Seq(Gate!Sends)
           /\ answer \in [Streams -> {"none", "opened", "refused"}]
           /\ agent \in [Streams -> {"none", "live", "stopped"}]
           /\ box \in [Streams -> Seq(Agent!AgentMsgs)]
           /\ \A s \in Streams : Len(box[s]) \in 0..Capacity
           /\ frameCount \in [Streams -> 0..(MaxFrames + 1)]
           /\ stream \in [Streams -> {"idle", "opening", "open", "closed", "failed"}]
           /\ sent \in [Streams -> 0..MaxSent] /\ uidOf \in [Streams -> Uids \cup {NoUid}]
           /\ online \subseteq Uids /\ greeted \subseteq Streams
           /\ playBox \in Seq(Play!PlayMsgs) /\ inputs \in 0..MaxInputs
BY DEF TypeOK, Gate!TypeOK, Agent!TypeOK, Stream!TypeOK, Play!TypeOK

(* GateActor takes the first message of its mailbox.                       *)
LEMMA GateTakes ==
    ASSUME TypeOK, NEW m, Gate!Handle(m)
    PROVE  /\ gateUp /\ sends = <<>> /\ InBox(gateBox, m)
           /\ gateBox' \in Seq(Gate!GateMsgs)
           /\ \A x : InBox(gateBox', x) => InBox(gateBox, x)
           /\ \A x : x # m /\ InBox(gateBox, x) => InBox(gateBox', x)
           /\ \A x : Single(gateBox, x) => Single(gateBox', x)
           /\ Single(gateBox, m) => ~InBox(gateBox', m)
<1>1. gateUp /\ sends = <<>> /\ gateBox # <<>> /\ Head(gateBox) = m /\ gateBox' = Tail(gateBox)
  BY DEF Gate!Handle
<1>2. gateBox \in Seq(Gate!GateMsgs)
  BY Types
<1>3. QED
  BY <1>1, <1>2, TailBox

(* Another process sends GateActor a message, which it gets unless it has  *)
(* stopped.                                                                *)
LEMMA GateGets ==
    ASSUME TypeOK, NEW m \in Gate!GateMsgs,
           gateBox' = IF gateUp THEN Append(gateBox, m) ELSE gateBox
    PROVE  /\ gateBox' \in Seq(Gate!GateMsgs)
           /\ \A x : InBox(gateBox', x) <=> InBox(gateBox, x) \/ (gateUp /\ x = m)
           /\ \A x : Single(gateBox, x) /\ (x = m => ~InBox(gateBox, x)) => Single(gateBox', x)
<1>1. gateBox \in Seq(Gate!GateMsgs) /\ gateUp \in BOOLEAN
  BY Types
<1>2. CASE gateUp
  BY <1>1, <1>2, AppendBox
<1>3. CASE ~gateUp
  BY <1>1, <1>3
<1>4. QED
  BY <1>1, <1>2, <1>3

(* GateActor's handler makes the next of its sends.                        *)
LEMMA SendTaken ==
    ASSUME TypeOK, sends # <<>>, sends' = Tail(sends)
    PROVE  /\ Head(sends) \in Gate!Sends /\ InBox(sends, Head(sends))
           /\ sends' \in Seq(Gate!Sends)
           /\ \A x : InBox(sends', x) => InBox(sends, x)
           /\ \A x : x # Head(sends) /\ InBox(sends, x) => InBox(sends', x)
<1>1. sends \in Seq(Gate!Sends)
  BY Types
<1>2. QED
  BY <1>1, TailBox

(* A message joins the mailbox of an agent.                                *)
LEMMA AgentGets ==
    ASSUME TypeOK, NEW s \in Streams, NEW m \in Agent!AgentMsgs, Len(box[s]) < Capacity,
           box' = [box EXCEPT ![s] = Append(@, m)]
    PROVE  /\ box' \in [Streams -> Seq(Agent!AgentMsgs)]
           /\ \A t \in Streams : Len(box'[t]) \in 0..Capacity
           /\ \A t \in Streams : t # s => box'[t] = box[t]
           /\ \A x : InBox(box'[s], x) <=> InBox(box[s], x) \/ x = m
<1>1. /\ box \in [Streams -> Seq(Agent!AgentMsgs)]
      /\ \A t \in Streams : Len(box[t]) \in 0..Capacity
      /\ Capacity \in Nat
  BY Types, GateAssumption DEF GateAssumption
<1>2. box[s] \in Seq(Agent!AgentMsgs)
  BY <1>1
<1>3. /\ Append(box[s], m) \in Seq(Agent!AgentMsgs)
      /\ Len(Append(box[s], m)) = Len(box[s]) + 1
      /\ \A x : InBox(Append(box[s], m), x) <=> InBox(box[s], x) \/ x = m
  BY <1>2, AppendBox
<1>4. \A t \in Streams : box'[t] = IF t = s THEN Append(box[s], m) ELSE box[t]
  BY <1>1
<1>5. box' \in [Streams -> Seq(Agent!AgentMsgs)]
  BY <1>1, <1>3
<1>6. Len(Append(box[s], m)) \in 0..Capacity
  BY <1>1, <1>3
<1>7. QED
  BY <1>1, <1>3, <1>4, <1>5, <1>6

(* A message joins Play's mailbox: order is kept unless it is one that     *)
(* must come before what is there.                                         *)
LEMMA PlayGets ==
    ASSUME TypeOK, NEW m \in Play!PlayMsgs, playBox' = Append(playBox, m)
    PROVE  /\ playBox' \in Seq(Play!PlayMsgs)
           /\ \A x : InBox(playBox', x) <=> InBox(playBox, x) \/ x = m
           /\ \A x, y : x # y /\ Before(playBox, x, y) /\ (x = m => ~InBox(playBox, y))
                          => Before(playBox', x, y)
<1>1. playBox \in Seq(Play!PlayMsgs)
  BY Types
<1>2. QED
  BY <1>1, AppendBox, AppendOrder

(* Play takes the first message of its mailbox.                            *)
LEMMA PlayTakes ==
    ASSUME TypeOK, NEW m, Play!Handle(m)
    PROVE  /\ InBox(playBox, m) /\ playBox' \in Seq(Play!PlayMsgs)
           /\ \A x : InBox(playBox', x) => InBox(playBox, x)
           /\ \A x, y : Before(playBox, x, y) => Before(playBox', x, y)
           /\ \A x : Before(playBox, x, m) => ~InBox(playBox, x)
<1>1. playBox # <<>> /\ Head(playBox) = m /\ playBox' = Tail(playBox)
  BY DEF Play!Handle
<1>2. playBox \in Seq(Play!PlayMsgs)
  BY Types
<1>3. QED
  BY <1>1, <1>2, TailBox, TailOrder

-----------------------------------------------------------------------------
(* GateActor.                                                              *)

(* A type invariant of the next state, from the variables that a step of   *)
(* GateActor's changes.                                                    *)
LEMMA GateTypes ==
    ASSUME TypeOK, UNCHANGED <<stream, sent, frameCount, playOnly, inputs>>,
           sessions' \in [Uids -> Streams \cup {NoStream}], banned' \subseteq Uids,
           gateUp' \in BOOLEAN, gateBox' \in Seq(Gate!GateMsgs), sends' \in Seq(Gate!Sends),
           answer' \in [Streams -> {"none", "opened", "refused"}],
           agent' \in [Streams -> {"none", "live", "stopped"}],
           box' \in [Streams -> Seq(Agent!AgentMsgs)],
           \A s \in Streams : Len(box'[s]) \in 0..Capacity,
           playBox' \in Seq(Play!PlayMsgs), UNCHANGED uidOf
    PROVE  TypeOK'
BY DEF TypeOK, Gate!TypeOK, Agent!TypeOK, Stream!TypeOK, Play!TypeOK, playOnly

(* What a login leaves to send: the stop of the agent it replaces, its own *)
(* login and the response.                                                 *)
LEMMA OpenSendsHold ==
    ASSUME TypeOK, NEW s \in Streams, NEW u \in Uids
    PROVE  /\ Gate!OpenSends(s, u) \in Seq(Gate!Sends)
           /\ \A x : InBox(Gate!OpenSends(s, u), x) <=>
                       \/ sessions[u] # NoStream /\ x = Gate!Stop(sessions[u])
                       \/ x = Gate!Login(s) \/ x = Gate!Respond(s, "opened")
<1>1. sessions[u] \in Streams \cup {NoStream}
  BY Types
<1>2. Gate!Login(s) \in Gate!Sends /\ Gate!Respond(s, "opened") \in Gate!Sends
  BY MsgTypes
<1>3. /\ <<Gate!Login(s), Gate!Respond(s, "opened")>> \in Seq(Gate!Sends)
      /\ \A x : InBox(<<Gate!Login(s), Gate!Respond(s, "opened")>>, x)
                  <=> x = Gate!Login(s) \/ x = Gate!Respond(s, "opened")
  BY <1>2, ShortLists
<1>4. CASE sessions[u] = NoStream
  BY <1>3, <1>4, JoinBox, ShortLists DEF Gate!OpenSends
<1>5. CASE sessions[u] # NoStream
  <2>1. <<Gate!Stop(sessions[u])>> \in Seq(Gate!Sends)
    BY <1>1, <1>5, MsgTypes
  <2>2. PICK p : p = <<Gate!Stop(sessions[u])>>
    OBVIOUS
  <2>3. PICK q : q = <<Gate!Login(s), Gate!Respond(s, "opened")>>
    OBVIOUS
  <2>4. Gate!OpenSends(s, u) = p \o q
    BY <1>5, <2>2, <2>3 DEF Gate!OpenSends
  <2>5. \A x : InBox(p, x) <=> x = Gate!Stop(sessions[u])
    BY <2>2, ShortLists
  <2>6. p \in Seq(Gate!Sends) /\ q \in Seq(Gate!Sends)
    BY <1>3, <2>1, <2>2, <2>3
  <2>7. p \o q \in Seq(Gate!Sends) /\ \A x : InBox(p \o q, x) <=> InBox(p, x) \/ InBox(q, x)
    BY <2>6, JoinBox
  <2>8. \A x : InBox(q, x) <=> x = Gate!Login(s) \/ x = Gate!Respond(s, "opened")
    BY <1>3, <2>3
  <2>9. QED
    BY <1>5, <2>4, <2>5, <2>7, <2>8
<1>6. QED
  BY <1>4, <1>5

(* A first message opens the session of its stream, or is refused.         *)
LEMMA OpensKeeps ==
    ASSUME IInv, NEW s \in Streams, Gate!onOpenSession(s),
           UNCHANGED <<stream, sent, frameCount, playOnly, inputs>>
    PROVE  IInv'
<1>1. TypeOK /\ Streaming /\ Sessions
  BY DEF IInv
<1>2. UNCHANGED <<stream, sent, frameCount, online, greeted, inputs, banned, gateUp, uidOf,
                  answer, box, playBox>>
  BY DEF Gate!onOpenSession, playOnly
<1>3. /\ gateUp /\ sends = <<>> /\ InBox(gateBox, Open(s))
      /\ gateBox' \in Seq(Gate!GateMsgs)
      /\ \A x : InBox(gateBox', x) => InBox(gateBox, x)
      /\ \A x : x # Open(s) /\ InBox(gateBox, x) => InBox(gateBox', x)
      /\ \A x : Single(gateBox, x) => Single(gateBox', x)
      /\ Single(gateBox, Open(s)) => ~InBox(gateBox', Open(s))
  <2>1. Gate!Handle(Open(s))
    BY DEF Gate!onOpenSession, Open
  <2>2. QED
    BY <1>1, <2>1, GateTakes
<1>4. /\ agent[s] = "none" /\ Unopened(s) /\ stream[s] # "idle"
      /\ ~InBox(gateBox', Open(s))
  BY <1>1, <1>3 DEF Streaming, OpeningOf
<1>5. uidOf[s] \in Uids \cup {NoUid} /\ agent \in [Streams -> {"none", "live", "stopped"}]
      /\ sessions \in [Uids -> Streams \cup {NoStream}]
  BY <1>1, Types
<1>6. ASSUME NEW t \in Streams
      PROVE  /\ InBox(gateBox', Open(t)) => InBox(gateBox, Open(t)) /\ t # s
             /\ Single(gateBox', Open(t))
             /\ InBox(gateBox', Close(t)) <=> InBox(gateBox, Close(t))
  BY <1>1, <1>3, <1>4, MsgsDiffer DEF Streaming, OpeningOf
<1>7. CASE /\ Gate!Refuses(uidOf[s])
           /\ sends' = <<Gate!Respond(s, "refused")>>
           /\ UNCHANGED <<sessions, agent>>
  <2>1. /\ sends' \in Seq(Gate!Sends)
        /\ \A t : ~InBox(sends, Gate!Stop(t)) /\ ~InBox(sends', Gate!Stop(t))
        /\ \A u : ~InBox(sends, Gate!SessionClosed(u)) /\ ~InBox(sends', Gate!SessionClosed(u))
    <3>1. Gate!Respond(s, "refused") \in Gate!Sends
      BY MsgTypes
    <3>2. QED
      BY <1>3, <1>7, <3>1, ShortLists, MsgsDiffer
  <2>2. TypeOK'
    BY <1>1, <1>2, <1>3, <1>7, <2>1, Types, GateTypes DEF playOnly
  <2>3. Streaming'
    BY <1>1, <1>2, <1>6, <1>7, <2>1 DEF Streaming, OpeningOf, Unopened, Speaks
  <2>4. Sessions'
    BY <1>1, <1>2, <1>5, <1>6, <1>7, <2>1 DEF Sessions, SessionOf, Lasts
  <2>5. QED
    BY <2>2, <2>3, <2>4 DEF IInv
<1>8. CASE /\ ~Gate!Refuses(uidOf[s])
           /\ sends' = Gate!OpenSends(s, uidOf[s])
           /\ sessions' = [sessions EXCEPT ![uidOf[s]] = s]
           /\ agent' = [agent EXCEPT ![s] = "live"]
  <2>0. PICK u : u = uidOf[s]
    OBVIOUS
  <2>1. u \in Uids /\ u \notin banned /\ s # NoStream
    BY <1>5, <1>8, <2>0, GateAssumption DEF Gate!Refuses, GateAssumption
  <2>2. /\ sends' \in Seq(Gate!Sends)
        /\ \A x : InBox(sends', x) <=>
                    \/ sessions[u] # NoStream /\ x = Gate!Stop(sessions[u])
                    \/ x = Gate!Login(s) \/ x = Gate!Respond(s, "opened")
        /\ \A x : ~InBox(sends, x)
    BY <1>1, <1>3, <1>8, <2>0, <2>1, OpenSendsHold, ShortLists
  <2>3. /\ \A v \in Uids : sessions'[v] = IF v = u THEN s ELSE sessions[v]
        /\ \A t \in Streams : agent'[t] = IF t = s THEN "live" ELSE agent[t]
        /\ sessions' \in [Uids -> Streams \cup {NoStream}]
        /\ agent' \in [Streams -> {"none", "live", "stopped"}]
    BY <1>5, <1>8, <2>0
  <2>4. TypeOK'
    BY <1>1, <1>2, <1>3, <2>2, <2>3, Types, GateTypes DEF playOnly
  <2>5. /\ \A t : InBox(sends', Gate!Stop(t)) <=> sessions[u] # NoStream /\ t = sessions[u]
        /\ \A v : ~InBox(sends', Gate!SessionClosed(v))
    BY <2>2, MsgsDiffer
  <2>6. ASSUME NEW t \in Streams
        PROVE  OpeningOf(t)'
    <3>1. OpeningOf(t) /\ (t # NoStream)
      BY <1>1, GateAssumption DEF Streaming, GateAssumption
    <3>2. agent'[t] = "none" => Unopened(t)'
      BY <1>2, <2>1, <2>3, <2>5, <3>1 DEF OpeningOf, Unopened
    <3>3. QED
      BY <1>2, <1>4, <1>6, <2>0, <2>1, <2>3, <3>1, <3>2 DEF OpeningOf
  <2>7. ASSUME NEW t \in Streams
        PROVE  Speaks(t)'
    <3>1. Speaks(t) /\ OpeningOf(t) /\ t # NoStream
      BY <1>1, GateAssumption DEF Streaming, GateAssumption
    <3>2. QED
      BY <1>2, <2>0, <2>1, <2>2, <2>3, <2>5, <3>1 DEF Speaks, OpeningOf
  <2>8. ASSUME NEW v \in Uids
        PROVE  SessionOf(v)'
    <3>1. SessionOf(v) /\ SessionOf(u)
      BY <1>1, <2>1 DEF Sessions
    <3>2. CASE v = u
      <4>1. Before(playBox, ClosedOf(u), LoginOf(s))
        BY <1>4 DEF Unopened, Before, InBox
      <4>2. ~InBox(box[s], "stop")
        BY <1>4, ShortLists DEF Unopened
      <4>3. Lasts(u, s)'
        BY <1>2, <1>4, <2>0, <2>1, <2>3, <2>5, <4>1, <4>2 DEF Lasts, Unopened
      <4>4. QED
        BY <1>2, <1>3, <2>1, <2>3, <3>2, <4>3 DEF SessionOf
    <3>3. CASE v # u
      <4>1. sessions'[v] = sessions[v] /\ sessions[v] \in Streams \cup {NoStream}
        BY <1>5, <2>3, <3>3
      <4>2. ASSUME sessions[v] # NoStream
            PROVE  Lasts(v, sessions[v])'
        <5>1. Lasts(v, sessions[v])
          BY <3>1, <4>2 DEF SessionOf
        <5>2. sessions[u] # sessions[v]
          BY <3>1, <3>3, <4>2 DEF SessionOf, Lasts
        <5>3. sessions[v] # s /\ sessions[v] \in Streams
          BY <1>4, <4>1, <4>2 DEF Unopened
        <5>4. QED
          BY <1>2, <1>6, <2>3, <2>5, <4>1, <5>1, <5>2, <5>3 DEF Lasts
      <4>3. QED
        BY <1>2, <3>1, <4>1, <4>2 DEF SessionOf
    <3>4. QED
      BY <3>2, <3>3
  <2>9. QED
    BY <2>4, <2>6, <2>7, <2>8 DEF IInv, Streaming, Sessions
<1>9. QED
  BY <1>7, <1>8 DEF Gate!onOpenSession

(* Of a message that is no stream's first, GateActor's mailbox keeps what  *)
(* the invariant says.                                                     *)
LEMMA GateHandles ==
    ASSUME IInv, NEW m, Gate!Handle(m), \A s \in Streams : m # Open(s)
    PROVE  /\ gateUp /\ sends = <<>> /\ InBox(gateBox, m)
           /\ gateBox' \in Seq(Gate!GateMsgs)
           /\ \A t \in Streams : /\ InBox(gateBox', Open(t)) <=> InBox(gateBox, Open(t))
                                 /\ Single(gateBox', Open(t))
                                 /\ InBox(gateBox', Close(t)) => InBox(gateBox, Close(t))
                                 /\ m # Close(t) /\ InBox(gateBox, Close(t))
                                      => InBox(gateBox', Close(t))
<1>1. TypeOK /\ \A t \in Streams : Single(gateBox, Open(t))
  BY DEF IInv, Streaming, OpeningOf
<1>2. QED
  BY <1>1, GateTakes

(* A message that ends no session: a push that reaches its agent or finds  *)
(* no session, a late close, a ban of a player who is offline.             *)
LEMMA SessionsStay ==
    ASSUME IInv, NEW m, Gate!Handle(m),
           \A s \in Streams : m # Open(s),
           \A u \in Uids : sessions[u] # NoStream => m # Close(sessions[u]),
           banned' \subseteq Uids, \A u \in banned' : sessions[u] = NoStream,
           box' \in [Streams -> Seq(Agent!AgentMsgs)],
           \A s \in Streams : /\ Len(box'[s]) \in 0..Capacity
                              /\ agent[s] = "none" => box'[s] = box[s]
                              /\ InBox(box'[s], "stop") <=> InBox(box[s], "stop"),
           UNCHANGED <<sessions, sends, gateUp, uidOf, answer, agent, playBox>>,
           UNCHANGED <<stream, sent, frameCount, playOnly, inputs>>
    PROVE  IInv'
<1>1. TypeOK /\ Streaming /\ Sessions
  BY DEF IInv
<1>2. /\ gateBox' \in Seq(Gate!GateMsgs)
      /\ \A t \in Streams : /\ InBox(gateBox', Open(t)) <=> InBox(gateBox, Open(t))
                            /\ Single(gateBox', Open(t))
                            /\ InBox(gateBox', Close(t)) => InBox(gateBox, Close(t))
                            /\ m # Close(t) /\ InBox(gateBox, Close(t))
                                 => InBox(gateBox', Close(t))
  BY GateHandles
<1>3. TypeOK'
  BY <1>1, <1>2, Types, GateTypes
<1>4. UNCHANGED <<online, greeted>>
  BY DEF playOnly
<1>5. ASSUME NEW t \in Streams
      PROVE  OpeningOf(t)' /\ Speaks(t)'
  BY <1>1, <1>2, <1>4 DEF Streaming, OpeningOf, Unopened, Speaks
<1>6. ASSUME NEW u \in Uids
      PROVE  SessionOf(u)'
  <2>1. SessionOf(u) /\ sessions[u] \in Streams \cup {NoStream}
    BY <1>1, Types DEF Sessions
  <2>2. sessions[u] # NoStream => Lasts(u, sessions[u])'
    BY <1>2, <1>4, <2>1 DEF SessionOf, Lasts
  <2>3. QED
    BY <2>1, <2>2 DEF SessionOf
<1>7. QED
  BY <1>3, <1>5, <1>6 DEF IInv, Streaming, Sessions

(* closeCurrent: the end of a session is on its way to its agent and to    *)
(* Play.                                                                   *)
LEMMA CloseKeeps ==
    ASSUME IInv, NEW m, Gate!Handle(m), NEW u \in Uids, sessions[u] # NoStream,
           \A s \in Streams : m # Open(s) /\ (m = Close(s) => s = sessions[u]),
           banned' \subseteq banned \cup {u}, Gate!closeCurrent(u),
           UNCHANGED <<gateUp, uidOf, answer, agent, box, playBox>>,
           UNCHANGED <<stream, sent, frameCount, playOnly, inputs>>
    PROVE  IInv'
<1>1. TypeOK /\ Streaming /\ Sessions
  BY DEF IInv
<1>2. /\ gateUp /\ sends = <<>> /\ gateBox' \in Seq(Gate!GateMsgs)
      /\ \A t \in Streams : /\ InBox(gateBox', Open(t)) <=> InBox(gateBox, Open(t))
                            /\ Single(gateBox', Open(t))
                            /\ InBox(gateBox', Close(t)) => InBox(gateBox, Close(t))
                            /\ m # Close(t) /\ InBox(gateBox, Close(t))
                                 => InBox(gateBox', Close(t))
  BY GateHandles
<1>3. PICK s \in Streams : s = sessions[u]
  BY <1>1, Types
<1>4. /\ sends' \in Seq(Gate!Sends)
      /\ \A x : InBox(sends', x) <=> x = Gate!Stop(s) \/ x = Gate!SessionClosed(u)
      /\ \A x : ~InBox(sends, x)
  <2>1. Gate!Stop(s) \in Gate!Sends /\ Gate!SessionClosed(u) \in Gate!Sends
    BY MsgTypes
  <2>2. sends' = <<Gate!Stop(s), Gate!SessionClosed(u)>>
    BY <1>3 DEF Gate!closeCurrent
  <2>3. QED
    BY <1>2, <2>1, <2>2, ShortLists
<1>5. /\ sessions' \in [Uids -> Streams \cup {NoStream}]
      /\ \A v \in Uids : sessions'[v] = IF v = u THEN NoStream ELSE sessions[v]
  BY <1>1, Types DEF Gate!closeCurrent
<1>6. TypeOK'
  BY <1>1, <1>2, <1>4, <1>5, Types, GateTypes
<1>7. UNCHANGED <<online, greeted>> /\ NoStream \notin Streams
  BY GateAssumption DEF playOnly, GateAssumption
<1>8. /\ \A t : InBox(sends', Gate!Stop(t)) <=> t = s
      /\ \A v : InBox(sends', Gate!SessionClosed(v)) <=> v = u
  BY <1>4, MsgsDiffer
<1>9. ASSUME NEW t \in Streams
      PROVE  OpeningOf(t)'
  <2>1. OpeningOf(t)
    BY <1>1 DEF Streaming
  <2>2. agent[t] = "none" => Unopened(t)'
    BY <1>3, <1>5, <1>7, <1>8, <2>1 DEF OpeningOf, Unopened
  <2>3. QED
    BY <1>2, <2>1, <2>2 DEF OpeningOf
<1>10. ASSUME NEW t \in Streams
       PROVE  Speaks(t)'
  <2>1. Speaks(t) /\ OpeningOf(t)
    BY <1>1 DEF Streaming
  <2>2. QED
    BY <1>3, <1>4, <1>5, <1>8, <2>1 DEF Speaks, OpeningOf
<1>11. ASSUME NEW v \in Uids
       PROVE  SessionOf(v)'
  <2>1. SessionOf(v) /\ SessionOf(u) /\ sessions[v] \in Streams \cup {NoStream}
    BY <1>1, Types DEF Sessions
  <2>2. CASE v = u
    BY <1>5, <2>2 DEF SessionOf
  <2>3. CASE v # u
    <3>1. ASSUME sessions[v] # NoStream
          PROVE  Lasts(v, sessions[v])'
      <4>1. Lasts(v, sessions[v]) /\ sessions[v] # s /\ sessions[v] \in Streams
        BY <1>3, <2>1, <2>3, <3>1 DEF SessionOf, Lasts
      <4>2. QED
        BY <1>2, <1>3, <1>5, <1>7, <1>8, <2>3, <4>1 DEF Lasts
    <3>2. QED
      BY <1>5, <2>1, <2>3, <3>1 DEF SessionOf
  <2>4. QED
    BY <2>2, <2>3
<1>12. QED
  BY <1>6, <1>9, <1>10, <1>11 DEF IInv, Streaming, Sessions

LEMMA ClosesKeeps ==
    ASSUME IInv, NEW s \in Streams, Gate!onCloseSession(s),
           UNCHANGED <<stream, sent, frameCount, playOnly, inputs>>
    PROVE  IInv'
<1>1. TypeOK /\ Sessions /\ s # NoStream
  BY GateAssumption DEF IInv, GateAssumption
<1>2. /\ Gate!Handle(Close(s))
      /\ UNCHANGED <<banned, gateUp, uidOf, answer, agent, box, playBox>>
  BY DEF Gate!onCloseSession, Close
<1>3. \A t \in Streams : Close(s) # Open(t) /\ (Close(s) = Close(t) => t = s)
  BY MsgsDiffer
<1>4. CASE Gate!Owns(s)
  <2>1. /\ uidOf[s] \in Uids /\ sessions[uidOf[s]] = s
        /\ Gate!closeCurrent(uidOf[s])
    BY <1>4 DEF Gate!Owns, Gate!onCloseSession
  <2>2. QED
    BY <1>1, <1>2, <1>3, <2>1, CloseKeeps
<1>5. CASE ~Gate!Owns(s)
  <2>1. UNCHANGED <<sessions, sends>>
    BY <1>5 DEF Gate!onCloseSession
  <2>2. ASSUME NEW u \in Uids, sessions[u] # NoStream
        PROVE  Close(s) # Close(sessions[u])
    <3>1. sessions[u] \in Streams /\ uidOf[sessions[u]] = u
      BY <1>1, <2>2, Types DEF Sessions, SessionOf, Lasts
    <3>2. QED
      BY <1>3, <1>5, <3>1 DEF Gate!Owns
  <2>3. /\ banned' \subseteq Uids /\ \A u \in banned' : sessions[u] = NoStream
        /\ box' \in [Streams -> Seq(Agent!AgentMsgs)]
        /\ \A t \in Streams : Len(box'[t]) \in 0..Capacity
    BY <1>1, <1>2, Types DEF Sessions, SessionOf
  <2>4. QED
    BY <1>2, <1>3, <2>1, <2>2, <2>3, SessionsStay
<1>6. QED
  BY <1>4, <1>5

LEMMA PushesKeep ==
    ASSUME IInv, NEW u \in Uids, Gate!onPushToMsg(u),
           UNCHANGED <<stream, sent, frameCount, playOnly, inputs>>
    PROVE  IInv'
<1>1. TypeOK /\ Sessions /\ Streaming
  BY DEF IInv
<1>2. PICK m : m = [type |-> "push", uid |-> u]
  OBVIOUS
<1>3. /\ Gate!Handle(m)
      /\ UNCHANGED <<banned, gateUp, uidOf, answer, agent, playBox>>
  BY <1>2 DEF Gate!onPushToMsg
<1>4. \A s : m # Open(s) /\ m # Close(s)
  BY <1>2, MsgsDiffer DEF InputKinds
<1>5. /\ banned' \subseteq Uids /\ \A v \in banned' : sessions[v] = NoStream
      /\ box \in [Streams -> Seq(Agent!AgentMsgs)]
      /\ \A t \in Streams : Len(box[t]) \in 0..Capacity
  BY <1>1, <1>3, Types DEF Sessions, SessionOf
<1>6. CASE sessions[u] = NoStream /\ UNCHANGED <<sessions, sends, box>>
  BY <1>3, <1>4, <1>5, <1>6, SessionsStay
<1>7. CASE /\ sessions[u] # NoStream
           /\ agent[sessions[u]] = "live" /\ Gate!HasRoom(sessions[u])
           /\ box' = [box EXCEPT ![sessions[u]] = Append(@, "push")]
           /\ UNCHANGED <<sessions, sends>>
  <2>1. PICK s \in Streams : s = sessions[u]
    BY <1>1, <1>7, Types
  <2>2. /\ box' \in [Streams -> Seq(Agent!AgentMsgs)]
        /\ \A t \in Streams : Len(box'[t]) \in 0..Capacity
        /\ \A t \in Streams : t # s => box'[t] = box[t]
        /\ \A x : InBox(box'[s], x) <=> InBox(box[s], x) \/ x = "push"
    BY <1>1, <1>7, <2>1, AgentGets DEF Gate!HasRoom, Agent!AgentMsgs
  <2>3. \A t \in Streams : /\ agent[t] = "none" => box'[t] = box[t]
                           /\ InBox(box'[t], "stop") <=> InBox(box[t], "stop")
    BY <1>7, <2>1, <2>2
  <2>4. QED
    BY <1>3, <1>4, <1>5, <1>7, <2>2, <2>3, SessionsStay
<1>8. CASE sessions[u] # NoStream /\ Gate!closeCurrent(u) /\ UNCHANGED box
  BY <1>3, <1>4, <1>8, CloseKeeps
<1>9. QED
  BY <1>6, <1>7, <1>8 DEF Gate!onPushToMsg

LEMMA BansKeep ==
    ASSUME IInv, NEW u \in Uids, Gate!onBanUID(u) \/ Gate!onUnbanUID(u),
           UNCHANGED <<stream, sent, frameCount, playOnly, inputs>>
    PROVE  IInv'
<1>1. TypeOK /\ Sessions
  BY DEF IInv
<1>2. UNCHANGED <<gateUp, uidOf, answer, agent, box, playBox>>
  BY DEF Gate!onBanUID, Gate!onUnbanUID
<1>3. /\ banned \subseteq Uids /\ \A v \in banned : sessions[v] = NoStream
      /\ box' \in [Streams -> Seq(Agent!AgentMsgs)]
      /\ \A t \in Streams : Len(box'[t]) \in 0..Capacity
  BY <1>1, <1>2, Types DEF Sessions, SessionOf
<1>4. CASE Gate!onBanUID(u)
  <2>1. PICK m : m = [type |-> "ban", uid |-> u]
    OBVIOUS
  <2>2. Gate!Handle(m) /\ banned' = banned \cup {u}
    BY <1>4, <2>1 DEF Gate!onBanUID
  <2>3. \A s : m # Open(s) /\ m # Close(s)
    BY <2>1, MsgsDiffer DEF InputKinds
  <2>4. CASE sessions[u] # NoStream
    <3>1. Gate!closeCurrent(u)
      BY <1>4, <2>4 DEF Gate!onBanUID
    <3>2. QED
      BY <1>2, <2>2, <2>3, <2>4, <3>1, CloseKeeps
  <2>5. CASE sessions[u] = NoStream
    <3>1. UNCHANGED <<sessions, sends>>
      BY <1>4, <2>5 DEF Gate!onBanUID
    <3>2. QED
      BY <1>2, <1>3, <2>2, <2>3, <2>5, <3>1, SessionsStay
  <2>6. QED
    BY <2>4, <2>5
<1>5. CASE Gate!onUnbanUID(u)
  <2>1. PICK m : m = [type |-> "unban", uid |-> u]
    OBVIOUS
  <2>2. Gate!Handle(m) /\ banned' = banned \ {u} /\ UNCHANGED <<sessions, sends>>
    BY <1>5, <2>1 DEF Gate!onUnbanUID
  <2>3. \A s : m # Open(s) /\ m # Close(s)
    BY <2>1, MsgsDiffer DEF InputKinds
  <2>4. QED
    BY <1>2, <1>3, <2>2, <2>3, SessionsStay
<1>6. QED
  BY <1>4, <1>5

(* The next of GateActor's sends: the type that the step leaves, and which *)
(* stops and ends of sessions are still to be sent.                        *)
LEMMA SendsLeft ==
    ASSUME TypeOK, sends # <<>>, sends' = Tail(sends)
    PROVE  /\ Head(sends) \in Gate!Sends /\ sends' \in Seq(Gate!Sends)
           /\ InBox(sends, Head(sends))
           /\ \A s : InBox(sends', Gate!Stop(s)) => InBox(sends, Gate!Stop(s))
           /\ \A s : Head(sends) # Gate!Stop(s) /\ InBox(sends, Gate!Stop(s))
                       => InBox(sends', Gate!Stop(s))
           /\ \A u : InBox(sends', Gate!SessionClosed(u)) => InBox(sends, Gate!SessionClosed(u))
BY SendTaken

LEMMA SendToAgentKeeps ==
    ASSUME IInv, Gate!SendToAgent,
           UNCHANGED <<stream, sent, frameCount, playOnly, inputs>>
    PROVE  IInv'
<1>1. TypeOK /\ Streaming /\ Sessions
  BY DEF IInv
<1>2. /\ sends # <<>> /\ Head(sends).to = "agent" /\ sends' = Tail(sends)
      /\ UNCHANGED <<sessions, banned, gateUp, gateBox, uidOf, answer, agent, playBox>>
      /\ UNCHANGED <<online, greeted>>
  BY DEF Gate!SendToAgent, playOnly
<1>3. PICK h \in Gate!Sends : h = Head(sends)
  BY <1>1, <1>2, SendsLeft
<1>4. /\ sends' \in Seq(Gate!Sends)
      /\ InBox(sends, h)
      /\ \A t : InBox(sends', Gate!Stop(t)) => InBox(sends, Gate!Stop(t))
      /\ \A t : h # Gate!Stop(t) /\ InBox(sends, Gate!Stop(t)) => InBox(sends', Gate!Stop(t))
      /\ \A u : InBox(sends', Gate!SessionClosed(u)) => InBox(sends, Gate!SessionClosed(u))
  BY <1>1, <1>2, <1>3, SendsLeft
<1>5. PICK s \in Streams : s = h.stream /\ h.msg \in {"stop", "login"}
                           /\ (h.msg = "stop" => h = Gate!Stop(s))
  BY <1>2, <1>3, SendParts
<1>6. \A t : h = Gate!Stop(t) => t = s /\ h.msg = "stop"
  BY <1>5 DEF Gate!Stop
<1>7. /\ box' \in [Streams -> Seq(Agent!AgentMsgs)]
      /\ \A t \in Streams : Len(box'[t]) \in 0..Capacity
      /\ \A t \in Streams : t # s \/ agent[t] # "live" => box'[t] = box[t]
      /\ agent[s] = "live" => \A x : InBox(box'[s], x) <=> InBox(box[s], x) \/ x = h.msg
  <2>1. CASE agent[s] = "live" /\ Gate!HasRoom(s) /\ box' = [box EXCEPT ![s] = Append(@, h.msg)]
    <3>1. h.msg \in Agent!AgentMsgs /\ Len(box[s]) < Capacity
      BY <1>5, <2>1 DEF Agent!AgentMsgs, Gate!HasRoom
    <3>2. /\ box' \in [Streams -> Seq(Agent!AgentMsgs)]
          /\ \A t \in Streams : Len(box'[t]) \in 0..Capacity
          /\ \A t \in Streams : t # s => box'[t] = box[t]
          /\ \A x : InBox(box'[s], x) <=> InBox(box[s], x) \/ x = h.msg
      BY <1>1, <2>1, <3>1, AgentGets
    <3>3. QED
      BY <2>1, <3>2
  <2>2. CASE agent[s] # "live" /\ UNCHANGED box
    BY <1>1, <2>2, Types
  <2>3. QED
    BY <1>3, <1>5, <2>1, <2>2 DEF Gate!SendToAgent
<1>8. TypeOK'
  BY <1>1, <1>2, <1>4, <1>7, Types, GateTypes
<1>9. ASSUME NEW t \in Streams
      PROVE  OpeningOf(t)' /\ Speaks(t)'
  <2>1. OpeningOf(t) /\ Speaks(t)
    BY <1>1 DEF Streaming
  <2>2. OpeningOf(t)'
    BY <1>2, <1>4, <1>7, <2>1 DEF OpeningOf, Unopened
  <2>3. Speaks(t)'
    BY <1>2, <1>4, <1>5, <1>6, <1>7, <2>1 DEF Speaks
  <2>4. QED
    BY <2>2, <2>3
<1>10. ASSUME NEW u \in Uids
       PROVE  SessionOf(u)'
  <2>1. SessionOf(u) /\ sessions[u] \in Streams \cup {NoStream}
    BY <1>1, Types DEF Sessions
  <2>2. ASSUME sessions[u] # NoStream
        PROVE  Lasts(u, sessions[u])'
    <3>1. Lasts(u, sessions[u]) /\ sessions[u] \in Streams
      BY <2>1, <2>2 DEF SessionOf
    <3>2. ~InBox(box'[sessions[u]], "stop")
      BY <1>3, <1>4, <1>5, <1>7, <3>1 DEF Lasts
    <3>3. QED
      BY <1>2, <1>4, <3>1, <3>2 DEF Lasts
  <2>3. QED
    BY <1>2, <2>1, <2>2 DEF SessionOf
<1>11. QED
  BY <1>8, <1>9, <1>10 DEF IInv, Streaming, Sessions

(* A response, or a SessionClosed to Play, is sent.                        *)
LEMMA OtherSendsKeep ==
    ASSUME IInv, Gate!SendResponse \/ Gate!notifySessionClosed,
           UNCHANGED <<stream, sent, frameCount, playOnly, inputs>>
    PROVE  IInv'
<1>1. TypeOK /\ Streaming /\ Sessions
  BY DEF IInv
<1>2. /\ sends # <<>> /\ Head(sends).to \in {"stream", "play"} /\ sends' = Tail(sends)
      /\ UNCHANGED <<sessions, banned, gateUp, gateBox, uidOf, agent, box>>
      /\ UNCHANGED <<online, greeted>>
  BY DEF Gate!SendResponse, Gate!notifySessionClosed, playOnly
<1>3. PICK h \in Gate!Sends : h = Head(sends)
  BY <1>1, <1>2, SendsLeft
<1>4. /\ sends' \in Seq(Gate!Sends)
      /\ InBox(sends, h)
      /\ \A t : InBox(sends', Gate!Stop(t)) => InBox(sends, Gate!Stop(t))
      /\ \A t : h # Gate!Stop(t) /\ InBox(sends, Gate!Stop(t)) => InBox(sends', Gate!Stop(t))
      /\ \A u : InBox(sends', Gate!SessionClosed(u)) => InBox(sends, Gate!SessionClosed(u))
  BY <1>1, <1>2, <1>3, SendsLeft
<1>5. \A t : h # Gate!Stop(t)
  BY <1>2, <1>3 DEF Gate!Stop
<1>6. ASSUME NEW t \in Streams
      PROVE  Speaks(t)'
  BY <1>1, <1>2, <1>4, <1>5 DEF Streaming, Speaks
<1>7. CASE Gate!SendResponse
  <2>1. /\ answer' \in [Streams -> {"none", "opened", "refused"}]
        /\ UNCHANGED playBox
    <3>1. h.stream \in Streams /\ h.msg \in {"opened", "refused"}
      BY <1>3, <1>7, SendParts DEF Gate!SendResponse
    <3>2. answer \in [Streams -> {"none", "opened", "refused"}]
      BY <1>1, Types
    <3>3. QED
      BY <1>3, <1>7, <3>1, <3>2 DEF Gate!SendResponse
  <2>2. TypeOK'
    BY <1>1, <1>2, <1>4, <2>1, Types, GateTypes
  <2>3. \A t \in Streams : OpeningOf(t)'
    BY <1>1, <1>2, <1>4, <2>1 DEF Streaming, OpeningOf, Unopened
  <2>4. \A u \in Uids : SessionOf(u)'
    BY <1>1, <1>2, <1>4, <2>1 DEF Sessions, SessionOf, Lasts
  <2>5. QED
    BY <1>6, <2>2, <2>3, <2>4 DEF IInv, Streaming, Sessions
<1>8. CASE Gate!notifySessionClosed
  <2>1. PICK v \in Uids : v = h.uid /\ h = Gate!SessionClosed(v)
    BY <1>3, <1>8, SendParts DEF Gate!notifySessionClosed
  <2>2. playBox' = Append(playBox, ClosedOf(v)) /\ UNCHANGED answer
    BY <1>3, <1>8, <2>1 DEF Gate!notifySessionClosed, ClosedOf
  <2>3. /\ playBox' \in Seq(Play!PlayMsgs)
        /\ \A x : InBox(playBox', x) <=> InBox(playBox, x) \/ x = ClosedOf(v)
        /\ \A x, y : x # y /\ Before(playBox, x, y) /\ (x = ClosedOf(v) => ~InBox(playBox, y))
                       => Before(playBox', x, y)
    BY <1>1, <2>1, <2>2, MsgTypes, PlayGets
  <2>4. TypeOK'
    BY <1>1, <1>2, <1>4, <2>2, <2>3, Types, GateTypes
  <2>5. \A t \in Streams : OpeningOf(t)'
    BY <1>1, <1>2, <1>4, <2>3, MsgsDiffer DEF Streaming, OpeningOf, Unopened
  <2>6. ASSUME NEW u \in Uids
        PROVE  SessionOf(u)'
    <3>1. SessionOf(u)
      BY <1>1 DEF Sessions
    <3>2. ASSUME sessions[u] # NoStream
          PROVE  Lasts(u, sessions[u])'
      <4>1. Lasts(u, sessions[u]) /\ u # v
        BY <1>4, <2>1, <3>1, <3>2 DEF SessionOf, Lasts
      <4>2. ClosedOf(u) # ClosedOf(v) /\ ClosedOf(u) # LoginOf(sessions[u])
        BY <4>1, MsgsDiffer
      <4>3. QED
        BY <1>2, <1>4, <2>3, <4>1, <4>2 DEF Lasts
    <3>3. QED
      BY <1>2, <3>1, <3>2 DEF SessionOf
  <2>7. QED
    BY <1>6, <2>4, <2>5, <2>6 DEF IInv, Streaming, Sessions
<1>9. QED
  BY <1>7, <1>8

(* The sequences of a finite set, each element once, hold all of it.       *)
LEMMA SomeOrder ==
    ASSUME NEW S, IsFiniteSet(S), NEW q \in Gate!SetToSeqs(S)
    PROVE  q \in Seq(S) /\ \A x : InBox(q, x) <=> x \in S
<1>1. Gate!Cardinality(S) = Cardinality(S)
  BY Zenon DEF Gate!Cardinality, Cardinality
<1>2. PICK n \in Nat : n = Cardinality(S)
  BY FS_CardinalityType
<1>3. q \in [1..n -> S] /\ \A i, j \in 1..n : i # j => q[i] # q[j]
  BY <1>1, <1>2 DEF Gate!SetToSeqs
<1>4. IsFiniteSet(1..n) /\ Cardinality(1..n) = n
  BY <1>2, FS_Interval
<1>5. q \in Injection(1..n, S)
  BY <1>3 DEF Injection, IsInjective
<1>6. q \in Surjection(1..n, S)
  BY <1>2, <1>4, <1>5, FS_Injection
<1>7. \A x \in S : \E i \in 1..n : q[i] = x
  BY <1>6, Fun_SurjectionProperties
<1>8. q \in Seq(S) /\ Len(q) = n
  BY <1>2, <1>3
<1>9. QED
  BY <1>3, <1>7, <1>8 DEF InBox

(* GateActor stops: the agent of every session is told.                    *)
LEMMA StopKeeps ==
    ASSUME IInv, Gate!OnStop,
           UNCHANGED <<stream, sent, frameCount, playOnly, inputs>>
    PROVE  IInv'
<1>1. TypeOK /\ Streaming /\ Sessions
  BY DEF IInv
<1>2. /\ sends = <<>> /\ gateUp' = FALSE
      /\ sessions' = [u \in Uids |-> NoStream]
      /\ UNCHANGED <<banned, gateBox, uidOf, answer, agent, box, playBox>>
      /\ UNCHANGED <<online, greeted>>
  BY DEF Gate!OnStop, playOnly
<1>3. PICK S : S = {Gate!Stop(s) : s \in {sessions[u] : u \in Uids} \ {NoStream}}
  OBVIOUS
<1>4. \A u \in Uids : sessions[u] \in Streams \cup {NoStream}
  BY <1>1, Types
<1>5. IsFiniteSet(S)
  <2> DEFINE T == {Gate!Stop(sessions[u]) : u \in Uids}
             f == [u \in Uids |-> Gate!Stop(sessions[u])]
  <2>1. f \in [Uids -> T] /\ \A x \in T : \E u \in Uids : f[u] = x
    OBVIOUS
  <2>2. f \in Surjection(Uids, T)
    BY <2>1, Fun_IsSurj
  <2>3. IsFiniteSet(T)
    BY <2>2, FS_Surjection, GateAssumption DEF GateAssumption
  <2>4. S \in SUBSET T
    BY <1>3
  <2>5. QED
    BY <2>3, <2>4, FS_Subset
<1>6. sends' \in Seq(S) /\ \A x : InBox(sends', x) <=> x \in S
  BY <1>3, <1>5, SomeOrder DEF Gate!OnStop
<1>7. \A x \in S : x \in Gate!Sends
  BY <1>3, <1>4, MsgTypes
<1>8. sends' \in Seq(Gate!Sends)
  BY <1>6, <1>7
<1>9. TypeOK'
  BY <1>1, <1>2, <1>8, Types, GateTypes
<1>10. /\ \A t : InBox(sends', Gate!Stop(t)) => \E u \in Uids : sessions[u] = t
       /\ \A t, u : u \in Uids /\ sessions[u] = t /\ t # NoStream
                      => InBox(sends', Gate!Stop(t))
  <2>1. ASSUME NEW t, InBox(sends', Gate!Stop(t))
        PROVE  \E u \in Uids : sessions[u] = t
    <3>1. PICK s \in {sessions[u] : u \in Uids} \ {NoStream} : Gate!Stop(t) = Gate!Stop(s)
      BY <1>3, <1>6, <2>1
    <3>2. t = s
      BY <3>1, MsgsDiffer
    <3>3. QED
      BY <3>1, <3>2
  <2>2. ASSUME NEW u \in Uids, sessions[u] # NoStream
        PROVE  InBox(sends', Gate!Stop(sessions[u]))
    BY <1>3, <1>6, <2>2
  <2>3. QED
    BY <2>1, <2>2
<1>11. ASSUME NEW t \in Streams
       PROVE  OpeningOf(t)' /\ Speaks(t)'
  <2>1. OpeningOf(t) /\ Speaks(t) /\ t # NoStream
    BY <1>1, GateAssumption DEF Streaming, GateAssumption
  <2>2. OpeningOf(t)'
    BY <1>2, <1>10, <2>1 DEF OpeningOf, Unopened
  <2>3. Speaks(t)'
    BY <1>2, <1>10, <2>1, ShortLists DEF OpeningOf, Speaks
  <2>4. QED
    BY <2>2, <2>3
<1>12. \A u \in Uids : SessionOf(u)'
  BY <1>2 DEF SessionOf
<1>13. QED
  BY <1>9, <1>11, <1>12 DEF IInv, Streaming, Sessions

-----------------------------------------------------------------------------
(* The agents.                                                             *)

(* The next state's type, from the variables that an agent's step changes. *)
LEMMA AgentTypes ==
    ASSUME TypeOK, UNCHANGED <<gateOnly, streamOnly, answer, playOnly, inputs>>,
           gateBox' \in Seq(Gate!GateMsgs),
           agent' \in [Streams -> {"none", "live", "stopped"}],
           box' \in [Streams -> Seq(Agent!AgentMsgs)],
           \A s \in Streams : Len(box'[s]) \in 0..Capacity,
           frameCount' \in [Streams -> 0..(MaxFrames + 1)],
           playBox' \in Seq(Play!PlayMsgs)
    PROVE  TypeOK'
BY DEF TypeOK, Gate!TypeOK, Agent!TypeOK, Stream!TypeOK, Play!TypeOK, gateOnly, streamOnly,
       playOnly

(* A message is taken from the mailbox of an agent, which goes on.         *)
LEMMA AgentTakes ==
    ASSUME TypeOK, NEW s \in Streams, NEW m, Agent!Handle(s, m), Agent!Taken(s)
    PROVE  /\ agent' = agent /\ agent[s] = "live" /\ InBox(box[s], m)
           /\ box' \in [Streams -> Seq(Agent!AgentMsgs)]
           /\ \A t \in Streams : Len(box'[t]) \in 0..Capacity
           /\ \A t \in Streams : t # s => box'[t] = box[t]
           /\ \A x : InBox(box'[s], x) => InBox(box[s], x)
           /\ \A x : x # m /\ InBox(box[s], x) => InBox(box'[s], x)
<1>1. /\ agent[s] = "live" /\ box[s] # <<>> /\ Head(box[s]) = m
      /\ box' = [box EXCEPT ![s] = Tail(@)] /\ agent' = agent
  BY DEF Agent!Handle, Agent!Taken
<1>2. /\ box \in [Streams -> Seq(Agent!AgentMsgs)]
      /\ \A t \in Streams : Len(box[t]) \in 0..Capacity
      /\ Capacity \in Nat
  BY Types, GateAssumption DEF GateAssumption
<1>3. box[s] \in Seq(Agent!AgentMsgs)
  BY <1>2
<1>4. /\ Tail(box[s]) \in Seq(Agent!AgentMsgs) /\ InBox(box[s], m)
      /\ \A x : InBox(Tail(box[s]), x) => InBox(box[s], x)
      /\ \A x : x # m /\ InBox(box[s], x) => InBox(Tail(box[s]), x)
  BY <1>1, <1>3, TailBox
<1>5. Len(Tail(box[s])) = Len(box[s]) - 1 /\ Len(box[s]) # 0
  BY <1>1, <1>3
<1>6. \A t \in Streams : box'[t] = IF t = s THEN Tail(box[s]) ELSE box[t]
  BY <1>1, <1>2
<1>7. box' \in [Streams -> Seq(Agent!AgentMsgs)]
  BY <1>1, <1>2, <1>4
<1>8. Len(Tail(box[s])) \in 0..Capacity
  BY <1>2, <1>5
<1>9. QED
  BY <1>1, <1>2, <1>4, <1>6, <1>7, <1>8

(* An agent stops and what is left in its mailbox is dropped.              *)
LEMMA AgentStops ==
    ASSUME TypeOK, NEW s \in Streams, Agent!Stopped(s)
    PROVE  /\ agent' \in [Streams -> {"none", "live", "stopped"}]
           /\ \A t \in Streams : agent'[t] = IF t = s THEN "stopped" ELSE agent[t]
           /\ box' \in [Streams -> Seq(Agent!AgentMsgs)]
           /\ \A t \in Streams : Len(box'[t]) \in 0..Capacity
           /\ \A t \in Streams : box'[t] = IF t = s THEN <<>> ELSE box[t]
<1>1. /\ agent \in [Streams -> {"none", "live", "stopped"}]
      /\ box \in [Streams -> Seq(Agent!AgentMsgs)]
      /\ \A t \in Streams : Len(box[t]) \in 0..Capacity
      /\ Capacity \in Nat
  BY Types, GateAssumption DEF GateAssumption
<1>2. <<>> \in Seq(Agent!AgentMsgs) /\ Len(<<>>) \in 0..Capacity
  BY <1>1
<1>3. /\ agent' = [agent EXCEPT ![s] = "stopped"]
      /\ box' = [box EXCEPT ![s] = <<>>]
  BY DEF Agent!Stopped
<1>4. /\ \A t \in Streams : agent'[t] = IF t = s THEN "stopped" ELSE agent[t]
      /\ \A t \in Streams : box'[t] = IF t = s THEN <<>> ELSE box[t]
  BY <1>1, <1>3
<1>5. /\ agent' \in [Streams -> {"none", "live", "stopped"}]
      /\ box' \in [Streams -> Seq(Agent!AgentMsgs)]
  BY <1>1, <1>2, <1>3
<1>6. \A t \in Streams : Len(box'[t]) \in 0..Capacity
  BY <1>1, <1>2, <1>4
<1>7. QED
  BY <1>4, <1>5, <1>6

(* An agent stops: it was told to, or it tells GateActor, which knows it   *)
(* by a session only while it listens.                                     *)
LEMMA EndsKeep ==
    ASSUME IInv, NEW s \in Streams, agent[s] = "live", Agent!Stopped(s),
           \/ gateBox' = gateBox /\ \A u \in Uids : sessions[u] # s
           \/ gateBox' = IF gateUp THEN Append(gateBox, Close(s)) ELSE gateBox,
           frameCount' \in [Streams -> 0..(MaxFrames + 1)],
           \A t \in Streams : t # s => frameCount'[t] = frameCount[t],
           UNCHANGED playBox,
           UNCHANGED <<gateOnly, streamOnly, answer, playOnly, inputs>>
    PROVE  IInv'
<1>1. TypeOK /\ Streaming /\ Sessions
  BY DEF IInv
<1>2. UNCHANGED <<sessions, banned, gateUp, sends, stream, sent, uidOf, online, greeted>>
  BY DEF gateOnly, streamOnly, playOnly
<1>3. /\ agent' \in [Streams -> {"none", "live", "stopped"}]
      /\ \A t \in Streams : agent'[t] = IF t = s THEN "stopped" ELSE agent[t]
      /\ box' \in [Streams -> Seq(Agent!AgentMsgs)]
      /\ \A t \in Streams : Len(box'[t]) \in 0..Capacity
      /\ \A t \in Streams : box'[t] = IF t = s THEN <<>> ELSE box[t]
  BY <1>1, AgentStops
<1>4. /\ gateBox' \in Seq(Gate!GateMsgs)
      /\ \A t \in Streams : /\ InBox(gateBox', Open(t)) => InBox(gateBox, Open(t))
                            /\ Single(gateBox, Open(t)) => Single(gateBox', Open(t))
                            /\ InBox(gateBox, Close(t)) => InBox(gateBox', Close(t))
                            /\ InBox(gateBox', Close(t)) => InBox(gateBox, Close(t)) \/ t = s
      /\ \A u \in Uids : sessions[u] = s => InBox(gateBox', Close(s))
  <2>1. CASE gateBox' = gateBox /\ \A u \in Uids : sessions[u] # s
    BY <1>1, <2>1, Types
  <2>2. CASE gateBox' = IF gateUp THEN Append(gateBox, Close(s)) ELSE gateBox
    <3>1. /\ gateBox' \in Seq(Gate!GateMsgs)
          /\ \A x : InBox(gateBox', x) <=> InBox(gateBox, x) \/ (gateUp /\ x = Close(s))
          /\ \A x : Single(gateBox, x) /\ (x = Close(s) => ~InBox(gateBox, x))
                      => Single(gateBox', x)
      BY <1>1, <2>2, MsgTypes, GateGets
    <3>2. \A u \in Uids : sessions[u] = s => gateUp
      BY <1>1, GateAssumption DEF Sessions, SessionOf, GateAssumption
    <3>3. QED
      BY <3>1, <3>2, MsgsDiffer
  <2>3. QED
    BY <2>1, <2>2
<1>5. TypeOK'
  BY <1>1, <1>3, <1>4, Types, AgentTypes
<1>6. ASSUME NEW t \in Streams
      PROVE  OpeningOf(t)' /\ Speaks(t)'
  <2>1. OpeningOf(t) /\ Speaks(t) /\ OpeningOf(s)
    BY <1>1 DEF Streaming
  <2>2. OpeningOf(t)'
    <3>1. CASE t = s
      BY <1>2, <1>3, <1>4, <2>1, <3>1 DEF OpeningOf
    <3>2. CASE t # s
      BY <1>2, <1>3, <1>4, <2>1, <3>2 DEF OpeningOf, Unopened
    <3>3. QED
      BY <3>1, <3>2
  <2>3. Speaks(t)'
    BY <1>2, <1>3, <2>1 DEF Speaks
  <2>4. QED
    BY <2>2, <2>3
<1>7. ASSUME NEW u \in Uids
      PROVE  SessionOf(u)'
  <2>1. SessionOf(u) /\ sessions[u] \in Streams \cup {NoStream}
    BY <1>1, Types DEF Sessions
  <2>2. ASSUME sessions[u] # NoStream
        PROVE  Lasts(u, sessions[u])'
    <3>1. Lasts(u, sessions[u]) /\ sessions[u] \in Streams
      BY <2>1, <2>2 DEF SessionOf
    <3>2. ~InBox(box'[sessions[u]], "stop")
      BY <1>3, <3>1, ShortLists DEF Lasts
    <3>3. QED
      BY <1>2, <1>3, <1>4, <3>1, <3>2 DEF Lasts
  <2>3. QED
    BY <1>2, <2>1, <2>2 DEF SessionOf
<1>8. QED
  BY <1>5, <1>6, <1>7 DEF IInv, Streaming, Sessions

(* An agent handles a message other than its stop, and may pass it to Play. *)
LEMMA TakesKeep ==
    ASSUME IInv, NEW s \in Streams, NEW m, m # "stop", Agent!Handle(s, m), Agent!Taken(s),
           \/ playBox' = playBox
           \/ \E k \in {"login", "frame"} :
                playBox' = Append(playBox, [type |-> k, stream |-> s]),
           frameCount' \in [Streams -> 0..(MaxFrames + 1)],
           \A t \in Streams : frameCount'[t] = frameCount[t] \/ frameCount'[t] <= MaxFrames,
           UNCHANGED gateBox,
           UNCHANGED <<gateOnly, streamOnly, answer, playOnly, inputs>>
    PROVE  IInv'
<1>1. TypeOK /\ Streaming /\ Sessions
  BY DEF IInv
<1>2. UNCHANGED <<sessions, banned, gateUp, sends, stream, sent, uidOf, online, greeted>>
  BY DEF gateOnly, streamOnly, playOnly
<1>3. /\ agent' = agent /\ agent[s] = "live"
      /\ box' \in [Streams -> Seq(Agent!AgentMsgs)]
      /\ \A t \in Streams : Len(box'[t]) \in 0..Capacity
      /\ \A t \in Streams : t # s => box'[t] = box[t]
      /\ InBox(box'[s], "stop") <=> InBox(box[s], "stop")
  BY <1>1, AgentTakes
<1>4. /\ playBox' \in Seq(Play!PlayMsgs)
      /\ \A t \in Streams : InBox(playBox', LoginOf(t)) => InBox(playBox, LoginOf(t)) \/ t = s
      /\ \A u \in Uids : InBox(playBox', ClosedOf(u)) => InBox(playBox, ClosedOf(u))
      /\ \A u \in Uids : \A t \in Streams :
           Before(playBox, ClosedOf(u), LoginOf(t)) => Before(playBox', ClosedOf(u), LoginOf(t))
  <2>1. CASE playBox' = playBox
    BY <1>1, <2>1, Types
  <2>2. CASE \E k \in {"login", "frame"} :
               playBox' = Append(playBox, [type |-> k, stream |-> s])
    <3>0. PICK k \in {"login", "frame"} :
            playBox' = Append(playBox, [type |-> k, stream |-> s])
      BY <2>2
    <3>1. PICK x : x = [type |-> k, stream |-> s] /\ playBox' = Append(playBox, x)
      BY <3>0
    <3>2. /\ playBox' \in Seq(Play!PlayMsgs)
          /\ \A y : InBox(playBox', y) <=> InBox(playBox, y) \/ y = x
          /\ \A y, z : y # z /\ Before(playBox, y, z) /\ (y = x => ~InBox(playBox, z))
                         => Before(playBox', y, z)
      BY <1>1, <3>1, MsgTypes, PlayGets
    <3>3. /\ \A t : LoginOf(t) = x => t = s
          /\ \A u : ClosedOf(u) # x
      BY <3>1 DEF LoginOf, ClosedOf
    <3>4. QED
      BY <3>2, <3>3, MsgsDiffer
  <2>3. QED
    BY <2>1, <2>2
<1>5. TypeOK'
  BY <1>1, <1>3, <1>4, Types, AgentTypes
<1>6. ASSUME NEW t \in Streams
      PROVE  OpeningOf(t)' /\ Speaks(t)'
  <2>1. OpeningOf(t) /\ Speaks(t)
    BY <1>1 DEF Streaming
  <2>2. frameCount[t] \in Nat /\ MaxFrames \in Nat
    BY <1>1, Types, GateAssumption DEF GateAssumption
  <2>3. OpeningOf(t)'
    BY <1>2, <1>3, <1>4, <2>1, <2>2 DEF OpeningOf, Unopened
  <2>4. Speaks(t)'
    BY <1>2, <1>3, <2>1 DEF Speaks
  <2>5. QED
    BY <2>3, <2>4
<1>7. ASSUME NEW u \in Uids
      PROVE  SessionOf(u)'
  <2>1. SessionOf(u) /\ sessions[u] \in Streams \cup {NoStream}
    BY <1>1, Types DEF Sessions
  <2>2. ASSUME sessions[u] # NoStream
        PROVE  Lasts(u, sessions[u])'
    <3>1. Lasts(u, sessions[u]) /\ sessions[u] \in Streams
      BY <2>1, <2>2 DEF SessionOf
    <3>2. ~InBox(box'[sessions[u]], "stop")
      BY <1>3, <3>1 DEF Lasts
    <3>3. QED
      BY <1>2, <1>3, <1>4, <3>1, <3>2 DEF Lasts
  <2>3. QED
    BY <1>2, <2>1, <2>2 DEF SessionOf
<1>8. QED
  BY <1>5, <1>6, <1>7 DEF IInv, Streaming, Sessions

LEMMA AgentsKeep ==
    ASSUME IInv, NEW s \in Streams, AgentStep(s)
    PROVE  IInv'
<1>1. TypeOK /\ Streaming /\ Sessions
  BY DEF IInv
<1>2. UNCHANGED <<gateOnly, streamOnly, answer, playOnly, inputs>>
  BY DEF AgentStep
<1>3. frameCount \in [Streams -> 0..(MaxFrames + 1)] /\ MaxFrames \in Nat \ {0}
  BY <1>1, Types, GateAssumption DEF GateAssumption
<1>4. CASE Agent!handleStop(s)
  <2>1. /\ Agent!Handle(s, "stop") /\ Agent!Stopped(s)
        /\ UNCHANGED <<frameCount, gateBox, playBox>>
    BY <1>4 DEF Agent!handleStop
  <2>2. agent[s] = "live" /\ InBox(box[s], "stop")
    <3>1. box[s] # <<>> /\ Head(box[s]) = "stop" /\ agent[s] = "live"
      BY <2>1 DEF Agent!Handle
    <3>2. box[s] \in Seq(Agent!AgentMsgs)
      BY <1>1, Types
    <3>3. QED
      BY <3>1, <3>2, TailBox
  <2>3. \A u \in Uids : sessions[u] # s
    BY <1>1, <2>2, GateAssumption DEF Sessions, SessionOf, Lasts, GateAssumption
  <2>4. QED
    BY <1>2, <1>3, <2>1, <2>2, <2>3, EndsKeep
<1>5. ASSUME Agent!close(s), agent[s] = "live", UNCHANGED playBox,
             frameCount' \in [Streams -> 0..(MaxFrames + 1)],
             \A t \in Streams : t # s => frameCount'[t] = frameCount[t]
      PROVE  IInv'
  <2>1. Agent!Stopped(s) /\ gateBox' = IF gateUp THEN Append(gateBox, Close(s)) ELSE gateBox
    BY <1>5 DEF Agent!close, Close
  <2>2. QED
    BY <1>2, <1>5, <2>1, EndsKeep
<1>6. CASE Agent!onInbound(s)
  <2>1. PICK m \in {"login", "frame"}, expired \in BOOLEAN :
          /\ Agent!Handle(s, m)
          /\ frameCount' = [frameCount EXCEPT ![s] = Agent!Count(s, expired)]
          /\ \/ /\ Agent!Count(s, expired) <= MaxFrames
                /\ playBox' = Append(playBox, [type |-> m, stream |-> s])
                /\ Agent!Taken(s)
                /\ UNCHANGED gateBox
             \/ Agent!close(s) /\ UNCHANGED playBox
    BY <1>6 DEF Agent!onInbound
  <2>2. PICK n : n = Agent!Count(s, expired)
    OBVIOUS
  <2>3. agent[s] = "live" /\ frameCount[s] <= MaxFrames
    BY <1>1, <2>1 DEF Agent!Handle, Streaming, OpeningOf
  <2>4. n \in 0..(MaxFrames + 1)
    BY <1>3, <2>2, <2>3 DEF Agent!Count
  <2>5. /\ frameCount' \in [Streams -> 0..(MaxFrames + 1)]
        /\ \A t \in Streams : frameCount'[t] = IF t = s THEN n ELSE frameCount[t]
    BY <1>3, <2>1, <2>2, <2>4
  <2>6. CASE Agent!close(s) /\ UNCHANGED playBox
    BY <1>5, <2>3, <2>5, <2>6
  <2>7. CASE /\ n <= MaxFrames
             /\ playBox' = Append(playBox, [type |-> m, stream |-> s])
             /\ Agent!Taken(s)
             /\ UNCHANGED gateBox
    <3>1. \A t \in Streams : frameCount'[t] = frameCount[t] \/ frameCount'[t] <= MaxFrames
      BY <2>5, <2>7
    <3>2. m # "stop"
      OBVIOUS
    <3>3. QED
      BY <1>2, <2>1, <2>5, <2>7, <3>1, <3>2, TakesKeep
  <2>8. QED
    BY <2>1, <2>2, <2>6, <2>7
<1>7. CASE Agent!onOutbound(s)
  <2>1. /\ Agent!Handle(s, "push") /\ UNCHANGED <<frameCount, playBox>>
        /\ (Agent!Taken(s) /\ UNCHANGED gateBox) \/ Agent!close(s)
    BY <1>7 DEF Agent!onOutbound
  <2>2. agent[s] = "live"
    BY <2>1 DEF Agent!Handle
  <2>3. QED
    BY <1>2, <1>3, <1>5, <2>1, <2>2, TakesKeep
<1>8. QED
  BY <1>4, <1>6, <1>7 DEF AgentStep, Agent!Step

-----------------------------------------------------------------------------
(* The streams' handlers.                                                  *)

(* A stream's step that leaves the agents and Play alone: its own state    *)
(* and GateActor's mailbox change, which gets its first or its last        *)
(* message.                                                                *)
LEMMA StreamTypes ==
    ASSUME TypeOK, UNCHANGED <<gateOnly, frameCount, playOnly, playBox, inputs>>,
           UNCHANGED <<answer, agent>>,
           gateBox' \in Seq(Gate!GateMsgs),
           box' \in [Streams -> Seq(Agent!AgentMsgs)],
           \A s \in Streams : Len(box'[s]) \in 0..Capacity,
           stream' \in [Streams -> {"idle", "opening", "open", "closed", "failed"}],
           sent' \in [Streams -> 0..MaxSent], uidOf' \in [Streams -> Uids \cup {NoUid}]
    PROVE  TypeOK'
BY DEF TypeOK, Gate!TypeOK, Agent!TypeOK, Stream!TypeOK, Play!TypeOK, gateOnly, playOnly

(* The first message names the player, which no other message does.        *)
LEMMA OpenKeeps ==
    ASSUME IInv, NEW s \in Streams, NEW n \in Uids \cup {NoUid}, Stream!Open(s, n),
           UNCHANGED <<gateOnly, frameCount, playOnly, playBox, inputs>>
    PROVE  IInv'
<1>1. TypeOK /\ Streaming /\ Sessions
  BY DEF IInv
<1>2. /\ UNCHANGED <<sessions, banned, gateUp, sends, frameCount, online, greeted, playBox>>
      /\ UNCHANGED <<sent, answer, agent, box>>
  BY DEF gateOnly, playOnly, Stream!Open
<1>3. /\ stream[s] = "idle"
      /\ \A t \in Streams : stream'[t] = IF t = s THEN "opening" ELSE stream[t]
      /\ \A t \in Streams : uidOf'[t] = IF t = s THEN n ELSE uidOf[t]
      /\ stream' \in [Streams -> {"idle", "opening", "open", "closed", "failed"}]
      /\ uidOf' \in [Streams -> Uids \cup {NoUid}]
  BY <1>1, Types DEF Stream!Open
<1>4. agent[s] = "none" /\ ~InBox(gateBox, Open(s)) /\ Unopened(s)
  BY <1>1, <1>3 DEF Streaming, OpeningOf
<1>5. /\ gateBox' \in Seq(Gate!GateMsgs)
      /\ \A x : InBox(gateBox', x) <=> InBox(gateBox, x) \/ (gateUp /\ x = Open(s))
      /\ \A x : Single(gateBox, x) /\ (x = Open(s) => ~InBox(gateBox, x))
                  => Single(gateBox', x)
  <2>1. gateBox' = IF gateUp THEN Append(gateBox, Open(s)) ELSE gateBox
    BY DEF Stream!Open, Stream!ToGate, Open
  <2>2. QED
    BY <1>1, <2>1, MsgTypes, GateGets
<1>6. TypeOK'
  BY <1>1, <1>2, <1>3, <1>5, Types, StreamTypes
<1>7. ASSUME NEW t \in Streams
      PROVE  OpeningOf(t)' /\ Speaks(t)'
  <2>1. OpeningOf(t) /\ Speaks(t)
    BY <1>1 DEF Streaming
  <2>2. /\ InBox(gateBox', Open(t)) => InBox(gateBox, Open(t)) \/ t = s
        /\ Single(gateBox', Open(t))
        /\ InBox(gateBox', Close(t)) => InBox(gateBox, Close(t))
    BY <1>4, <1>5, <2>1, MsgsDiffer DEF OpeningOf
  <2>3. OpeningOf(t)'
    BY <1>2, <1>3, <1>4, <2>1, <2>2 DEF OpeningOf, Unopened
  <2>4. Speaks(t)'
    BY <1>2, <1>3, <1>4, <2>1 DEF Speaks
  <2>5. QED
    BY <2>3, <2>4
<1>8. ASSUME NEW u \in Uids
      PROVE  SessionOf(u)'
  <2>1. SessionOf(u) /\ sessions[u] \in Streams \cup {NoStream} /\ sessions[u] # s
    BY <1>1, <1>4, Types DEF Sessions, Unopened
  <2>2. sessions[u] # NoStream => Lasts(u, sessions[u])'
    BY <1>2, <1>3, <1>5, <2>1 DEF SessionOf, Lasts
  <2>3. QED
    BY <1>2, <2>1, <2>2 DEF SessionOf
<1>9. QED
  BY <1>6, <1>7, <1>8 DEF IInv, Streaming, Sessions

(* After it: an answer, a timeout, a frame or the end.  A closed stream    *)
(* stays so, and only its end tells GateActor.                             *)
LEMMA GoesOn ==
    ASSUME IInv, NEW s \in Streams, stream[s] \in {"opening", "open"},
           stream' \in [Streams -> {"idle", "opening", "open", "closed", "failed"}],
           \A t \in Streams : t # s => stream'[t] = stream[t],
           stream'[s] # "idle",
           \/ gateBox' = gateBox
           \/ /\ gateBox' = IF gateUp THEN Append(gateBox, Close(s)) ELSE gateBox
              /\ stream'[s] = "closed",
           \/ box' = box
           \/ /\ agent[s] = "live" /\ Len(box[s]) < Capacity
              /\ box' = [box EXCEPT ![s] = Append(@, "frame")],
           sent' \in [Streams -> 0..MaxSent], UNCHANGED <<uidOf, answer, agent>>,
           UNCHANGED <<gateOnly, frameCount, playOnly, playBox, inputs>>
    PROVE  IInv'
<1>1. TypeOK /\ Streaming /\ Sessions
  BY DEF IInv
<1>2. UNCHANGED <<sessions, banned, gateUp, sends, frameCount, online, greeted, playBox>>
  BY DEF gateOnly, playOnly
<1>3. /\ gateBox' \in Seq(Gate!GateMsgs)
      /\ \A t \in Streams : /\ InBox(gateBox', Open(t)) <=> InBox(gateBox, Open(t))
                            /\ Single(gateBox, Open(t)) => Single(gateBox', Open(t))
                            /\ InBox(gateBox, Close(t)) => InBox(gateBox', Close(t))
                            /\ InBox(gateBox', Close(t)) =>
                                 InBox(gateBox, Close(t)) \/ (t = s /\ stream'[s] = "closed")
  <2>1. CASE gateBox' = gateBox
    BY <1>1, <2>1, Types
  <2>2. CASE /\ gateBox' = IF gateUp THEN Append(gateBox, Close(s)) ELSE gateBox
             /\ stream'[s] = "closed"
    <3>1. /\ gateBox' \in Seq(Gate!GateMsgs)
          /\ \A x : InBox(gateBox', x) <=> InBox(gateBox, x) \/ (gateUp /\ x = Close(s))
          /\ \A x : Single(gateBox, x) /\ (x = Close(s) => ~InBox(gateBox, x))
                      => Single(gateBox', x)
      BY <1>1, <2>2, MsgTypes, GateGets
    <3>2. QED
      BY <2>2, <3>1, MsgsDiffer
  <2>3. QED
    BY <2>1, <2>2
<1>4. /\ box' \in [Streams -> Seq(Agent!AgentMsgs)]
      /\ \A t \in Streams : Len(box'[t]) \in 0..Capacity
      /\ \A t \in Streams : /\ agent[t] = "none" => box'[t] = box[t]
                            /\ InBox(box'[t], "stop") <=> InBox(box[t], "stop")
  <2>1. CASE box' = box
    BY <1>1, <2>1, Types
  <2>2. CASE /\ agent[s] = "live" /\ Len(box[s]) < Capacity
             /\ box' = [box EXCEPT ![s] = Append(@, "frame")]
    <3>1. /\ box' \in [Streams -> Seq(Agent!AgentMsgs)]
          /\ \A t \in Streams : Len(box'[t]) \in 0..Capacity
          /\ \A t \in Streams : t # s => box'[t] = box[t]
          /\ \A x : InBox(box'[s], x) <=> InBox(box[s], x) \/ x = "frame"
      BY <1>1, <2>2, AgentGets DEF Agent!AgentMsgs
    <3>2. QED
      BY <2>2, <3>1
  <2>3. QED
    BY <2>1, <2>2
<1>5. TypeOK'
  BY <1>1, <1>3, <1>4, Types, StreamTypes
<1>6. ASSUME NEW t \in Streams
      PROVE  OpeningOf(t)' /\ Speaks(t)'
  <2>1. OpeningOf(t) /\ Speaks(t)
    BY <1>1 DEF Streaming
  <2>2. /\ stream'[t] = "idle" => stream[t] = "idle"
        /\ stream[t] = "closed" => stream'[t] = "closed"
    OBVIOUS
  <2>3. OpeningOf(t)'
    BY <1>2, <1>3, <1>4, <2>1, <2>2 DEF OpeningOf, Unopened
  <2>4. Speaks(t)'
    BY <1>2, <1>4, <2>1 DEF Speaks
  <2>5. QED
    BY <2>3, <2>4
<1>7. ASSUME NEW u \in Uids
      PROVE  SessionOf(u)'
  <2>1. SessionOf(u) /\ sessions[u] \in Streams \cup {NoStream}
    BY <1>1, Types DEF Sessions
  <2>2. sessions[u] # NoStream => Lasts(u, sessions[u])'
    BY <1>2, <1>3, <1>4, <2>1 DEF SessionOf, Lasts
  <2>3. QED
    BY <1>2, <2>1, <2>2 DEF SessionOf
<1>8. QED
  BY <1>5, <1>6, <1>7 DEF IInv, Streaming, Sessions

LEMMA StreamsKeep ==
    ASSUME IInv, NEW s \in Streams, StreamStep(s)
    PROVE  IInv'
<1>1. /\ stream \in [Streams -> {"idle", "opening", "open", "closed", "failed"}]
      /\ sent \in [Streams -> 0..MaxSent]
      /\ MaxSent \in Nat
  BY Types, GateAssumption DEF IInv, GateAssumption
<1>2. UNCHANGED <<gateOnly, frameCount, playOnly, playBox, inputs>>
  BY DEF StreamStep
<1>3. ASSUME NEW n \in Uids \cup {NoUid}, Stream!Open(s, n)
      PROVE  IInv'
  BY <1>2, <1>3, OpenKeeps
<1>4. CASE Stream!Answered(s) \/ Stream!TimesOut(s)
  <2>1. /\ stream[s] \in {"opening", "open"}
        /\ stream' \in [Streams -> {"idle", "opening", "open", "closed", "failed"}]
        /\ \A t \in Streams : t # s => stream'[t] = stream[t]
        /\ stream'[s] # "idle"
        /\ sent' \in [Streams -> 0..MaxSent]
        /\ UNCHANGED <<uidOf, answer, agent, box, gateBox>>
    BY <1>1, <1>4 DEF Stream!Answered, Stream!TimesOut
  <2>2. QED
    BY <1>2, <2>1, GoesOn
<1>5. ASSUME Stream!End(s)
      PROVE  /\ stream' \in [Streams -> {"idle", "opening", "open", "closed", "failed"}]
             /\ \A t \in Streams : t # s => stream'[t] = stream[t]
             /\ stream'[s] = "closed"
             /\ gateBox' = IF gateUp THEN Append(gateBox, Close(s)) ELSE gateBox
  BY <1>1, <1>5 DEF Stream!End, Stream!ToGate, Close
<1>6. CASE Stream!RecvFails(s)
  <2>1. /\ stream[s] \in {"opening", "open"} /\ Stream!End(s)
        /\ UNCHANGED <<sent, uidOf, answer, agent, box>>
    BY <1>6 DEF Stream!RecvFails
  <2>2. QED
    BY <1>1, <1>2, <1>5, <2>1, GoesOn
<1>7. CASE Stream!Frame(s)
  <2>1. /\ stream[s] \in {"opening", "open"} /\ stream[s] # "idle"
        /\ UNCHANGED <<uidOf, answer, agent>>
    BY <1>7 DEF Stream!Frame
  <2>2. sent' \in [Streams -> 0..MaxSent]
    BY <1>1, <1>7 DEF Stream!Frame
  <2>3. CASE /\ agent[s] = "live" /\ Len(box[s]) < Capacity
             /\ box' = [box EXCEPT ![s] = Append(@, "frame")]
             /\ UNCHANGED <<stream, gateBox>>
    BY <1>1, <1>2, <2>1, <2>2, <2>3, GoesOn
  <2>4. CASE Stream!End(s) /\ UNCHANGED box
    BY <1>1, <1>2, <1>5, <2>1, <2>2, <2>4, GoesOn
  <2>5. QED
    BY <1>7, <2>3, <2>4 DEF Stream!Frame
<1>8. QED
  BY <1>3, <1>4, <1>6, <1>7 DEF StreamStep, Stream!Step

-----------------------------------------------------------------------------
(* Play, and what reaches GateActor from elsewhere.                        *)
LEMMA PlayTypes ==
    ASSUME TypeOK,
           UNCHANGED <<gateOnly, streamOnly, answer, agent, box, frameCount>>,
           gateBox' \in Seq(Gate!GateMsgs), playBox' \in Seq(Play!PlayMsgs),
           online' \subseteq Uids, greeted' \subseteq Streams, inputs' \in 0..MaxInputs
    PROVE  TypeOK'
BY DEF TypeOK, Gate!TypeOK, Agent!TypeOK, Stream!TypeOK, Play!TypeOK, gateOnly, streamOnly

(* A push, a ban or the lifting of one is no stream's message.             *)
LEMMA GateGetsInput ==
    ASSUME TypeOK, NEW k \in InputKinds, NEW u \in Uids,
           gateBox' = IF gateUp THEN Append(gateBox, [type |-> k, uid |-> u]) ELSE gateBox
    PROVE  /\ gateBox' \in Seq(Gate!GateMsgs)
           /\ \A t \in Streams : /\ InBox(gateBox', Open(t)) <=> InBox(gateBox, Open(t))
                                 /\ Single(gateBox, Open(t)) => Single(gateBox', Open(t))
                                 /\ InBox(gateBox', Close(t)) <=> InBox(gateBox, Close(t))
<1>1. PICK m : m = [type |-> k, uid |-> u]
  OBVIOUS
<1>2. m \in Gate!GateMsgs /\ \A t : m # Open(t) /\ m # Close(t)
  BY <1>1, MsgTypes, MsgsDiffer
<1>3. QED
  BY <1>1, <1>2, GateGets

LEMMA PlayKeeps ==
    ASSUME IInv, PlayStep
    PROVE  IInv'
<1>1. TypeOK /\ Streaming /\ Sessions
  BY DEF IInv
<1>2. /\ UNCHANGED <<gateOnly, streamOnly, answer, agent, box, frameCount, inputs>>
      /\ UNCHANGED <<sessions, banned, gateUp, sends, stream, uidOf>>
  BY DEF PlayStep, gateOnly, streamOnly
<1>3. /\ gateBox \in Seq(Gate!GateMsgs) /\ online \subseteq Uids /\ greeted \subseteq Streams
      /\ inputs \in 0..MaxInputs
      /\ \A u \in Uids : sessions[u] \in Streams \cup {NoStream}
  BY <1>1, Types
<1>4. ASSUME NEW s \in Streams, Play!AutoLogin(s)
      PROVE  IInv'
  <2>1. PICK u \in Uids : u = uidOf[s]
    <3>1. InBox(playBox, LoginOf(s))
      BY <1>1, <1>4, PlayTakes DEF Play!AutoLogin, LoginOf
    <3>2. QED
      BY <1>1, <3>1 DEF Streaming, OpeningOf, Unopened
  <2>2. /\ InBox(playBox, LoginOf(s)) /\ playBox' \in Seq(Play!PlayMsgs)
        /\ \A x : InBox(playBox', x) => InBox(playBox, x)
        /\ \A x, y : Before(playBox, x, y) => Before(playBox', x, y)
        /\ \A x : Before(playBox, x, LoginOf(s)) => ~InBox(playBox, x)
    BY <1>1, <1>4, PlayTakes DEF Play!AutoLogin, LoginOf
  <2>3. online' = online \cup {u} /\ greeted' = greeted \cup {s}
    BY <1>4, <2>1 DEF Play!AutoLogin
  <2>4. /\ gateBox' \in Seq(Gate!GateMsgs)
        /\ \A t \in Streams : /\ InBox(gateBox', Open(t)) <=> InBox(gateBox, Open(t))
                              /\ Single(gateBox, Open(t)) => Single(gateBox', Open(t))
                              /\ InBox(gateBox', Close(t)) <=> InBox(gateBox, Close(t))
    <3>1. "push" \in InputKinds
      BY DEF InputKinds
    <3>2. gateBox' = IF gateUp THEN Append(gateBox, [type |-> "push", uid |-> u]) ELSE gateBox
      BY <1>4, <2>1 DEF Play!AutoLogin
    <3>3. QED
      BY <1>1, <3>1, <3>2, GateGetsInput
  <2>5. TypeOK'
    BY <1>1, <1>2, <1>3, <2>2, <2>3, <2>4, PlayTypes
  <2>6. ASSUME NEW t \in Streams
        PROVE  OpeningOf(t)' /\ Speaks(t)'
    <3>1. OpeningOf(t) /\ Speaks(t)
      BY <1>1 DEF Streaming
    <3>2. agent[s] # "none"
      BY <1>1, <2>2 DEF Streaming, OpeningOf, Unopened
    <3>3. OpeningOf(t)'
      BY <1>2, <2>2, <2>3, <2>4, <3>1, <3>2 DEF OpeningOf, Unopened
    <3>4. Speaks(t)'
      BY <1>2, <3>1 DEF Speaks
    <3>5. QED
      BY <3>3, <3>4
  <2>7. ASSUME NEW v \in Uids
        PROVE  SessionOf(v)'
    <3>1. SessionOf(v)
      BY <1>1 DEF Sessions
    <3>2. ASSUME sessions[v] # NoStream
          PROVE  Lasts(v, sessions[v])'
      <4>1. Lasts(v, sessions[v]) /\ sessions[v] \in Streams
        BY <1>3, <3>1, <3>2 DEF SessionOf
      <4>2. sessions[v] = s => v = u /\ ~InBox(playBox, ClosedOf(v))
        BY <2>1, <2>2, <4>1 DEF Lasts
      <4>3. QED
        BY <1>2, <2>2, <2>3, <2>4, <4>1, <4>2 DEF Lasts
    <3>3. QED
      BY <1>2, <3>1, <3>2 DEF SessionOf
  <2>8. QED
    BY <2>5, <2>6, <2>7 DEF IInv, Streaming, Sessions
<1>5. ASSUME UNCHANGED <<greeted, gateBox>>, playBox' \in Seq(Play!PlayMsgs),
             online' \subseteq Uids,
             \A x : InBox(playBox', x) => InBox(playBox, x),
             \A x, y : Before(playBox, x, y) => Before(playBox', x, y),
             \A u \in online : u \in online' \/ InBox(playBox, ClosedOf(u))
      PROVE  IInv'
  <2>1. TypeOK'
    BY <1>1, <1>2, <1>3, <1>5, PlayTypes
  <2>2. \A t \in Streams : OpeningOf(t)' /\ Speaks(t)'
    BY <1>1, <1>2, <1>5 DEF Streaming, OpeningOf, Unopened, Speaks
  <2>3. ASSUME NEW v \in Uids
        PROVE  SessionOf(v)'
    <3>1. SessionOf(v)
      BY <1>1 DEF Sessions
    <3>2. sessions[v] # NoStream => Lasts(v, sessions[v])'
      BY <1>2, <1>5, <3>1 DEF SessionOf, Lasts
    <3>3. QED
      BY <1>2, <3>1, <3>2 DEF SessionOf
  <2>4. QED
    BY <2>1, <2>2, <2>3 DEF IInv, Streaming, Sessions
<1>6. ASSUME NEW s \in Streams, Play!PlayerMsg(s)
      PROVE  IInv'
  <2>1. Play!Handle([type |-> "frame", stream |-> s]) /\ UNCHANGED <<online, greeted, gateBox>>
    BY <1>6 DEF Play!PlayerMsg
  <2>2. QED
    BY <1>1, <1>3, <1>5, <2>1, PlayTakes
<1>7. ASSUME NEW u \in Uids, Play!onSessionClosed(u)
      PROVE  IInv'
  <2>1. Play!Handle(ClosedOf(u)) /\ online' = online \ {u} /\ UNCHANGED <<greeted, gateBox>>
    BY <1>7 DEF Play!onSessionClosed, ClosedOf
  <2>2. QED
    BY <1>1, <1>3, <1>5, <2>1, PlayTakes
<1>8. QED
  BY <1>4, <1>6, <1>7 DEF PlayStep, Play!Step

LEMMA InputsKeep ==
    ASSUME IInv, NEW u \in Uids, Input(u)
    PROVE  IInv'
<1>1. TypeOK /\ Streaming /\ Sessions
  BY DEF IInv
<1>2. /\ UNCHANGED <<gateOnly, streamOnly, answer, agent, box, frameCount, playOnly, playBox>>
      /\ UNCHANGED <<sessions, banned, gateUp, sends, stream, uidOf, online, greeted>>
  BY DEF Input, gateOnly, streamOnly, playOnly
<1>3. /\ playBox \in Seq(Play!PlayMsgs) /\ online \subseteq Uids /\ greeted \subseteq Streams
      /\ inputs' \in 0..MaxInputs
  BY <1>1, Types, GateAssumption DEF GateAssumption, Input
<1>4. PICK k \in InputKinds : gateUp /\ gateBox' = Append(gateBox, [type |-> k, uid |-> u])
  BY GateAssumption DEF GateAssumption, Input
<1>5. /\ gateBox' \in Seq(Gate!GateMsgs)
      /\ \A t \in Streams : /\ InBox(gateBox', Open(t)) <=> InBox(gateBox, Open(t))
                            /\ Single(gateBox, Open(t)) => Single(gateBox', Open(t))
                            /\ InBox(gateBox', Close(t)) <=> InBox(gateBox, Close(t))
  BY <1>1, <1>4, GateGetsInput
<1>6. TypeOK'
  BY <1>1, <1>2, <1>3, <1>5, PlayTypes
<1>7. \A t \in Streams : OpeningOf(t)' /\ Speaks(t)'
  BY <1>1, <1>2, <1>5 DEF Streaming, OpeningOf, Unopened, Speaks
<1>8. ASSUME NEW v \in Uids
      PROVE  SessionOf(v)'
  <2>1. SessionOf(v) /\ sessions[v] \in Streams \cup {NoStream}
    BY <1>1, Types DEF Sessions
  <2>2. sessions[v] # NoStream => Lasts(v, sessions[v])'
    BY <1>2, <1>5, <2>1 DEF SessionOf, Lasts
  <2>3. QED
    BY <1>2, <2>1, <2>2 DEF SessionOf
<1>9. QED
  BY <1>6, <1>7, <1>8 DEF IInv, Streaming, Sessions

-----------------------------------------------------------------------------
(* The theorems.                                                           *)
LEMMA InitInv == Init => IInv
<1> SUFFICES ASSUME Init PROVE IInv
  OBVIOUS
<1>1. /\ sessions = [u \in Uids |-> NoStream] /\ banned = {} /\ gateUp = TRUE
      /\ gateBox = <<>> /\ sends = <<>> /\ answer = [s \in Streams |-> "none"]
      /\ agent = [s \in Streams |-> "none"] /\ box = [s \in Streams |-> <<>>]
      /\ frameCount = [s \in Streams |-> 0] /\ stream = [s \in Streams |-> "idle"]
      /\ sent = [s \in Streams |-> 0] /\ uidOf = [s \in Streams |-> NoUid]
      /\ online = {} /\ greeted = {} /\ playBox = <<>> /\ inputs = 0
  BY DEF Init, Gate!Init, Agent!Init, Stream!Init, Play!Init
<1>2. /\ NoStream \notin Streams /\ Capacity \in Nat /\ MaxFrames \in Nat /\ MaxSent \in Nat
      /\ MaxInputs \in Nat
  BY GateAssumption DEF GateAssumption
<1>3. TypeOK
  <2>1. /\ <<>> \in Seq(Gate!GateMsgs) /\ <<>> \in Seq(Gate!Sends) /\ <<>> \in Seq(Play!PlayMsgs)
        /\ <<>> \in Seq(Agent!AgentMsgs) /\ Len(<<>>) = 0
    OBVIOUS
  <2>2. box \in [Streams -> Seq(Agent!AgentMsgs)] /\ \A s \in Streams : Len(box[s]) \in 0..Capacity
    BY <1>1, <1>2, <2>1
  <2>3. Gate!TypeOK
    BY <1>1, <2>1 DEF Gate!TypeOK
  <2>4. Agent!TypeOK
    BY <1>1, <1>2, <2>2 DEF Agent!TypeOK
  <2>5. Stream!TypeOK
    BY <1>1, <1>2 DEF Stream!TypeOK
  <2>6. Play!TypeOK
    BY <1>1, <2>1 DEF Play!TypeOK
  <2>7. QED
    BY <1>1, <1>2, <2>3, <2>4, <2>5, <2>6 DEF TypeOK
<1>4. \A m : ~InBox(<<>>, m) /\ Single(<<>>, m)
  BY ShortLists DEF Single
<1>5. Streaming
  BY <1>1, <1>2, <1>4 DEF Streaming, OpeningOf, Unopened, Speaks
<1>6. Sessions
  BY <1>1 DEF Sessions, SessionOf
<1>7. QED
  BY <1>3, <1>5, <1>6 DEF IInv

LEMMA GateKeeps ==
    ASSUME IInv, GateStep
    PROVE  IInv'
<1>1. Gate!Step /\ UNCHANGED <<stream, sent, frameCount, playOnly, inputs>>
  BY DEF GateStep
<1>2. ASSUME NEW s \in Streams, Gate!onOpenSession(s)
      PROVE  IInv'
  BY <1>1, <1>2, OpensKeeps
<1>3. ASSUME NEW s \in Streams, Gate!onCloseSession(s)
      PROVE  IInv'
  BY <1>1, <1>3, ClosesKeeps
<1>4. ASSUME NEW u \in Uids, Gate!onPushToMsg(u)
      PROVE  IInv'
  BY <1>1, <1>4, PushesKeep
<1>5. ASSUME NEW u \in Uids, Gate!onBanUID(u) \/ Gate!onUnbanUID(u)
      PROVE  IInv'
  BY <1>1, <1>5, BansKeep
<1>6. CASE Gate!SendToAgent
  BY <1>1, <1>6, SendToAgentKeeps
<1>7. CASE Gate!SendResponse \/ Gate!notifySessionClosed
  BY <1>1, <1>7, OtherSendsKeep
<1>8. QED
  BY <1>1, <1>2, <1>3, <1>4, <1>5, <1>6, <1>7 DEF Gate!Step

LEMMA NextInv == IInv /\ [Next]_vars => IInv'
<1> SUFFICES ASSUME IInv, [Next]_vars PROVE IInv'
  OBVIOUS
<1>1. CASE GateStep
  BY <1>1, GateKeeps
<1>2. CASE GateStops
  BY <1>2, StopKeeps DEF GateStops
<1>3. CASE PlayStep
  BY <1>3, PlayKeeps
<1>4. ASSUME NEW s \in Streams, AgentStep(s)
      PROVE  IInv'
  BY <1>4, AgentsKeep
<1>5. ASSUME NEW s \in Streams, StreamStep(s)
      PROVE  IInv'
  BY <1>5, StreamsKeep
<1>6. ASSUME NEW u \in Uids, Input(u)
      PROVE  IInv'
  BY <1>6, InputsKeep
<1>7. CASE UNCHANGED vars
  <2>1. /\ UNCHANGED <<sessions, banned, gateUp, gateBox, sends, stream, sent, uidOf, answer>>
        /\ UNCHANGED <<agent, box, frameCount, online, greeted, playBox, inputs>>
    BY <1>7 DEF vars, gateOnly, streamOnly, playOnly
  <2>2. TypeOK'
    BY <2>1 DEF IInv, TypeOK, Gate!TypeOK, Agent!TypeOK, Stream!TypeOK, Play!TypeOK
  <2>3. Streaming' /\ Sessions'
    BY <2>1 DEF IInv, Streaming, OpeningOf, Unopened, Speaks, Sessions, SessionOf, Lasts
  <2>4. QED
    BY <2>2, <2>3 DEF IInv
<1>8. QED
  BY <1>1, <1>2, <1>3, <1>4, <1>5, <1>6, <1>7 DEF Next

LEMMA Invariant == Spec => []IInv
BY InitInv, NextInv, PTL DEF Spec

LEMMA ListedInBox == \A m, b : Listed(m, b) <=> InBox(b, m)
BY DEF Listed, InBox

(* Mailboxes hold messages of their kinds, an agent's never more than its  *)
(* capacity, and a frame is counted at most once past the limit.           *)
THEOREM TypeCorrect == Spec => []TypeOK
<1>1. IInv => TypeOK
  BY DEF IInv
<1>2. QED
  BY <1>1, Invariant, PTL

(* However logins, closes, bans, pushes and the end of GateActor           *)
(* interleave, at most one agent of a player has not been told to stop     *)
(* (service.go onOpenSession, closeCurrent, OnStop).                       *)
THEOREM SpeaksAlone == Spec => []OneSpeaker
<1>1. IInv => OneSpeaker
  BY ListedInBox DEF IInv, Streaming, Speaks, OneSpeaker
<1>2. QED
  BY <1>1, Invariant, PTL

(* No session outlives its agent unnoticed: GateActor will hear of it      *)
(* (agent.go close).                                                       *)
THEOREM SessionsLive == Spec => []SessionAlive
<1>1. IInv => SessionAlive
  BY ListedInBox DEF IInv, Sessions, SessionOf, Lasts, SessionAlive, Close
<1>2. QED
  BY <1>1, Invariant, PTL

(* The SessionClosed of an earlier session, which Play may handle late,    *)
(* never takes the player of a later one offline (service.go               *)
(* onOpenSession and notifySessionClosed, play handle.go).                 *)
THEOREM OnlineWhileLoggedIn == Spec => []LoggedInIsOnline
<1>1. IInv => LoggedInIsOnline
  <2>1. SUFFICES ASSUME IInv, NEW u \in Uids, sessions[u] \in greeted
                 PROVE  u \in online
    BY DEF LoggedInIsOnline
  <2>2. TypeOK /\ SessionOf(u)
    BY <2>1 DEF IInv, Sessions
  <2>3. sessions[u] # NoStream
    BY <2>1, <2>2, Types, GateAssumption DEF GateAssumption
  <2>4. QED
    BY <2>1, <2>2, <2>3 DEF SessionOf, Lasts
<1>2. QED
  BY <1>1, Invariant, PTL

(* A login that a ban overtakes opens no session, and a ban leaves none    *)
(* (service.go onOpenSession, onBanUID).                                   *)
THEOREM BannedStayOut == Spec => []BannedOut
<1>1. IInv => BannedOut
  BY Types DEF IInv, Sessions, SessionOf, BannedOut
<1>2. QED
  BY <1>1, Invariant, PTL

(* What made a step end a session.                                         *)
LEMMA EndHasReason ==
    ASSUME IInv, [Next]_vars, NEW u \in Uids,
           sessions[u] # NoStream, sessions'[u] = NoStream
    PROVE  LET s == sessions[u] IN
           \/ stream[s] = "closed" \/ agent[s] = "stopped"
           \/ u \in banned' \/ Len(box[s]) = Capacity
           \/ ~gateUp'
<1>1. TypeOK /\ Streaming /\ Sessions
  BY DEF IInv
<1>2. PICK s \in Streams : s = sessions[u]
  BY <1>1, Types
<1>3. /\ sessions \in [Uids -> Streams \cup {NoStream}] /\ NoStream \notin Streams
      /\ agent[s] \in {"none", "live", "stopped"} /\ Len(box[s]) \in 0..Capacity
      /\ Capacity \in Nat
  BY <1>1, Types, GateAssumption DEF GateAssumption
<1>4. CASE GateStep
  <2>1. ASSUME NEW t \in Streams, Gate!onOpenSession(t)
        PROVE  sessions'[u] # NoStream
    BY <1>2, <1>3, <2>1 DEF Gate!onOpenSession
  <2>2. ASSUME NEW t \in Streams, Gate!onCloseSession(t)
        PROVE  stream[s] = "closed" \/ agent[s] = "stopped"
    <3>1. uidOf[t] = u /\ sessions[u] = t
      BY <1>2, <1>3, <2>2 DEF Gate!onCloseSession, Gate!Owns, Gate!closeCurrent
    <3>2. Gate!Handle(Close(s))
      BY <1>2, <2>2, <3>1 DEF Gate!onCloseSession, Close
    <3>3. InBox(gateBox, Close(s))
      BY <1>1, <3>2, GateTakes
    <3>4. QED
      BY <1>1, <3>3 DEF Streaming, OpeningOf
  <2>3. ASSUME NEW v \in Uids, Gate!onPushToMsg(v)
        PROVE  agent[s] = "stopped" \/ Len(box[s]) = Capacity
    <3>1. v = u /\ ~(agent[s] = "live" /\ Gate!HasRoom(s))
      BY <1>2, <1>3, <2>3 DEF Gate!onPushToMsg, Gate!closeCurrent
    <3>2. agent[s] # "none"
      BY <1>1, <1>2 DEF Streaming, OpeningOf, Unopened
    <3>3. QED
      BY <1>3, <3>1, <3>2 DEF Gate!HasRoom
  <2>4. ASSUME NEW v \in Uids, Gate!onBanUID(v) \/ Gate!onUnbanUID(v)
        PROVE  u \in banned'
    BY <1>2, <1>3, <2>4 DEF Gate!onBanUID, Gate!onUnbanUID, Gate!closeCurrent
  <2>5. CASE Gate!SendToAgent \/ Gate!SendResponse \/ Gate!notifySessionClosed
    BY <1>2, <1>3, <2>5 DEF Gate!SendToAgent, Gate!SendResponse, Gate!notifySessionClosed
  <2>6. QED
    BY <1>2, <1>4, <2>1, <2>2, <2>3, <2>4, <2>5 DEF GateStep, Gate!Step
<1>5. CASE GateStops
  BY <1>5 DEF GateStops, Gate!OnStop
<1>6. CASE UNCHANGED sessions
  BY <1>6
<1>7. ASSUME NEW t \in Streams, AgentStep(t) \/ StreamStep(t)
      PROVE  UNCHANGED sessions
  BY <1>7 DEF AgentStep, StreamStep, gateOnly
<1>8. CASE PlayStep
  BY <1>6, <1>8 DEF PlayStep, gateOnly
<1>9. ASSUME NEW v \in Uids, Input(v)
      PROVE  UNCHANGED sessions
  BY <1>9 DEF Input, gateOnly
<1>10. CASE UNCHANGED vars
  BY <1>6, <1>10 DEF vars, gateOnly
<1>11. QED
  BY <1>4, <1>5, <1>6, <1>7, <1>8, <1>9, <1>10 DEF Next

(* A session ends by its own stream's end, its agent's, a ban, a full      *)
(* mailbox or the end of GateActor: the close of an earlier stream of the  *)
(* player finds another session and ends nothing (service.go               *)
(* onCloseSession, onPushToMsg).                                           *)
THEOREM EndsForAReason == Spec => EndedForAReason
<1>1. IInv /\ [Next]_vars =>
        [\A u \in Uids :
           LET s == sessions[u] IN
           s # NoStream /\ sessions'[u] = NoStream =>
             \/ stream[s] = "closed" \/ agent[s] = "stopped"
             \/ u \in banned' \/ Len(box[s]) = Capacity
             \/ ~gateUp']_vars
  BY EndHasReason
<1>2. QED
  BY <1>1, Invariant, PTL DEF Spec, EndedForAReason
=============================================================================
