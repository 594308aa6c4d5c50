---------------------------- MODULE GateSession -----------------------------
(***************************************************************************)
(* The game's side of a player's connection: the streams' handlers,        *)
(* GateActor, one agent per stream, and Play.  Mailboxes are FIFO; those   *)
(* of the agents have a capacity, which GateActor and the streams meet.    *)
(* What reaches GateActor from elsewhere is Inputs, MaxInputs in all.      *)
(***************************************************************************)
EXTENDS Naturals, Sequences, FiniteSets

CONSTANTS
    Uids, Streams, NoUid, NoStream,
    Capacity,   \* GsAgent.MailboxSize
    MaxFrames,  \* maxFramesPerSecond
    MaxSent,    \* bound on the frames a client sends on a stream
    MaxInputs,  \* bound on the pushes, bans and unbans
    Inputs,     \* the kinds of input that happen
    Faults      \* the kinds of failure that may happen

InputKinds == {"push", "ban", "unban"}
FaultKinds == {"timeout", "sendFails", "stop"}

ASSUME GateAssumption ==
    /\ IsFiniteSet(Uids)
    /\ NoUid \notin Uids
    /\ NoStream \notin Streams
    /\ Capacity \in Nat \ {0}
    /\ MaxFrames \in Nat \ {0}
    /\ MaxSent \in Nat
    /\ MaxInputs \in Nat
    /\ Inputs \subseteq InputKinds
    /\ Faults \subseteq FaultKinds

VARIABLES
    sessions, banned, gateUp, gateBox, sends,   \* GateActor
    stream, sent, uidOf, answer,                \* the streams
    agent, box, frameCount,                     \* the agents
    online, greeted, playBox,                   \* Play
    inputs                                      \* inputs so far

Gate == INSTANCE GateActor
Agent == INSTANCE GateAgent
Stream == INSTANCE GateStream
Play == INSTANCE PlaySessions

gateOnly == <<sessions, banned, gateUp, sends>>
streamOnly == <<stream, sent, uidOf>>
playOnly == <<online, greeted>>
vars == <<gateOnly, gateBox, streamOnly, answer, agent, box, frameCount,
          playOnly, playBox, inputs>>

TypeOK ==
    /\ Gate!TypeOK
    /\ Agent!TypeOK
    /\ Stream!TypeOK
    /\ Play!TypeOK
    /\ inputs \in 0..MaxInputs

Init ==
    /\ Gate!Init
    /\ Agent!Init
    /\ Stream!Init
    /\ Play!Init
    /\ inputs = 0

-----------------------------------------------------------------------------
GateStep ==
    Gate!Step /\ UNCHANGED <<stream, sent, frameCount, playOnly, inputs>>

GateStops ==
    /\ "stop" \in Faults
    /\ Gate!OnStop
    /\ UNCHANGED <<stream, sent, frameCount, playOnly, inputs>>

AgentStep(s) ==
    Agent!Step(s) /\ UNCHANGED <<gateOnly, streamOnly, answer, playOnly, inputs>>

StreamStep(s) ==
    Stream!Step(s) /\ UNCHANGED <<gateOnly, frameCount, playOnly, playBox, inputs>>

PlayStep ==
    /\ Play!Step
    /\ UNCHANGED <<gateOnly, streamOnly, answer, agent, box, frameCount, inputs>>

(* Another actor pushes to a player, bans a uid or lifts the ban.          *)
Input(u) ==
    /\ gateUp
    /\ inputs < MaxInputs
    /\ inputs' = inputs + 1
    /\ \E k \in Inputs : gateBox' = Append(gateBox, [type |-> k, uid |-> u])
    /\ UNCHANGED <<gateOnly, streamOnly, answer, agent, box, frameCount,
                   playOnly, playBox>>

Next ==
    \/ GateStep \/ GateStops \/ PlayStep
    \/ \E s \in Streams : AgentStep(s) \/ StreamStep(s)
    \/ \E u \in Uids : Input(u)

Spec == Init /\ [][Next]_vars

(* Actors handle their messages and a stream picks up its answer.  What    *)
(* the clients and the other actors send is theirs.                        *)
Fairness ==
    /\ WF_vars(GateStep)
    /\ WF_vars(PlayStep)
    /\ \A s \in Streams :
         /\ WF_vars(AgentStep(s))
         /\ WF_vars(Stream!Answered(s)
                    /\ UNCHANGED <<gateOnly, frameCount, playOnly, playBox, inputs>>)

FairSpec == Spec /\ Fairness

-----------------------------------------------------------------------------
(* Invariants.                                                             *)

Listed(m, q) == \E i \in 1..Len(q) : q[i] = m

(* At most one agent speaks for a uid: every other live one has its stop   *)
(* in its mailbox, or GateActor is about to send it (service.go: a login   *)
(* replaces, a close, a ban or a full mailbox ends a session).             *)
OneSpeaker ==
    \A s \in Streams : agent[s] = "live" =>
        \/ sessions[uidOf[s]] = s
        \/ Listed("stop", box[s])
        \/ Listed(Gate!Stop(s), sends)

(* A session whose agent is gone is about to be closed: the agent's own    *)
(* closeSession is in GateActor's mailbox (agent.go close).                *)
SessionAlive ==
    \A u \in Uids : sessions[u] # NoStream =>
        \/ agent[sessions[u]] = "live"
        \/ Listed([type |-> "close", stream |-> sessions[u]], gateBox)

(* Once Play has handled the login of a session, the player is online for  *)
(* as long as the session lasts: no SessionClosed of an earlier session    *)
(* takes it offline.                                                       *)
LoggedInIsOnline ==
    \A u \in Uids : sessions[u] \in greeted => u \in online

(* A banned uid has no session (service.go onOpenSession, onBanUID).       *)
BannedOut == \A u \in banned : sessions[u] = NoStream

-----------------------------------------------------------------------------
(* Action property: a session only ends for a reason of its own, never by  *)
(* the end of an earlier stream of the player.                             *)
EndedForAReason ==
    [][\A u \in Uids :
         LET s == sessions[u] IN
         s # NoStream /\ sessions'[u] = NoStream =>
           \/ stream[s] = "closed" \/ agent[s] = "stopped"
           \/ u \in banned' \/ Len(box[s]) = Capacity
           \/ ~gateUp']_vars

-----------------------------------------------------------------------------
(* Liveness.                                                               *)

(* A stream that has closed keeps no session.                              *)
ClosedReleases ==
    \A s \in Streams : stream[s] = "closed" ~> s \notin {sessions[u] : u \in Uids}

(* A stream that gave up waiting may be given a session all the same,      *)
(* which nothing closes; the next push to the player does.                 *)
PushWaits(s) == uidOf[s] \in Uids /\ Listed([type |-> "push", uid |-> uidOf[s]], gateBox)
OrphanReleased ==
    \A s \in Streams :
        stream[s] = "failed" /\ PushWaits(s) ~> s \notin {sessions[u] : u \in Uids}

-----------------------------------------------------------------------------
(* handle.go:23: when its session closes, the player is taken off the      *)
(* table of online players.                                                *)
ClosedIsOffline ==
    \A u \in Uids :
        u \in online /\ sessions[u] = NoStream ~> u \notin online \/ sessions[u] # NoStream
=============================================================================
