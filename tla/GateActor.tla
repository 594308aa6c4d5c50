----------------------------- MODULE GateActor ------------------------------
(***************************************************************************)
(* The game's gate (game/gate/internal/service.go): one session per uid.   *)
(* A stream is opened at most once, so it also names its agent: it stands  *)
(* for the agent's pid and its generation.                                 *)
(*                                                                         *)
(* A handler's Sends are made one after the other, each when its target    *)
(* has room: `sends` are those the current handler has still to make, and  *)
(* the next message waits for them.                                        *)
(***************************************************************************)
EXTENDS Naturals, Sequences, SequencesExt

CONSTANTS
    Uids, Streams,
    NoUid,      \* of a stream whose first message is no LoginGameReq
    NoStream,   \* of a uid without a session
    Capacity    \* GsAgent.MailboxSize

VARIABLES
    sessions,   \* GateActor.sessions
    banned,     \* GateActor.bannedUIDs
    gateUp,     \* FALSE after OnStop
    gateBox,    \* GateActor's mailbox
    sends,      \* what its handler has still to send
    uidOf,      \* the uid each stream logs in with
    answer,     \* the response to a stream's openSession
    agent,      \* state of each stream's GsAgent
    box,        \* mailbox of each GsAgent
    playBox     \* Play's mailbox

gateVars == <<sessions, banned, gateUp, gateBox, sends>>

GateMsgs == [type : {"open", "close"}, stream : Streams]
            \cup [type : {"push", "ban", "unban"}, uid : Uids]
Sends == [to : {"agent"}, stream : Streams, msg : {"stop", "login"}]
         \cup [to : {"stream"}, stream : Streams, msg : {"opened", "refused"}]
         \cup [to : {"play"}, uid : Uids]

TypeOK ==
    /\ sessions \in [Uids -> Streams \cup {NoStream}]
    /\ banned \subseteq Uids
    /\ gateUp \in BOOLEAN
    /\ gateBox \in Seq(GateMsgs)
    /\ sends \in Seq(Sends)
    /\ answer \in [Streams -> {"none", "opened", "refused"}]

Init ==
    /\ sessions = [u \in Uids |-> NoStream]
    /\ banned = {}
    /\ gateUp = TRUE
    /\ gateBox = <<>>
    /\ sends = <<>>
    /\ answer = [s \in Streams |-> "none"]

-----------------------------------------------------------------------------
Handle(m) ==
    /\ gateUp
    /\ sends = <<>>
    /\ gateBox # <<>>
    /\ Head(gateBox) = m
    /\ gateBox' = Tail(gateBox)

Stop(s) == [to |-> "agent", stream |-> s, msg |-> "stop"]
Login(s) == [to |-> "agent", stream |-> s, msg |-> "login"]
Respond(s, r) == [to |-> "stream", stream |-> s, msg |-> r]
SessionClosed(u) == [to |-> "play", uid |-> u]

(* Mutant: one message more than the mailbox holds.                        *)
HasRoomForOneMore(s) == Len(box[s]) <= Capacity

HasRoom(s) == Len(box[s]) < Capacity

(* Mutant: Play hears of the end of the session that a login replaces, but *)
(* only after the new agent has its login.                                 *)
OpenSendsNotified(s, u) ==
    IF sessions[u] = NoStream
    THEN <<Login(s), Respond(s, "opened")>>
    ELSE <<Stop(sessions[u]), Login(s), SessionClosed(u), Respond(s, "opened")>>

OpenSends(s, u) ==
    (IF sessions[u] = NoStream THEN <<>> ELSE <<Stop(sessions[u])>>)
    \o <<Login(s), Respond(s, "opened")>>

(* Mutant: any uid may open a session.                                     *)
RefusesNoUid(u) == u = NoUid

Refuses(u) == u = NoUid \/ u \in banned

onOpenSession(s) ==
    LET u == uidOf[s] IN
    /\ Handle([type |-> "open", stream |-> s])
    /\ \/ /\ Refuses(u)
          /\ sends' = <<Respond(s, "refused")>>
          /\ UNCHANGED <<sessions, agent>>
       \/ /\ ~Refuses(u)
          /\ sends' = OpenSends(s, u)
          /\ sessions' = [sessions EXCEPT ![u] = s]
          /\ agent' = [agent EXCEPT ![s] = "live"]
    /\ UNCHANGED <<banned, gateUp, uidOf, answer, box, playBox>>

(* Mutant: the session ends, its agent does not hear of it.                *)
closeCurrentQuietly(u) ==
    /\ sessions' = [sessions EXCEPT ![u] = NoStream]
    /\ sends' = <<SessionClosed(u)>>

closeCurrent(u) ==
    /\ sessions' = [sessions EXCEPT ![u] = NoStream]
    /\ sends' = <<Stop(sessions[u]), SessionClosed(u)>>

(* Mutant: a close ends whatever session its uid has.                      *)
OwnsAny(s) == uidOf[s] \in Uids /\ sessions[uidOf[s]] # NoStream

Owns(s) == uidOf[s] \in Uids /\ sessions[uidOf[s]] = s

onCloseSession(s) ==
    /\ Handle([type |-> "close", stream |-> s])
    /\ IF Owns(s) THEN closeCurrent(uidOf[s]) ELSE UNCHANGED <<sessions, sends>>
    /\ UNCHANGED <<banned, gateUp, uidOf, answer, agent, box, playBox>>

onPushToMsg(u) ==
    LET s == sessions[u] IN
    /\ Handle([type |-> "push", uid |-> u])
    /\ \/ /\ s = NoStream
          /\ UNCHANGED <<sessions, sends, box>>
       \/ /\ s # NoStream
          /\ agent[s] = "live" /\ HasRoom(s)
          /\ box' = [box EXCEPT ![s] = Append(@, "push")]
          /\ UNCHANGED <<sessions, sends>>
       \/ /\ s # NoStream
          /\ ~(agent[s] = "live" /\ HasRoom(s))
          /\ closeCurrent(u)
          /\ UNCHANGED box
    /\ UNCHANGED <<banned, gateUp, uidOf, answer, agent, playBox>>

onBanUID(u) ==
    /\ Handle([type |-> "ban", uid |-> u])
    /\ banned' = banned \cup {u}
    /\ IF sessions[u] # NoStream THEN closeCurrent(u) ELSE UNCHANGED <<sessions, sends>>
    /\ UNCHANGED <<gateUp, uidOf, answer, agent, box, playBox>>

onUnbanUID(u) ==
    /\ Handle([type |-> "unban", uid |-> u])
    /\ banned' = banned \ {u}
    /\ UNCHANGED <<sessions, gateUp, sends, uidOf, answer, agent, box, playBox>>

(* The agents of all sessions are stopped, in the order of a Go map.       *)
OnStop ==
    /\ gateUp
    /\ sends = <<>>
    /\ gateUp' = FALSE
    /\ sessions' = [u \in Uids |-> NoStream]
    /\ sends' \in SetToSeqs({Stop(s) : s \in {sessions[u] : u \in Uids} \ {NoStream}})
    /\ UNCHANGED <<banned, gateBox, uidOf, answer, agent, box, playBox>>

-----------------------------------------------------------------------------
(* Send blocks while the mailbox of a live agent is full; a stopped agent  *)
(* gets nothing.                                                           *)
SendToAgent ==
    LET s == Head(sends).stream IN
    /\ sends # <<>> /\ Head(sends).to = "agent"
    /\ sends' = Tail(sends)
    /\ \/ /\ agent[s] = "live" /\ HasRoom(s)
          /\ box' = [box EXCEPT ![s] = Append(@, Head(sends).msg)]
       \/ /\ agent[s] # "live"
          /\ UNCHANGED box
    /\ UNCHANGED <<sessions, banned, gateUp, gateBox, uidOf, answer, agent, playBox>>

SendResponse ==
    /\ sends # <<>> /\ Head(sends).to = "stream"
    /\ sends' = Tail(sends)
    /\ answer' = [answer EXCEPT ![Head(sends).stream] = Head(sends).msg]
    /\ UNCHANGED <<sessions, banned, gateUp, gateBox, uidOf, agent, box, playBox>>

notifySessionClosed ==
    /\ sends # <<>> /\ Head(sends).to = "play"
    /\ sends' = Tail(sends)
    /\ playBox' = Append(playBox, [type |-> "closed", uid |-> Head(sends).uid])
    /\ UNCHANGED <<sessions, banned, gateUp, gateBox, uidOf, answer, agent, box>>

Step ==
    \/ \E s \in Streams : onOpenSession(s) \/ onCloseSession(s)
    \/ \E u \in Uids : onPushToMsg(u) \/ onBanUID(u) \/ onUnbanUID(u)
    \/ SendToAgent \/ SendResponse \/ notifySessionClosed
=============================================================================
