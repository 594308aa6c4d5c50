---------------------------- MODULE PlaySessions ----------------------------
(***************************************************************************)
(* Play's table of online players (game/play): filled by the login of a    *)
(* session, emptied by GateActor's SessionClosed.                          *)
(***************************************************************************)
EXTENDS Naturals, Sequences

CONSTANTS Uids, Streams

VARIABLES
    online,     \* the uids of PlayerMgr.players
    greeted,    \* history: the streams whose login Play has handled
    playBox,    \* Play's mailbox
    uidOf, gateUp, gateBox

PlayMsgs == [type : {"login", "frame"}, stream : Streams]
            \cup [type : {"closed"}, uid : Uids]

TypeOK ==
    /\ online \subseteq Uids
    /\ greeted \subseteq Streams
    /\ playBox \in Seq(PlayMsgs)

Init ==
    /\ online = {}
    /\ greeted = {}
    /\ playBox = <<>>

-----------------------------------------------------------------------------
Handle(m) ==
    /\ playBox # <<>>
    /\ Head(playBox) = m
    /\ playBox' = Tail(playBox)

(* The player is added and the acknowledgement pushed through GateActor.   *)
AutoLogin(s) ==
    /\ Handle([type |-> "login", stream |-> s])
    /\ online' = online \cup {uidOf[s]}
    /\ greeted' = greeted \cup {s}
    /\ gateBox' = IF gateUp THEN Append(gateBox, [type |-> "push", uid |-> uidOf[s]])
                            ELSE gateBox

(* A player's request is for another actor, or refused: no answer is due.  *)
PlayerMsg(s) ==
    /\ Handle([type |-> "frame", stream |-> s])
    /\ UNCHANGED <<online, greeted, gateBox>>

onSessionClosed(u) ==
    /\ Handle([type |-> "closed", uid |-> u])
    /\ online' = online \ {u}
    /\ UNCHANGED <<greeted, gateBox>>

Step ==
    \/ \E s \in Streams : AutoLogin(s) \/ PlayerMsg(s)
    \/ \E u \in Uids : onSessionClosed(u)
=============================================================================
