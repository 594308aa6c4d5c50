----------------------------- MODULE GateAgent ------------------------------
(***************************************************************************)
(* One GsAgent per opened stream (game/gate/internal/agent.go): frames     *)
(* inwards to Play, pushes outwards to the stream.  Stop ends the agent    *)
(* after the current message; what is left in its mailbox is dropped.      *)
(***************************************************************************)
EXTENDS Naturals, Sequences

CONSTANTS
    Uids, Streams,
    Capacity,   \* GsAgent.MailboxSize
    MaxFrames,  \* maxFramesPerSecond
    Faults      \* the kinds of failure that may happen

VARIABLES
    agent,      \* "none", "live" or "stopped"
    box,        \* the mailbox
    frameCount, \* GsAgent.frameCount
    gateUp, gateBox, playBox,
    stream      \* state of each stream's handler

AgentMsgs == {"login", "frame", "push", "stop"}

TypeOK ==
    /\ agent \in [Streams -> {"none", "live", "stopped"}]
    /\ box \in [Streams -> Seq(AgentMsgs)]
    /\ \A s \in Streams : Len(box[s]) \in 0..Capacity
    /\ frameCount \in [Streams -> 0..(MaxFrames + 1)]

Init ==
    /\ agent = [s \in Streams |-> "none"]
    /\ box = [s \in Streams |-> <<>>]
    /\ frameCount = [s \in Streams |-> 0]

-----------------------------------------------------------------------------
Handle(s, m) == agent[s] = "live" /\ box[s] # <<>> /\ Head(box[s]) = m
Taken(s) == box' = [box EXCEPT ![s] = Tail(@)] /\ UNCHANGED agent
Stopped(s) ==
    /\ agent' = [agent EXCEPT ![s] = "stopped"]
    /\ box' = [box EXCEPT ![s] = <<>>]

handleStop(s) ==
    /\ Handle(s, "stop")
    /\ Stopped(s)
    /\ UNCHANGED <<frameCount, gateBox, playBox>>

(* Mutant: the agent stops without a word to the gate.                     *)
closeQuietly(s) == Stopped(s) /\ UNCHANGED gateBox

(* A stopped GateActor gets nothing.                                       *)
close(s) ==
    /\ Stopped(s)
    /\ gateBox' = IF gateUp THEN Append(gateBox, [type |-> "close", stream |-> s])
                            ELSE gateBox

(* allowFrame: a second has passed since the window began, or not.         *)
Count(s, expired) == IF expired THEN 1 ELSE frameCount[s] + 1

onInbound(s) ==
    \E m \in {"login", "frame"}, expired \in BOOLEAN :
      /\ Handle(s, m)
      /\ frameCount' = [frameCount EXCEPT ![s] = Count(s, expired)]
      /\ \/ /\ Count(s, expired) <= MaxFrames
            /\ playBox' = Append(playBox, [type |-> m, stream |-> s])
            /\ Taken(s)
            /\ UNCHANGED gateBox
         \/ /\ Count(s, expired) > MaxFrames
            /\ close(s)
            /\ UNCHANGED playBox

(* stream.Send fails once the stream has ended.  A stream that closes ends *)
(* a moment after its handler told GateActor.                              *)
onOutbound(s) ==
    /\ Handle(s, "push")
    /\ \/ /\ stream[s] # "failed"
          /\ Taken(s)
          /\ UNCHANGED gateBox
       \/ /\ "sendFails" \in Faults \/ stream[s] \in {"closed", "failed"}
          /\ close(s)
    /\ UNCHANGED <<frameCount, playBox>>

Step(s) == handleStop(s) \/ onInbound(s) \/ onOutbound(s)
=============================================================================
