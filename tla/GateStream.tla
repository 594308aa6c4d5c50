----------------------------- MODULE GateStream -----------------------------
(***************************************************************************)
(* The gRPC handler of a stream (game/gate/internal/stream.go), one        *)
(* goroutine per stream.  A stream is "opening" while its openSession is   *)
(* unanswered, then "open", "closed" after an orderly end, and "failed"    *)
(* when it was refused or waited too long.                                 *)
(***************************************************************************)
EXTENDS Naturals, Sequences

CONSTANTS
    Uids, Streams, NoUid,
    Capacity,   \* GsAgent.MailboxSize
    MaxSent,    \* bound on the frames a client sends on a stream
    Faults      \* the kinds of failure that may happen

VARIABLES
    stream,     \* state of the handler
    sent,       \* frames received after the first
    uidOf, answer, agent, box, gateUp, gateBox

TypeOK ==
    /\ stream \in [Streams -> {"idle", "opening", "open", "closed", "failed"}]
    /\ sent \in [Streams -> 0..MaxSent]
    /\ uidOf \in [Streams -> Uids \cup {NoUid}]

Init ==
    /\ stream = [s \in Streams |-> "idle"]
    /\ sent = [s \in Streams |-> 0]
    /\ uidOf = [s \in Streams |-> NoUid]

-----------------------------------------------------------------------------
ToGate(m) == gateBox' = IF gateUp THEN Append(gateBox, m) ELSE gateBox

(* The first message arrives and asks GateActor for a session.             *)
Open(s, u) ==
    /\ stream[s] = "idle"
    /\ stream' = [stream EXCEPT ![s] = "opening"]
    /\ uidOf' = [uidOf EXCEPT ![s] = u]
    /\ ToGate([type |-> "open", stream |-> s])
    /\ UNCHANGED <<sent, answer, agent, box>>

Answered(s) ==
    /\ stream[s] = "opening"
    /\ answer[s] # "none"
    /\ stream' = [stream EXCEPT ![s] = IF answer[s] = "opened" THEN "open" ELSE "failed"]
    /\ UNCHANGED <<sent, uidOf, answer, agent, box, gateBox>>

(* AwaitTimeout gives up, whether or not the answer is there.              *)
TimesOut(s) ==
    /\ stream[s] = "opening"
    /\ "timeout" \in Faults \/ ~gateUp
    /\ stream' = [stream EXCEPT ![s] = "failed"]
    /\ UNCHANGED <<sent, uidOf, answer, agent, box, gateBox>>

(* Mutant: the handler returns without its deferred Send.                  *)
EndQuietly(s) ==
    /\ stream' = [stream EXCEPT ![s] = "closed"]
    /\ UNCHANGED gateBox

(* The handler returns: the deferred Send tells GateActor.                 *)
End(s) ==
    /\ stream' = [stream EXCEPT ![s] = "closed"]
    /\ ToGate([type |-> "close", stream |-> s])

(* Recv fails or a frame is empty or does not decode.                      *)
RecvFails(s) ==
    /\ stream[s] = "open"
    /\ End(s)
    /\ UNCHANGED <<sent, uidOf, answer, agent, box>>

(* A frame: TrySend to a stopped agent or to a full mailbox ends the stream. *)
Frame(s) ==
    /\ stream[s] = "open"
    /\ sent[s] < MaxSent
    /\ sent' = [sent EXCEPT ![s] = @ + 1]
    /\ \/ /\ agent[s] = "live" /\ Len(box[s]) < Capacity
          /\ box' = [box EXCEPT ![s] = Append(@, "frame")]
          /\ UNCHANGED <<stream, gateBox>>
       \/ /\ ~(agent[s] = "live" /\ Len(box[s]) < Capacity)
          /\ End(s)
          /\ UNCHANGED box
    /\ UNCHANGED <<uidOf, answer, agent>>

Step(s) ==
    \/ \E u \in Uids \cup {NoUid} : Open(s, u)
    \/ Answered(s) \/ TimesOut(s) \/ RecvFails(s) \/ Frame(s)
=============================================================================
