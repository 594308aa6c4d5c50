------------------------------ MODULE GateConn ------------------------------
(***************************************************************************)
(* A client's WebSocket connection in the gate (gate/conn): its login      *)
(* state, the uid it speaks for and the streams it opens to the game.      *)
(*                                                                         *)
(* A Conn has one mailbox; its sources (the client, the callbacks, each    *)
(* stream's receiver) are independent, so any order of them is an order of *)
(* that mailbox.  A client sends when the Conn is about to handle.         *)
(***************************************************************************)
EXTENDS Naturals, Sequences

CONSTANTS
    Conns, Accounts, Streams, NoUid, NoStream, NoRequest,
    MaxRequests, Inputs, Faults

VARIABLES
    conn,       \* "up" or "stopped"
    state,      \* connState
    connUid,    \* Conn.uid
    current,    \* Conn.stream and Conn.grpcConn
    requested,  \* requests made so far
    waits,      \* what the client waits for; "silence" after a refused login
    stream,     \* "unused", "open", "ended" by the game or "closed"
    owner,      \* the Conn that opened a stream
    bound,      \* the uid of a stream's LoginGameReq
    said,       \* the uids in the headers sent on a stream
    fromGame    \* the LoginGameAcks on a stream

connVars == <<conn, state, connUid, current, requested, waits>>
streamVars == <<stream, owner, bound, said, fromGame>>

connState == {"Anon", "LoggIng", "RegIng", "Authed"}

(* The first message on a stream and the game's answer to it: of their     *)
(* fields the uid is the one that is acted upon, the answer's code is not. *)
LoginGameReq == Nat
LoginGameAck == Nat

(* A frame to the game: of its payload the uid in the message's header.    *)
Frame == Nat \cup {NoUid}

TypeOK ==
    /\ conn \in [Conns -> {"up", "stopped"}]
    /\ state \in [Conns -> connState]
    /\ connUid \in [Conns -> Nat \cup {NoUid}]
    /\ current \in [Conns -> Streams \cup {NoStream}]
    /\ \A c \in Conns : current[c] # NoStream =>
                          conn[c] = "up" /\ owner[current[c]] = c
    /\ \A c \in Conns : requested[c] \in 0..MaxRequests[c]
    /\ waits \in [Conns -> {"nothing", "login", "register", "silence"}]
    /\ stream \in [Streams -> {"unused", "open", "ended", "closed"}]
    /\ \A s \in Streams : stream[s] # "unused" => owner[s] \in Conns
    /\ bound \in [Streams -> LoginGameReq \cup {NoUid}]
    /\ said \in [Streams -> SUBSET Frame]
    /\ fromGame \in [Streams -> Seq(LoginGameAck)]

(* wsHandler: every upgraded socket gets a Conn of its own.                *)
Init ==
    /\ conn = [c \in Conns |-> "up"]
    /\ state = [c \in Conns |-> "Anon"]
    /\ connUid = [c \in Conns |-> NoUid]
    /\ current = [c \in Conns |-> NoStream]
    /\ requested = [c \in Conns |-> 0]
    /\ waits = [c \in Conns |-> "nothing"]
    /\ stream = [s \in Streams |-> "unused"]
    /\ owner = [s \in Streams |-> NoRequest]
    /\ bound = [s \in Streams |-> NoUid]
    /\ said = [s \in Streams |-> {}]
    /\ fromGame = [s \in Streams |-> <<>>]

-----------------------------------------------------------------------------
Become(c, st) == state' = [state EXCEPT ![c] = st]
Answered(c) == waits' = [waits EXCEPT ![c] = "nothing"]
IsUp(c) == conn[c] = "up"

CloseCurrent(c) ==
    stream' = [s \in Streams |->
                 IF s = current[c] THEN "closed" ELSE stream[s]]

(* Mutant: the closed stream is not forgotten.                             *)
KeepCurrent(c) == UNCHANGED current

DropCurrent(c) == current' = [current EXCEPT ![c] = NoStream]

(* ctx.Stop and OnStop.                                                    *)
Stop(c) ==
    /\ conn' = [conn EXCEPT ![c] = "stopped"]
    /\ CloseCurrent(c)
    /\ DropCurrent(c)
    /\ UNCHANGED <<state, connUid, requested, waits, owner, bound, said, fromGame>>

(* A client asks when it waits for nothing and is not logged in, unless    *)
(* the inputs say otherwise.                                               *)
MayAsk(c) ==
    /\ IsUp(c)
    /\ requested[c] < MaxRequests[c]
    /\ waits[c] = "nothing" \/ "retry" \in Inputs
    /\ current[c] = NoStream \/ "relogin" \in Inputs

(* LoginReq or RegisterReq: the password is right or wrong by a choice of  *)
(* the platform's, and an account stands for its name on its server.       *)
Request(c, kind, a) ==
    [conn |-> c, n |-> requested[c] + 1, kind |-> kind, account |-> a]

Asks(c, kind) ==
    /\ MayAsk(c)
    /\ requested' = [requested EXCEPT ![c] = @ + 1]
    /\ waits' = [waits EXCEPT ![c] = kind]
    /\ UNCHANGED <<conn, connUid, current, streamVars>>

(* The request goes to PfRpc; the state waits for its callback.            *)
onLogin(c) == Asks(c, "login") /\ UNCHANGED state

(* Mutant: the state waits for the callback too.                           *)
RegistersSilently(c) == UNCHANGED state

Registers(c) == Become(c, "RegIng")

onRegister(c) == Asks(c, "register") /\ Registers(c)

(* A message goes out with the uid as header; a stream that has ended      *)
(* stops the Conn.                                                         *)
sendGameSteam(c) ==
    LET s == current[c] IN
    /\ s # NoStream
    /\ \/ /\ stream[s] = "open"
          /\ said' = [said EXCEPT ![s] = @ \cup {connUid[c]}]
          /\ UNCHANGED <<connVars, stream, owner, bound, fromGame>>
       \/ stream[s] = "ended" /\ Stop(c)

(* onWsMsg, a player's message: forwarded by a Conn that is Authed only.   *)
onWsMsg(c) ==
    /\ IsUp(c)
    /\ state[c] = "Authed"
    /\ sendGameSteam(c)

-----------------------------------------------------------------------------
(* OpenSteam and the LoginGameReq, first on the stream.                    *)
OpenSteam(c, s, u) ==
    /\ stream[s] = "unused"
    /\ stream' = [stream EXCEPT ![s] = "open"]
    /\ owner' = [owner EXCEPT ![s] = c]
    /\ bound' = [bound EXCEPT ![s] = u]
    /\ said' = [said EXCEPT ![s] = {u}]
    /\ current' = [current EXCEPT ![c] = s]
    /\ UNCHANGED fromGame

(* Mutant: the client is not told.                                         *)
NoServerSilently(c) ==
    /\ Become(c, "Anon")
    /\ UNCHANGED <<waits, current, streamVars>>

NoServer(c) ==
    /\ Become(c, "Anon")
    /\ Answered(c)
    /\ UNCHANGED <<current, streamVars>>

(* A refusal is not passed on to the client.                               *)
authLoginCb(c, code, u) ==
    /\ IsUp(c)
    /\ \/ /\ code = "error"
          /\ NoServer(c)
          /\ UNCHANGED connUid
       \/ /\ code = "refused"
          /\ waits' = [waits EXCEPT ![c] = "silence"]
          /\ UNCHANGED <<state, connUid, current, streamVars>>
       \/ /\ code = "OK"
          /\ connUid' = [connUid EXCEPT ![c] = u]
          /\ \/ /\ "noServer" \in Faults \/ \A s \in Streams : stream[s] # "unused"
                /\ NoServer(c)
             \/ /\ \E s \in Streams : OpenSteam(c, s, u)
                /\ Become(c, "LoggIng")
                /\ UNCHANGED waits
    /\ UNCHANGED <<conn, requested>>

(* The answer's code is not looked at: a refusal is acknowledged, too.     *)
regCb(c, code, u) ==
    /\ IsUp(c)
    /\ IF code = "error" THEN Become(c, "Anon") /\ UNCHANGED connUid
       ELSE connUid' = [connUid EXCEPT ![c] = u] /\ UNCHANGED state
    /\ Answered(c)
    /\ UNCHANGED <<conn, current, requested, streamVars>>

(* A LoginGameAck, whichever of its streams brings it.                     *)
LoginAck(c, u) ==
    /\ Become(c, "Authed")
    /\ connUid' = [connUid EXCEPT ![c] = u]
    /\ Answered(c)
    /\ UNCHANGED <<conn, current, requested, stream, owner, bound, said>>

(* receiveStream hands on a frame, for onFrame.                            *)
Receives(c, s) ==
    /\ IsUp(c)
    /\ owner[s] = c
    /\ fromGame[s] # <<>>
    /\ fromGame' = [fromGame EXCEPT ![s] = Tail(@)]
    /\ LoginAck(c, Head(fromGame[s]))

(* ... or the end of the stream, after its frames.                         *)
onStreamClosed(c, s) ==
    /\ IsUp(c)
    /\ owner[s] = c
    /\ stream[s] = "ended"
    /\ fromGame[s] = <<>>
    /\ Stop(c)

(* The client's socket ends.                                               *)
onStop(c) == "disconnect" \in Inputs /\ IsUp(c) /\ Stop(c)
=============================================================================
