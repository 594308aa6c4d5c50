----------------------------- MODULE GateLogin ------------------------------
(***************************************************************************)
(* Logging in: clients' connections in the gate, the platform that knows   *)
(* their accounts and a game that opens a session for the uid of each      *)
(* stream.  The game is GateSession's, seen from the gate: one session per *)
(* uid, the last stream's, which gets every answer to that uid.            *)
(***************************************************************************)
EXTENDS Naturals, Sequences

CONSTANTS
    Conns, Accounts, Streams, NoUid, NoStream, NoRequest,
    MaxRequests,    \* bound on the requests of each client
    Known,          \* the accounts there are from the start
    Started,        \* the second the platform starts in
    Inputs,     \* what the clients may do
    Faults      \* the kinds of failure that may happen

InputKinds == {"retry", "relogin", "password", "disconnect", "burst"}
FaultKinds == {"database", "restart", "noServer", "ban", "streamEnds"}

ASSUME LoginAssumption ==
    /\ NoUid = 0
    /\ NoStream \notin Streams
    /\ NoRequest \notin Conns
    /\ MaxRequests \in [Conns -> Nat]
    /\ Known \subseteq Accounts
    /\ Started \in Nat
    /\ Inputs \subseteq InputKinds
    /\ Faults \subseteq FaultKinds

VARIABLES
    conn, state, connUid, current, requested, waits,    \* the Conns
    stream, owner, bound, said, fromGame,               \* their streams
    accounts, uidCounter, now, registering,             \* the platform
    inbox, calls, acks,                                 \* PfRpc
    opening,    \* the streams whose LoginGameReq the game has not seen
    speakers,   \* the streams of the game's sessions
    logins      \* Play's mailbox

Conn == INSTANCE GateConn
Platform == INSTANCE PlatformAuth

connVars == <<conn, state, connUid, current, requested, waits>>
streamVars == <<stream, owner, bound, said, fromGame>>
platformVars == <<accounts, uidCounter, now, registering>>
gameVars == <<opening, speakers, logins>>
pfVars == <<inbox, calls, acks>>
vars == <<connVars, streamVars, platformVars, pfVars, gameVars>>

TypeOK ==
    /\ Conn!TypeOK
    /\ Platform!TypeOK
    /\ opening \subseteq Streams
    /\ speakers \subseteq Streams
    /\ logins \in Seq(Nat)

Init ==
    /\ Conn!Init
    /\ Platform!Init
    /\ opening = {}
    /\ speakers = {}
    /\ logins = <<>>

-----------------------------------------------------------------------------
(* The client of c asks to log in or to register, through PfRpc.           *)
ClientAsks(c) ==
    /\ \E a \in Accounts :
         \/ Conn!onLogin(c) /\ Platform!Invoke(Conn!Request(c, "login", a))
         \/ Conn!onRegister(c) /\ Platform!Invoke(Conn!Request(c, "register", a))
    /\ UNCHANGED <<platformVars, acks, gameVars>>

ClientActs(c) ==
    /\ Conn!onWsMsg(c) \/ Conn!onStop(c)
    /\ UNCHANGED <<platformVars, pfVars, gameVars>>

(* RequestCallback: the Conn takes one of the answers to it.               *)
Callback(c) ==
    /\ \E x \in acks :
         /\ x.req.conn = c
         /\ acks' = acks \ {x}
         /\ \/ x.req.kind = "login" /\ Conn!authLoginCb(c, x.code, x.uid)
            \/ x.req.kind = "register" /\ Conn!regCb(c, x.code, x.uid)
    /\ opening' = opening \cup {s \in Streams : stream[s] # stream'[s]}
    /\ UNCHANGED <<platformVars, inbox, calls, speakers, logins>>

FromStream(c) ==
    /\ \E s \in Streams : Conn!Receives(c, s) \/ Conn!onStreamClosed(c, s)
    /\ UNCHANGED <<platformVars, pfVars, gameVars>>

PlatformStep ==
    /\ Platform!Step
    /\ UNCHANGED <<connVars, streamVars, gameVars>>

PlatformRestarts ==
    /\ Platform!Restart
    /\ UNCHANGED <<connVars, streamVars, gameVars>>

Expires ==
    /\ \E r \in calls : Platform!InvokeFails(r)
    /\ UNCHANGED <<connVars, streamVars, gameVars>>

-----------------------------------------------------------------------------
Ends(s) == stream' = [stream EXCEPT ![s] = "ended"]

(* The game opens a session for the uid of a stream, in the place of any   *)
(* other, and passes the login to Play; a banned one is refused.           *)
GameOpens(s) ==
    /\ s \in opening
    /\ opening' = opening \ {s}
    /\ \/ /\ stream[s] = "open"
          /\ speakers' = {t \in speakers : bound[t] # bound[s]} \cup {s}
          /\ logins' = Append(logins, bound[s])
          /\ UNCHANGED stream
       \/ /\ stream[s] = "open"
          /\ "ban" \in Faults
          /\ Ends(s)
          /\ UNCHANGED <<speakers, logins>>
       \/ /\ stream[s] # "open"
          /\ UNCHANGED <<stream, speakers, logins>>
    /\ UNCHANGED <<connVars, owner, bound, said, fromGame,
                   platformVars, pfVars>>

(* Play's LoginGameAck goes to the uid's session of the moment.            *)
PlayAnswers ==
    /\ logins # <<>>
    /\ logins' = Tail(logins)
    /\ fromGame' = [s \in Streams |->
                      IF s \in speakers /\ bound[s] = Head(logins) /\ stream[s] = "open"
                      THEN Append(fromGame[s], Head(logins)) ELSE fromGame[s]]
    /\ UNCHANGED <<connVars, stream, owner, bound, said,
                   platformVars, pfVars, opening, speakers>>

(* A stream without a session, or a broken one, ends.                      *)
StreamEnds(s) ==
    /\ "streamEnds" \in Faults
    /\ stream[s] = "open"
    /\ s \notin opening
    /\ Ends(s)
    /\ speakers' = speakers \ {s}
    /\ UNCHANGED <<connVars, owner, bound, said, fromGame,
                   platformVars, pfVars, opening, logins>>

(* The game sees that the gate closed a stream.                            *)
GameCloses(s) ==
    /\ s \in speakers
    /\ stream[s] = "closed"
    /\ speakers' = speakers \ {s}
    /\ UNCHANGED <<connVars, streamVars, platformVars,
                   pfVars, opening, logins>>

Next ==
    \/ PlatformStep \/ PlatformRestarts \/ Expires \/ PlayAnswers
    \/ \E c \in Conns : ClientAsks(c) \/ ClientActs(c) \/ Callback(c) \/ FromStream(c)
    \/ \E s \in Streams : GameOpens(s) \/ StreamEnds(s) \/ GameCloses(s)

Spec == Init /\ [][Next]_vars

(* What is asked is handled or expires and what is sent arrives; a client  *)
(* need not ask, and a stream need not end.                                *)
Fairness ==
    /\ WF_vars(Expires)
    /\ WF_vars(PlayAnswers)
    /\ \A c \in Conns : WF_vars(Callback(c)) /\ WF_vars(FromStream(c))
    /\ \A s \in Streams : WF_vars(GameOpens(s))

FairSpec == Spec /\ Fairness

-----------------------------------------------------------------------------
StreamsOf(c) == {s \in Streams : stream[s] # "unused" /\ owner[s] = c}

(* Another client logged in the uid that c logs in.                        *)
Contested(c) ==
    \E s \in StreamsOf(c), t \in Streams :
        stream[t] # "unused" /\ owner[t] # c /\ bound[t] = bound[s]

(* A stream carries one uid, the one that it was opened for, unless its    *)
(* login is contested: no answer to a registration nor the login of        *)
(* another account lets the Conn of a client that waits for its answers    *)
(* speak for another uid on it (router.go onWsMsg, service.go regCb and    *)
(* LoginAck).                                                              *)
StreamOneUid ==
    \A s \in Streams : said[s] \subseteq {bound[s]} \/ Contested(owner[s])

(* No two accounts have a uid, whatever restarts of the platform lie       *)
(* between their registrations, provided that these take a second each     *)
(* (account.go NextUID).                                                   *)
UidsUnique ==
    \A a, b \in Accounts : accounts[a] = accounts[b] /\ a # b => accounts[a] = NoUid

(* A callback is for the last request of its client: no late answer of the *)
(* platform follows the timeout's (platformrpc HandleMessage).  The client *)
(* of a contested login may take the other's answer for its own.           *)
CallbackOfLast ==
    \A x \in acks :
        /\ x.req \notin calls
        /\ x.req.n = requested[x.req.conn] \/ Contested(x.req.conn)

(* Liveness: a login and a registration are answered, or the Conn ends,    *)
(* but for a login that the platform refuses, which nobody is told of, and *)
(* one whose session goes to another client's login.                       *)
RequestsEnd ==
    \A c \in Conns :
        waits[c] \in {"login", "register"} ~>
            waits[c] \in {"nothing", "silence"} \/ ~Conn!IsUp(c) \/ Contested(c)

=============================================================================
