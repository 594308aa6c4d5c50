--------------------------- MODULE GateLoginProofs ---------------------------
(***************************************************************************)
(* Theorems about GateLogin, for every value of its constants: the uids of *)
(* the platform's accounts differ, and a client that waits for its answers *)
(* has one request at a time on its way, from the callback to the game's   *)
(* answer, so that a stream carries the uid that it was opened for.        *)
(***************************************************************************)
EXTENDS GateLogin, MailboxLemmas, TLAPS

(* The counter is past every uid that was given, and the clock is past the *)
(* counter, so that a process that starts from the clock does not go back. *)
Given(u) == u \in Nat /\ u <= uidCounter

UidInv ==
    /\ uidCounter \in Nat /\ now \in Nat
    /\ uidCounter <= now
    /\ \A a \in Accounts : Given(accounts[a])
    /\ DOMAIN accounts = Accounts
    /\ UidsUnique

LEMMA UidInit == Init => UidInv
<1> SUFFICES ASSUME Init PROVE UidInv
  OBVIOUS
<1>1. Started \in Nat
  BY LoginAssumption DEF LoginAssumption
<1>2. uidCounter = Started /\ now = Started
  BY DEF Init, Platform!Init
<1>3. /\ accounts \in [Accounts -> 0..Started]
      /\ {a \in Accounts : accounts[a] # NoUid} = Known
      /\ \A a, b \in Known : accounts[a] = accounts[b] => a = b
  BY DEF Init, Platform!Init
<1>4. UidsUnique
  BY <1>3 DEF UidsUnique
<1>5. QED
  BY <1>1, <1>2, <1>3, <1>4 DEF UidInv, Given

(* Only the platform's actor and its restart touch accounts and counter.   *)
LEMMA UidNext ==
    ASSUME "burst" \notin Inputs, UidInv, [Next]_vars
    PROVE  UidInv'
<1> DEFINE uidVars == <<accounts, uidCounter, now>>
<1>1. CASE UNCHANGED uidVars
  BY <1>1 DEF UidInv, Given, UidsUnique
<1>2. ASSUME Platform!RegisterInserts
      PROVE  UidInv'
  <2> DEFINE u == uidCounter + 1
  <2>1. uidCounter' = u /\ now' = now + 1
    BY <1>2 DEF Platform!RegisterInserts, Platform!TimePasses
  <2>2. PICK r : accounts' = accounts \/ accounts' = [accounts EXCEPT ![r] = u]
    BY <1>2 DEF Platform!RegisterInserts, Platform!Insert
  <2>3. \A a \in Accounts : accounts'[a] = accounts[a] \/ (a = r /\ accounts'[a] = u)
    BY <2>2 DEF UidInv
  <2>4. uidCounter' \in Nat /\ now' \in Nat /\ uidCounter' <= now'
    BY <2>1 DEF UidInv
  <2>5. \A a \in Accounts : Given(accounts[a])'
    BY <2>1, <2>3 DEF UidInv, Given
  <2>6. UidsUnique'
    <3>1. \A a \in Accounts : accounts[a] \in Nat /\ accounts[a] < u
      BY DEF UidInv, Given
    <3>2. SUFFICES ASSUME NEW a \in Accounts, NEW b \in Accounts,
                          accounts'[a] = accounts'[b], a # b
                   PROVE  accounts'[a] = NoUid
      BY DEF UidsUnique
    <3>3. accounts'[a] = accounts[a] /\ accounts'[b] = accounts[b]
      BY <2>3, <3>1, <3>2
    <3>4. QED
      BY <3>2, <3>3 DEF UidInv, UidsUnique
  <2>7. DOMAIN accounts' = Accounts
    BY <2>2 DEF UidInv
  <2>8. QED
    BY <2>4, <2>5, <2>6, <2>7 DEF UidInv
<1>3. ASSUME Platform!Restart
      PROVE  UidInv'
  <2>1. uidCounter' = now /\ UNCHANGED <<accounts, now>>
    BY <1>3 DEF Platform!Restart, Platform!StartCounter
  <2>2. QED
    BY <2>1 DEF UidInv, Given, UidsUnique
<1>4. CASE PlatformStep
  <2>1. Platform!RegisterInserts \/ \E r \in inbox : Platform!RegisterFinds(r) \/ Platform!Login(r)
    BY <1>4 DEF PlatformStep, Platform!Step
  <2>2. ASSUME NEW r \in inbox, Platform!RegisterFinds(r) \/ Platform!Login(r)
        PROVE  UNCHANGED uidVars
    BY <2>2 DEF Platform!RegisterFinds, Platform!Login, Platform!platformVars
  <2>3. QED
    BY <1>1, <1>2, <2>1, <2>2
<1>5. CASE PlatformRestarts
  BY <1>3, <1>5 DEF PlatformRestarts
<1>6. CASE Expires
  BY <1>1, <1>6 DEF Expires, Platform!InvokeFails, Platform!platformVars
<1>7. CASE PlayAnswers
  BY <1>1, <1>7 DEF PlayAnswers, platformVars
<1>8. ASSUME NEW c \in Conns,
             ClientAsks(c) \/ ClientActs(c) \/ Callback(c) \/ FromStream(c)
      PROVE  UidInv'
  BY <1>1, <1>8 DEF ClientAsks, ClientActs, Callback, FromStream, platformVars
<1>9. ASSUME NEW s \in Streams, GameOpens(s) \/ StreamEnds(s) \/ GameCloses(s)
      PROVE  UidInv'
  BY <1>1, <1>9 DEF GameOpens, StreamEnds, GameCloses, platformVars
<1>10. CASE UNCHANGED vars
  BY <1>1, <1>10 DEF vars, platformVars
<1>11. QED
  BY <1>4, <1>5, <1>6, <1>7, <1>8, <1>9, <1>10 DEF Next

(* Whatever requests, failures, timeouts and restarts there are, no two    *)
(* accounts share a uid, if a registration takes its second (account.go    *)
(* NextUID, which restarts from the clock).                                *)
THEOREM UniqueUids ==
    ASSUME "burst" \notin Inputs
    PROVE  Spec => []UidsUnique
<1>1. Init => UidInv
  BY UidInit
<1>2. UidInv /\ [Next]_vars => UidInv'
  BY UidNext
<1>3. UidInv => UidsUnique
  BY DEF UidInv
<1>4. QED
  BY <1>1, <1>2, <1>3, PTL DEF Spec

-----------------------------------------------------------------------------
(* A stream that was opened stays so, with its owner and its uid.          *)
Used(s) == stream[s] # "unused"
Steady ==
    \A s \in Streams : Used(s) => Used(s)' /\ owner'[s] = owner[s] /\ bound'[s] = bound[s]

(* The requests whose callback is still to come.                           *)
Waiting == calls \cup {x.req : x \in acks}

(* What the variables hold, whatever the clients do: a stream is opened    *)
(* before it is used, the answers on it and Play's logins are for the uids *)
(* of LoginGameReqs, and a request is answered once.                       *)
Shape ==
    /\ owner \in [Streams -> Conns \cup {NoRequest}]
    /\ DOMAIN requested = Conns
    /\ \A s \in Streams : ~Used(s) =>
         /\ s \notin opening /\ s \notin speakers
         /\ fromGame[s] = <<>> /\ said[s] = {}
         /\ \A c \in Conns : current[c] # s
    /\ \A s \in Streams : \A u : InBox(fromGame[s], u) => u = bound[s]
    /\ \A u : InBox(logins, u) => \E s \in Streams : Used(s) /\ bound[s] = u
    /\ \A s, t \in speakers : bound[s] = bound[t] => s = t

Asked ==
    /\ \A r \in Waiting : r.n <= requested[r.conn]
    /\ \A x \in acks : x.req \notin calls
    /\ \A x, y \in acks : x.req = y.req => x = y

Base == TypeOK /\ Shape /\ Asked

Acks == [req : Platform!Requests, code : {"OK", "refused", "error"}, uid : Nat]

LEMMA PlatformTypes ==
    ASSUME Base
    PROVE  /\ accounts \in [Accounts -> Nat] /\ uidCounter \in Nat /\ now \in Nat
           /\ registering \in Platform!Requests \cup {NoRequest}
           /\ inbox \subseteq Platform!Requests
           /\ calls \subseteq Platform!Requests /\ acks \subseteq Acks
<1>1. Platform!Uids \cup {NoUid} = Nat
  BY LoginAssumption DEF LoginAssumption, Platform!Uids
<1>2. QED
  BY <1>1 DEF Base, TypeOK, Platform!TypeOK, Acks

LEMMA PlatformTypesNext ==
    ASSUME accounts' \in [Accounts -> Nat], uidCounter' \in Nat, now' \in Nat,
           registering' \in Platform!Requests \cup {NoRequest},
           inbox' \subseteq Platform!Requests,
           calls' \subseteq Platform!Requests, acks' \subseteq Acks
    PROVE  Platform!TypeOK'
<1>1. Platform!Uids \cup {NoUid} = Nat
  BY LoginAssumption DEF LoginAssumption, Platform!Uids
<1>2. QED
  BY <1>1 DEF Platform!TypeOK, Acks

LEMMA ConnTypes ==
    ASSUME Base
    PROVE  /\ conn \in [Conns -> {"up", "stopped"}]
           /\ state \in [Conns -> Conn!connState]
           /\ connUid \in [Conns -> Nat]
           /\ current \in [Conns -> Streams \cup {NoStream}]
           /\ \A c \in Conns : current[c] # NoStream =>
                                 conn[c] = "up" /\ owner[current[c]] = c
           /\ \A c \in Conns : requested[c] \in 0..MaxRequests[c]
           /\ waits \in [Conns -> {"nothing", "login", "register", "silence"}]
           /\ stream \in [Streams -> {"unused", "open", "ended", "closed"}]
           /\ owner \in [Streams -> Conns \cup {NoRequest}]
           /\ \A s \in Streams : Used(s) => owner[s] \in Conns
           /\ bound \in [Streams -> Nat]
           /\ said \in [Streams -> SUBSET Nat]
           /\ fromGame \in [Streams -> Seq(Nat)]
           /\ \A c \in Conns : current[c] # NoStream => Used(current[c])
<1>1. /\ Conn!LoginGameReq \cup {NoUid} = Nat /\ Nat \cup {NoUid} = Nat
      /\ Conn!Frame = Nat /\ Conn!LoginGameAck = Nat
  BY LoginAssumption
     DEF LoginAssumption, Conn!LoginGameReq, Conn!LoginGameAck, Conn!Frame
<1>2. \A c \in Conns : current[c] # NoStream => Used(current[c])
  BY DEF Base, TypeOK, Conn!TypeOK, Shape
<1>3. QED
  BY <1>1, <1>2 DEF Base, TypeOK, Conn!TypeOK, Shape, Used

LEMMA ConnTypesNext ==
    ASSUME conn' \in [Conns -> {"up", "stopped"}],
           state' \in [Conns -> Conn!connState],
           connUid' \in [Conns -> Nat],
           current' \in [Conns -> Streams \cup {NoStream}],
           \A c \in Conns : current'[c] # NoStream =>
                              conn'[c] = "up" /\ owner'[current'[c]] = c,
           \A c \in Conns : requested'[c] \in 0..MaxRequests[c],
           waits' \in [Conns -> {"nothing", "login", "register", "silence"}],
           stream' \in [Streams -> {"unused", "open", "ended", "closed"}],
           \A s \in Streams : Used(s)' => owner'[s] \in Conns,
           bound' \in [Streams -> Nat],
           said' \in [Streams -> SUBSET Nat],
           fromGame' \in [Streams -> Seq(Nat)]
    PROVE  Conn!TypeOK'
<1>1. /\ Conn!LoginGameReq \cup {NoUid} = Nat /\ Nat \cup {NoUid} = Nat
      /\ Conn!Frame = Nat /\ Conn!LoginGameAck = Nat
  BY LoginAssumption
     DEF LoginAssumption, Conn!LoginGameReq, Conn!LoginGameAck, Conn!Frame
<1>2. QED
  BY <1>1 DEF Conn!TypeOK, Used

-----------------------------------------------------------------------------
(* The initial state, in which nobody has asked for anything.              *)
LEMMA BaseInit == Init => Base
<1> SUFFICES ASSUME Init PROVE Base
  OBVIOUS
<1>1. Platform!TypeOK
  <2>1. /\ accounts \in [Accounts -> 0..Started] /\ now = Started /\ uidCounter = now
        /\ registering = NoRequest /\ inbox = {} /\ calls = {} /\ acks = {}
    BY DEF Init, Platform!Init
  <2>2. Started \in Nat /\ Platform!Uids \cup {NoUid} = Nat
    BY LoginAssumption DEF LoginAssumption, Platform!Uids
  <2>3. accounts \in [Accounts -> Nat]
    BY <2>1, <2>2
  <2>4. QED
    BY <2>1, <2>2, <2>3 DEF Platform!TypeOK
<1>2. /\ conn = [c \in Conns |-> "up"]
      /\ state = [c \in Conns |-> "Anon"]
      /\ connUid = [c \in Conns |-> NoUid]
      /\ current = [c \in Conns |-> NoStream]
      /\ requested = [c \in Conns |-> 0]
      /\ waits = [c \in Conns |-> "nothing"]
      /\ stream = [s \in Streams |-> "unused"]
      /\ owner = [s \in Streams |-> NoRequest]
      /\ bound = [s \in Streams |-> NoUid]
      /\ said = [s \in Streams |-> {}]
      /\ fromGame = [s \in Streams |-> <<>>]
  BY DEF Init, Conn!Init
<1>3. Conn!TypeOK
  <2>1. \A c \in Conns : 0 \in 0..MaxRequests[c]
    BY LoginAssumption DEF LoginAssumption
  <2>2. NoUid = 0 /\ <<>> \in Seq(Nat)
    BY LoginAssumption DEF LoginAssumption
  <2>3. QED
    BY <1>2, <2>1, <2>2
       DEF Conn!TypeOK, Conn!connState, Conn!LoginGameReq, Conn!LoginGameAck, Conn!Frame
<1>4. opening = {} /\ speakers = {} /\ logins = <<>> /\ calls = {} /\ acks = {}
  BY DEF Init, Platform!Init
<1>5. Shape
  <2>1. \A c \in Conns : \A s \in Streams : current[c] # s
    BY <1>2, LoginAssumption DEF LoginAssumption
  <2>2. \A s \in Streams : \A u : ~InBox(fromGame[s], u) /\ ~InBox(logins, u)
    BY <1>2, <1>4, ShortLists
  <2>3. QED
    BY <1>2, <1>4, <2>1, <2>2, ShortLists DEF Shape
<1>6. Asked
  BY <1>4 DEF Asked, Waiting
<1>7. TypeOK
  BY <1>1, <1>3, <1>4 DEF TypeOK
<1>8. QED
  BY <1>5, <1>6, <1>7 DEF Base

(* An answer reaches the goroutine that waits for it, and only that one.   *)
LEMMA Responds ==
    ASSUME Base, NEW r \in Platform!Requests, NEW code \in {"OK", "refused", "error"},
           NEW u \in Nat, Platform!Respond(r, code, u)
    PROVE  /\ calls' \subseteq Platform!Requests /\ acks' \subseteq Acks
           /\ Waiting' \subseteq Waiting
           /\ \A x \in acks' : x.req \notin calls'
           /\ \A x, y \in acks' : x.req = y.req => x = y
<1> DEFINE a == [req |-> r, code |-> code, uid |-> u]
<1>1. /\ acks' = IF r \in calls THEN acks \cup {a} ELSE acks
      /\ calls' = calls \ {r}
  BY DEF Platform!Respond, Platform!AuthAck
<1>2. a \in Acks /\ a.req = r
  BY DEF Acks
<1>3. \A x \in acks' : x \in acks \/ (r \in calls /\ x = a)
  BY <1>1
<1> HIDE DEF a
<1>4. calls' \subseteq Platform!Requests /\ acks' \subseteq Acks
  BY <1>1, <1>2, <1>3, PlatformTypes
<1>5. Waiting' \subseteq Waiting
  BY <1>1, <1>2, <1>3 DEF Waiting
<1>6. \A x \in acks' : x.req \notin calls'
  BY <1>1, <1>2, <1>3 DEF Base, Asked
<1>7. \A x, y \in acks' : x.req = y.req => x = y
  BY <1>2, <1>3 DEF Base, Asked
<1>8. QED
  BY <1>4, <1>5, <1>6, <1>7

LEMMA NotAnswered ==
    ASSUME Base, UNCHANGED <<calls, acks>>
    PROVE  /\ calls' \subseteq Platform!Requests /\ acks' \subseteq Acks
           /\ Waiting' \subseteq Waiting
           /\ \A x \in acks' : x.req \notin calls'
           /\ \A x, y \in acks' : x.req = y.req => x = y
<1>1. calls' = calls /\ acks' = acks /\ Waiting' = Waiting
  BY DEF Waiting
<1>2. QED
  BY <1>1, PlatformTypes DEF Base, Asked

(* The platform takes its requests, restarts, or is late: it answers those *)
(* who wait.                                                               *)
LEMMA PlatformKeeps ==
    ASSUME Base, PlatformStep \/ PlatformRestarts \/ Expires
    PROVE  /\ Base' /\ Waiting' \subseteq Waiting
           /\ UNCHANGED <<connVars, streamVars, gameVars>>
<1> DEFINE Answers ==
      /\ calls' \subseteq Platform!Requests /\ acks' \subseteq Acks
      /\ Waiting' \subseteq Waiting
      /\ \A x \in acks' : x.req \notin calls'
      /\ \A x, y \in acks' : x.req = y.req => x = y
<1> DEFINE Types ==
      /\ accounts' \in [Accounts -> Nat] /\ uidCounter' \in Nat /\ now' \in Nat
      /\ registering' \in Platform!Requests \cup {NoRequest}
      /\ inbox' \subseteq Platform!Requests
<1>t. /\ accounts \in [Accounts -> Nat] /\ uidCounter \in Nat /\ now \in Nat
      /\ registering \in Platform!Requests \cup {NoRequest}
      /\ inbox \subseteq Platform!Requests
      /\ calls \subseteq Platform!Requests
  BY PlatformTypes
<1>n. NoUid \in Nat
  BY LoginAssumption DEF LoginAssumption
<1>1. UNCHANGED <<connVars, streamVars, gameVars>>
  BY DEF PlatformStep, PlatformRestarts, Expires
<1>2. ASSUME Platform!RegisterInserts
      PROVE  Types /\ Answers
  <2> DEFINE u == uidCounter + 1
  <2>1. /\ registering # NoRequest /\ registering' = NoRequest /\ uidCounter' = u
        /\ now' = now + 1 \/ now' = now
        /\ inbox' = inbox
    BY <1>2 DEF Platform!RegisterInserts, Platform!TimePasses
  <2>2. registering \in Platform!Requests /\ u \in Nat /\ now' \in Nat
    BY <1>t, <2>1
  <2>3. accounts' = accounts \/ accounts' = [accounts EXCEPT ![registering.account] = u]
    BY <1>2 DEF Platform!RegisterInserts, Platform!Insert
  <2>4. accounts' \in [Accounts -> Nat]
    BY <1>t, <2>2, <2>3
  <2>5. \/ Platform!Respond(registering, "OK", u)
        \/ Platform!Respond(registering, "refused", NoUid)
    BY <1>2 DEF Platform!RegisterInserts
  <2>6. Answers
    BY <1>n, <2>2, <2>5, Responds
  <2>7. QED
    BY <1>t, <2>1, <2>2, <2>4, <2>6
<1>3. ASSUME NEW r \in inbox, Platform!RegisterFinds(r)
      PROVE  Types /\ Answers
  <2>1. r \in Platform!Requests
    BY <1>t
  <2>2. /\ UNCHANGED <<accounts, uidCounter, now>>
        /\ inbox' = inbox \ {r}
        /\ \/ Platform!Respond(r, "refused", NoUid) /\ UNCHANGED registering
           \/ registering' = r /\ UNCHANGED <<calls, acks>>
    BY <1>3 DEF Platform!RegisterFinds, Platform!Take
  <2>3. Answers
    BY <1>n, <2>1, <2>2, Responds, NotAnswered
  <2>4. Types
    BY <1>t, <2>1, <2>2
  <2>5. QED
    BY <2>3, <2>4
<1>4. ASSUME NEW r \in inbox, Platform!Login(r)
      PROVE  Types /\ Answers
  <2>1. r \in Platform!Requests /\ accounts[r.account] \in Nat
    BY <1>t DEF Platform!Requests
  <2>2. /\ UNCHANGED <<accounts, uidCounter, now, registering>>
        /\ inbox' = inbox \ {r}
        /\ \/ Platform!Respond(r, "OK", accounts[r.account])
           \/ Platform!Respond(r, "refused", NoUid)
    BY <1>4 DEF Platform!Login, Platform!Take, Platform!platformVars
  <2>3. Answers
    BY <1>n, <2>1, <2>2, Responds
  <2>4. Types
    BY <1>t, <2>2
  <2>5. QED
    BY <2>3, <2>4
<1>5. ASSUME Platform!Restart
      PROVE  Types /\ Answers
  <2>1. /\ registering' = NoRequest /\ uidCounter' = now
        /\ UNCHANGED <<accounts, now, inbox, calls, acks>>
    BY <1>5 DEF Platform!Restart, Platform!StartCounter
  <2>2. Answers
    BY <2>1, NotAnswered
  <2>3. QED
    BY <1>t, <2>1, <2>2
<1>6. ASSUME NEW r \in calls, Platform!InvokeFails(r)
      PROVE  Types /\ Answers
  <2>1. /\ Platform!Respond(r, "error", NoUid)
        /\ UNCHANGED <<accounts, uidCounter, now, registering, inbox>>
    BY <1>6 DEF Platform!InvokeFails, Platform!platformVars
  <2>2. Answers
    BY <1>n, <1>t, <2>1, Responds
  <2>3. QED
    BY <1>t, <2>1, <2>2
<1>7. Types /\ Answers
  BY <1>2, <1>3, <1>4, <1>5, <1>6
     DEF PlatformStep, Platform!Step, PlatformRestarts, Expires
<1> HIDE DEF Types, Answers
<1>8. Platform!TypeOK'
  BY <1>7, PlatformTypesNext DEF Types, Answers
<1>9. TypeOK'
  BY <1>1, <1>8
     DEF Base, TypeOK, Conn!TypeOK, connVars, streamVars, gameVars
<1>10. Shape'
  BY <1>1 DEF Base, Shape, Used, connVars, streamVars, gameVars
<1>11. Asked'
  <2>1. requested' = requested
    BY <1>1 DEF connVars
  <2>2. QED
    BY <1>7, <2>1 DEF Answers, Base, Asked
<1>12. QED
  BY <1>1, <1>7, <1>9, <1>10, <1>11 DEF Answers, Base

-----------------------------------------------------------------------------
(* What the ends of streams and the game's own steps keep.                 *)
LEMMA GameKeeps ==
    ASSUME Base, UNCHANGED <<connVars, owner, bound, said, platformVars, pfVars>>,
           stream' \in [Streams -> {"unused", "open", "ended", "closed"}],
           \A s \in Streams : Used(s)' <=> Used(s),
           fromGame' \in [Streams -> Seq(Nat)], logins' \in Seq(Nat),
           opening' \subseteq opening,
           \A s \in speakers' : s \in speakers \/ s \in opening,
           \A s \in Streams : ~Used(s) => fromGame'[s] = <<>>,
           \A s \in Streams : \A u : InBox(fromGame'[s], u) => u = bound[s],
           \A u : InBox(logins', u) => \E s \in Streams : Used(s) /\ bound[s] = u,
           \A s, t \in speakers' : bound[s] = bound[t] => s = t
    PROVE  Base'
<1>1. /\ UNCHANGED <<conn, state, connUid, current, requested, waits>>
      /\ UNCHANGED <<owner, bound, said>>
      /\ UNCHANGED <<accounts, uidCounter, now, registering, inbox, calls, acks>>
  BY DEF connVars, platformVars, pfVars
<1>2. Conn!TypeOK'
  BY <1>1, ConnTypes, ConnTypesNext
<1>3. Platform!TypeOK'
  BY <1>1, PlatformTypes, PlatformTypesNext
<1>4. opening' \subseteq Streams /\ speakers' \subseteq Streams
  BY DEF Base, TypeOK
<1>5. Shape'
  <2>1. \A s \in Streams : ~Used(s)' =>
         /\ s \notin opening' /\ s \notin speakers'
         /\ fromGame'[s] = <<>> /\ said'[s] = {}
         /\ \A c \in Conns : current'[c] # s
    BY <1>1 DEF Base, Shape
  <2>2. \A u : InBox(logins', u) => \E s \in Streams : Used(s)' /\ bound'[s] = u
    BY <1>1
  <2>3. owner' \in [Streams -> Conns \cup {NoRequest}] /\ DOMAIN requested' = Conns
    BY <1>1, ConnTypes DEF Base, Shape
  <2>4. QED
    BY <1>1, <2>1, <2>2, <2>3 DEF Shape
<1>6. Asked'
  BY <1>1 DEF Base, Asked, Waiting
<1>7. QED
  BY <1>2, <1>3, <1>4, <1>5, <1>6 DEF Base, TypeOK

LEMMA EndsStream ==
    ASSUME Base, NEW s \in Streams, stream[s] = "open", Ends(s)
    PROVE  /\ stream' \in [Streams -> {"unused", "open", "ended", "closed"}]
           /\ \A t \in Streams : Used(t)' <=> Used(t)
<1>1. \A t \in Streams : stream'[t] = IF t = s THEN "ended" ELSE stream[t]
  BY ConnTypes DEF Ends
<1>2. QED
  BY <1>1, ConnTypes DEF Ends, Used

LEMMA OpensBase ==
    ASSUME Base, NEW s \in Streams, GameOpens(s)
    PROVE  Base' /\ Steady
<1>1. /\ s \in opening /\ opening' = opening \ {s}
      /\ UNCHANGED <<connVars, owner, bound, said, fromGame, platformVars, pfVars>>
  BY DEF GameOpens
<1>2. Used(s) /\ bound[s] \in Nat
  BY <1>1, ConnTypes DEF Base, Shape
<1>3. logins \in Seq(Nat)
  BY DEF Base, TypeOK
<1>4. \A t \in Streams : /\ ~Used(t) => fromGame'[t] = <<>>
                         /\ \A u : InBox(fromGame'[t], u) => u = bound[t]
  BY <1>1 DEF Base, Shape
<1>5. fromGame' \in [Streams -> Seq(Nat)]
  BY <1>1, ConnTypes
<1>6. CASE /\ speakers' = {t \in speakers : bound[t] # bound[s]} \cup {s}
           /\ logins' = Append(logins, bound[s])
           /\ UNCHANGED stream
  <2>1. /\ logins' \in Seq(Nat)
        /\ \A u : InBox(logins', u) <=> InBox(logins, u) \/ u = bound[s]
    BY <1>2, <1>3, <1>6, AppendBox
  <2>2. \A u : InBox(logins', u) => \E t \in Streams : Used(t) /\ bound[t] = u
    BY <1>2, <2>1 DEF Base, Shape
  <2>3. \A t, v \in speakers' : bound[t] = bound[v] => t = v
    BY <1>6 DEF Base, Shape
  <2>4. \A t \in speakers' : t \in speakers \/ t \in opening
    BY <1>1, <1>6
  <2>5. /\ stream' \in [Streams -> {"unused", "open", "ended", "closed"}]
        /\ \A t \in Streams : Used(t)' <=> Used(t)
    BY <1>6, ConnTypes DEF Used
  <2>6. QED
    BY <1>1, <1>4, <1>5, <2>1, <2>2, <2>3, <2>4, <2>5, GameKeeps DEF Steady
<1>7. CASE /\ \/ stream[s] = "open" /\ Ends(s)
              \/ UNCHANGED stream
           /\ UNCHANGED <<speakers, logins>>
  <2>1. /\ stream' \in [Streams -> {"unused", "open", "ended", "closed"}]
        /\ \A t \in Streams : Used(t)' <=> Used(t)
    BY <1>7, EndsStream, ConnTypes DEF Used
  <2>2. /\ \A u : InBox(logins', u) => \E t \in Streams : Used(t) /\ bound[t] = u
        /\ \A t, v \in speakers' : bound[t] = bound[v] => t = v
        /\ logins' \in Seq(Nat)
    BY <1>3, <1>7 DEF Base, Shape
  <2>3. QED
    BY <1>1, <1>4, <1>5, <1>7, <2>1, <2>2, GameKeeps DEF Steady
<1>8. QED
  BY <1>6, <1>7 DEF GameOpens

LEMMA EndsBase ==
    ASSUME Base, NEW s \in Streams, StreamEnds(s) \/ GameCloses(s)
    PROVE  Base' /\ Steady /\ UNCHANGED <<fromGame, opening, logins>>
<1>1. /\ UNCHANGED <<connVars, owner, bound, said, fromGame, platformVars, pfVars,
                     opening, logins>>
      /\ speakers' = speakers \ {s}
      /\ \/ stream[s] = "open" /\ Ends(s)
         \/ UNCHANGED stream
  BY DEF StreamEnds, GameCloses, streamVars
<1>2. /\ stream' \in [Streams -> {"unused", "open", "ended", "closed"}]
      /\ \A t \in Streams : Used(t)' <=> Used(t)
  BY <1>1, EndsStream, ConnTypes DEF Used
<1>3. fromGame' \in [Streams -> Seq(Nat)] /\ logins' \in Seq(Nat)
  BY <1>1, ConnTypes DEF Base, TypeOK
<1>4. /\ \A t \in Streams : ~Used(t) => fromGame'[t] = <<>>
      /\ \A t \in Streams : \A u : InBox(fromGame'[t], u) => u = bound[t]
      /\ \A u : InBox(logins', u) => \E t \in Streams : Used(t) /\ bound[t] = u
      /\ \A t, v \in speakers' : bound[t] = bound[v] => t = v
  BY <1>1 DEF Base, Shape
<1>5. QED
  BY <1>1, <1>2, <1>3, <1>4, GameKeeps DEF Steady

(* What an answer of Play's adds to the streams: one uid's session has it. *)
LEMMA AnswerGoes ==
    ASSUME Base, PlayAnswers
    PROVE  /\ logins \in Seq(Nat) /\ logins # <<>> /\ logins' = Tail(logins)
           /\ Head(logins) \in Nat
           /\ \A s \in Streams :
                \/ fromGame'[s] = fromGame[s]
                \/ /\ s \in speakers /\ bound[s] = Head(logins)
                   /\ fromGame'[s] = Append(fromGame[s], bound[s])
           /\ fromGame' \in [Streams -> Seq(Nat)]
           /\ UNCHANGED <<connVars, stream, owner, bound, said, platformVars,
                          pfVars, opening, speakers>>
<1>1. logins \in Seq(Nat) /\ logins # <<>> /\ logins' = Tail(logins)
  BY DEF PlayAnswers, Base, TypeOK
<1>2. Head(logins) \in Nat
  BY <1>1, TailBox
<1>3. fromGame' = [s \in Streams |->
                      IF s \in speakers /\ bound[s] = Head(logins) /\ stream[s] = "open"
                      THEN Append(fromGame[s], Head(logins)) ELSE fromGame[s]]
  BY DEF PlayAnswers
<1>4. \A s \in Streams : Append(fromGame[s], Head(logins)) \in Seq(Nat)
                         /\ fromGame[s] \in Seq(Nat)
  BY <1>2, ConnTypes
<1>5. fromGame' \in [Streams -> Seq(Nat)]
  BY <1>3, <1>4
<1>6. \A s \in Streams :
                \/ fromGame'[s] = fromGame[s]
                \/ /\ s \in speakers /\ bound[s] = Head(logins)
                   /\ fromGame'[s] = Append(fromGame[s], bound[s])
  BY <1>3
<1>7. QED
  BY <1>1, <1>2, <1>5, <1>6 DEF PlayAnswers

LEMMA AnswersBase ==
    ASSUME Base, PlayAnswers
    PROVE  Base' /\ Steady
<1>1. /\ logins \in Seq(Nat) /\ logins # <<>> /\ logins' = Tail(logins)
      /\ \A s \in Streams :
                \/ fromGame'[s] = fromGame[s]
                \/ /\ s \in speakers /\ bound[s] = Head(logins)
                   /\ fromGame'[s] = Append(fromGame[s], bound[s])
      /\ fromGame' \in [Streams -> Seq(Nat)]
      /\ UNCHANGED <<connVars, stream, owner, bound, said, platformVars,
                     pfVars, opening, speakers>>
  BY AnswerGoes
<1>2. logins' \in Seq(Nat) /\ \A u : InBox(logins', u) => InBox(logins, u)
  BY <1>1, TailBox
<1>3. \A s \in Streams : ~Used(s) => fromGame'[s] = <<>>
  BY <1>1 DEF Base, Shape
<1>4. \A s \in Streams : \A u : InBox(fromGame'[s], u) => u = bound[s]
  <2>1. SUFFICES ASSUME NEW s \in Streams,
                        fromGame'[s] = Append(fromGame[s], bound[s])
                 PROVE  \A u : InBox(fromGame'[s], u) => u = bound[s]
    BY <1>1 DEF Base, Shape
  <2>2. fromGame[s] \in Seq(Nat) /\ bound[s] \in Nat
    BY ConnTypes
  <2>3. \A u : InBox(fromGame'[s], u) <=> InBox(fromGame[s], u) \/ u = bound[s]
    BY <2>1, <2>2, AppendBox
  <2>4. QED
    BY <2>3 DEF Base, Shape
<1>5. \A u : InBox(logins', u) => \E s \in Streams : Used(s) /\ bound[s] = u
  BY <1>2 DEF Base, Shape
<1>6. /\ stream' \in [Streams -> {"unused", "open", "ended", "closed"}]
      /\ \A s \in Streams : Used(s)' <=> Used(s)
  BY <1>1, ConnTypes DEF Used
<1>7. \A s, t \in speakers' : bound[s] = bound[t] => s = t
  BY <1>1 DEF Base, Shape
<1>8. QED
  BY <1>1, <1>2, <1>3, <1>4, <1>5, <1>6, <1>7, GameKeeps DEF Steady

-----------------------------------------------------------------------------
(* What a Conn's step leaves alone: the other Conns.                       *)
OthersKeep(c) ==
    \A d \in Conns : d # c =>
        UNCHANGED <<conn[d], state[d], connUid[d], current[d], requested[d], waits[d]>>

(* A Conn's end: its stream is closed and forgotten.                       *)
LEMMA StopEffect ==
    ASSUME Base, NEW c \in Conns, Conn!Stop(c)
    PROVE  /\ conn'[c] = "stopped" /\ current'[c] = NoStream
           /\ UNCHANGED <<state, connUid, requested, waits, owner, bound, said, fromGame>>
           /\ OthersKeep(c) /\ Steady /\ Conn!TypeOK'
           /\ \A s \in Streams : Used(s)' <=> Used(s)
           /\ \A d \in Conns : current'[d] = current[d] \/ current'[d] = NoStream
<1>1. /\ conn' = [conn EXCEPT ![c] = "stopped"]
      /\ stream' = [s \in Streams |-> IF s = current[c] THEN "closed" ELSE stream[s]]
      /\ current' = [current EXCEPT ![c] = NoStream]
      /\ UNCHANGED <<state, connUid, requested, waits, owner, bound, said, fromGame>>
  BY DEF Conn!Stop, Conn!CloseCurrent, Conn!DropCurrent
<1>2. /\ \A d \in Conns : conn'[d] = IF d = c THEN "stopped" ELSE conn[d]
      /\ \A d \in Conns : current'[d] = IF d = c THEN NoStream ELSE current[d]
      /\ conn' \in [Conns -> {"up", "stopped"}]
      /\ current' \in [Conns -> Streams \cup {NoStream}]
  BY <1>1, ConnTypes
<1>3. \A s \in Streams : Used(s)' <=> Used(s)
  <2>1. NoStream \notin Streams
    BY LoginAssumption DEF LoginAssumption
  <2>2. QED
    BY <1>1, <2>1, ConnTypes DEF Used
<1>4. stream' \in [Streams -> {"unused", "open", "ended", "closed"}]
  BY <1>1, ConnTypes
<1>5. Conn!TypeOK'
  <2>1. \A d \in Conns : current'[d] # NoStream => conn'[d] = "up" /\ owner'[current'[d]] = d
    BY <1>1, <1>2, ConnTypes
  <2>2. \A s \in Streams : Used(s)' => owner'[s] \in Conns
    BY <1>1, <1>3, ConnTypes
  <2>3. QED
    BY <1>1, <1>2, <1>4, <2>1, <2>2, ConnTypes, ConnTypesNext
<1>6. OthersKeep(c)
  BY <1>1, <1>2 DEF OthersKeep
<1>7. QED
  BY <1>1, <1>2, <1>3, <1>5, <1>6 DEF Steady

LEMMA StopBase ==
    ASSUME Base, NEW c \in Conns, Conn!Stop(c),
           UNCHANGED <<platformVars, pfVars, gameVars>>
    PROVE  Base'
<1>1. /\ UNCHANGED <<requested, owner, bound, said, fromGame>> /\ Conn!TypeOK'
      /\ \A s \in Streams : Used(s)' <=> Used(s)
      /\ \A d \in Conns : current'[d] = current[d] \/ current'[d] = NoStream
  BY StopEffect
<1>2. UNCHANGED <<accounts, uidCounter, now, registering, inbox, calls, acks,
                  opening, speakers, logins>>
  BY DEF platformVars, pfVars, gameVars
<1>3. Platform!TypeOK'
  BY <1>2, PlatformTypes, PlatformTypesNext
<1>4. TypeOK'
  BY <1>1, <1>2, <1>3 DEF Base, TypeOK
<1>5. Shape'
  <2>1. \A s \in Streams : ~Used(s)' =>
         /\ s \notin opening' /\ s \notin speakers'
         /\ fromGame'[s] = <<>> /\ said'[s] = {}
         /\ \A d \in Conns : current'[d] # s
    BY <1>1, <1>2, LoginAssumption DEF Base, Shape, LoginAssumption
  <2>2. \A u : InBox(logins', u) => \E s \in Streams : Used(s)' /\ bound'[s] = u
    BY <1>1, <1>2 DEF Base, Shape
  <2>3. owner' \in [Streams -> Conns \cup {NoRequest}] /\ DOMAIN requested' = Conns
    BY <1>1, ConnTypes DEF Base, Shape
  <2>4. /\ \A s \in Streams : \A u : InBox(fromGame'[s], u) => u = bound'[s]
        /\ \A s, t \in speakers' : bound'[s] = bound'[t] => s = t
    BY <1>1, <1>2 DEF Base, Shape
  <2>5. QED
    BY <2>1, <2>2, <2>3, <2>4 DEF Shape
<1>6. Asked'
  BY <1>1, <1>2 DEF Base, Asked, Waiting
<1>7. QED
  BY <1>4, <1>5, <1>6 DEF Base

(* A request, new to everyone.                                             *)
LEMMA AsksEffect ==
    ASSUME Base, NEW c \in Conns, ClientAsks(c)
    PROVE  \E r \in Platform!Requests :
              /\ r.conn = c /\ r.n = requested[c] + 1 /\ r.kind \in {"login", "register"}
              /\ Conn!MayAsk(c)
              /\ requested' = [requested EXCEPT ![c] = @ + 1]
              /\ waits' = [waits EXCEPT ![c] = r.kind]
              /\ \/ r.kind = "login" /\ state' = state
                 \/ r.kind = "register" /\ state' = [state EXCEPT ![c] = "RegIng"]
              /\ inbox' = inbox \cup {r} /\ calls' = calls \cup {r}
              /\ UNCHANGED <<conn, connUid, current, streamVars, platformVars, acks,
                             gameVars>>
<1>1. requested[c] + 1 \in Nat
  BY ConnTypes
<1>2. PICK a \in Accounts :
         \/ Conn!onLogin(c) /\ Platform!Invoke(Conn!Request(c, "login", a))
         \/ Conn!onRegister(c) /\ Platform!Invoke(Conn!Request(c, "register", a))
  BY DEF ClientAsks
<1>3. UNCHANGED <<platformVars, acks, gameVars>>
  BY DEF ClientAsks
<1>4. CASE Conn!onLogin(c) /\ Platform!Invoke(Conn!Request(c, "login", a))
  <2>1. PICK r : r = Conn!Request(c, "login", a)
    OBVIOUS
  <2>2. r \in Platform!Requests /\ r.conn = c /\ r.n = requested[c] + 1 /\ r.kind = "login"
    BY <1>1, <2>1 DEF Conn!Request, Platform!Requests
  <2>3. inbox' = inbox \cup {r} /\ calls' = calls \cup {r}
    BY <1>4, <2>1 DEF Platform!Invoke
  <2>4. /\ Conn!MayAsk(c)
        /\ requested' = [requested EXCEPT ![c] = @ + 1]
        /\ waits' = [waits EXCEPT ![c] = "login"]
        /\ state' = state /\ UNCHANGED <<conn, connUid, current, streamVars>>
    BY <1>4 DEF Conn!onLogin, Conn!Asks, Conn!streamVars, streamVars
  <2>5. QED
    BY <1>3, <2>2, <2>3, <2>4
<1>5. CASE Conn!onRegister(c) /\ Platform!Invoke(Conn!Request(c, "register", a))
  <2>1. PICK r : r = Conn!Request(c, "register", a)
    OBVIOUS
  <2>2. r \in Platform!Requests /\ r.conn = c /\ r.n = requested[c] + 1 /\ r.kind = "register"
    BY <1>1, <2>1 DEF Conn!Request, Platform!Requests
  <2>3. inbox' = inbox \cup {r} /\ calls' = calls \cup {r}
    BY <1>5, <2>1 DEF Platform!Invoke
  <2>4. /\ Conn!MayAsk(c)
        /\ requested' = [requested EXCEPT ![c] = @ + 1]
        /\ waits' = [waits EXCEPT ![c] = "register"]
        /\ state' = [state EXCEPT ![c] = "RegIng"]
        /\ UNCHANGED <<conn, connUid, current, streamVars>>
    BY <1>5 DEF Conn!onRegister, Conn!Asks, Conn!streamVars, streamVars,
                Conn!Registers, Conn!Become
  <2>5. QED
    BY <1>3, <2>2, <2>3, <2>4
<1>6. QED
  BY <1>2, <1>4, <1>5

LEMMA AsksBase ==
    ASSUME Base, NEW c \in Conns, ClientAsks(c)
    PROVE  Base'
<1>1. PICK r \in Platform!Requests :
              /\ r.conn = c /\ r.n = requested[c] + 1 /\ r.kind \in {"login", "register"}
              /\ Conn!MayAsk(c)
              /\ requested' = [requested EXCEPT ![c] = @ + 1]
              /\ waits' = [waits EXCEPT ![c] = r.kind]
              /\ \/ r.kind = "login" /\ state' = state
                 \/ r.kind = "register" /\ state' = [state EXCEPT ![c] = "RegIng"]
              /\ inbox' = inbox \cup {r} /\ calls' = calls \cup {r}
              /\ UNCHANGED <<conn, connUid, current, streamVars, platformVars, acks,
                             gameVars>>
  BY AsksEffect
<1>2. UNCHANGED <<conn, connUid, current, stream, owner, bound, said, fromGame,
                  accounts, uidCounter, now, registering, acks, opening, speakers, logins>>
  BY <1>1 DEF streamVars, platformVars, gameVars
<1>3. requested[c] < MaxRequests[c]
  BY <1>1 DEF Conn!MayAsk
<1>4. /\ \A d \in Conns : requested'[d] = IF d = c THEN requested[c] + 1 ELSE requested[d]
      /\ \A d \in Conns : requested'[d] \in 0..MaxRequests[d]
  <2>1. DOMAIN requested = Conns
    BY DEF Base, Shape
  <2>2. \A d \in Conns : requested[d] \in 0..MaxRequests[d] /\ MaxRequests[d] \in Nat
    BY ConnTypes, LoginAssumption DEF LoginAssumption
  <2>3. \A d \in Conns : requested'[d] = IF d = c THEN requested[c] + 1 ELSE requested[d]
    BY <1>1, <2>1
  <2>4. QED
    BY <1>3, <2>2, <2>3
<1>5. Conn!TypeOK'
  <2>1. /\ waits' \in [Conns -> {"nothing", "login", "register", "silence"}]
        /\ state' \in [Conns -> Conn!connState]
    <3>1. waits \in [Conns -> {"nothing", "login", "register", "silence"}]
          /\ state \in [Conns -> Conn!connState] /\ "RegIng" \in Conn!connState
      BY ConnTypes DEF Conn!connState
    <3>2. waits' \in [Conns -> {"nothing", "login", "register", "silence"}]
      BY <1>1, <3>1
    <3>3. state' \in [Conns -> Conn!connState]
      BY <1>1, <3>1
    <3>4. QED
      BY <3>2, <3>3
  <2>2. \A s \in Streams : Used(s)' => owner'[s] \in Conns
    BY <1>2, ConnTypes DEF Used
  <2>3. QED
    BY <1>2, <1>4, <2>1, <2>2, ConnTypes, ConnTypesNext
<1>6. Platform!TypeOK'
  BY <1>1, <1>2, PlatformTypes, PlatformTypesNext
<1>7. TypeOK'
  BY <1>2, <1>5, <1>6 DEF Base, TypeOK
<1>8. Shape'
  <2>1. DOMAIN requested' = Conns
    BY <1>1 DEF Base, Shape
  <2>2. QED
    BY <1>2, <2>1 DEF Base, Shape, Used
<1>9. Asked'
  <2>1. Waiting' = Waiting \cup {r}
    BY <1>1 DEF Waiting
  <2>2. \A q \in Waiting : q.n <= requested[q.conn] /\ q.conn \in Conns /\ q.n \in Nat
    BY PlatformTypes DEF Base, Asked, Waiting, Acks, Platform!Requests
  <2>3. \A d \in Conns : requested[d] \in Nat
    BY ConnTypes
  <2>4. \A q \in Waiting' : q.n <= requested'[q.conn]
    BY <1>1, <1>4, <2>1, <2>2, <2>3
  <2>5. r \notin Waiting
    BY <1>1, <2>2, <2>3
  <2>6. \A x \in acks' : x.req \notin calls'
    BY <1>1, <1>2, <2>5 DEF Base, Asked, Waiting
  <2>7. \A x, y \in acks' : x.req = y.req => x = y
    BY <1>2 DEF Base, Asked
  <2>8. QED
    BY <2>4, <2>6, <2>7 DEF Asked
<1>10. QED
  BY <1>7, <1>8, <1>9 DEF Base

-----------------------------------------------------------------------------
(* A message of the client's, on the current stream of a Conn that is      *)
(* logged in, or the end of the Conn.                                      *)
Sends(c) ==
    /\ state[c] = "Authed"
    /\ current[c] \in Streams
    /\ Used(current[c]) /\ owner[current[c]] = c
    /\ \A s \in Streams :
         said'[s] = IF s = current[c] THEN said[s] \cup {connUid[c]} ELSE said[s]
    /\ said' \in [Streams -> SUBSET Nat]
    /\ UNCHANGED <<connVars, stream, owner, bound, fromGame>>

LEMMA ActsEffect ==
    ASSUME Base, NEW c \in Conns, ClientActs(c)
    PROVE  /\ Sends(c) \/ Conn!Stop(c)
           /\ UNCHANGED <<platformVars, pfVars, gameVars>>
<1>1. UNCHANGED <<platformVars, pfVars, gameVars>>
  BY DEF ClientActs
<1>2. CASE Conn!onStop(c)
  BY <1>1, <1>2 DEF Conn!onStop
<1>3. CASE Conn!onWsMsg(c)
  <2>1. state[c] = "Authed" /\ current[c] # NoStream
    BY <1>3 DEF Conn!onWsMsg, Conn!sendGameSteam
  <2>2. current[c] \in Streams /\ Used(current[c]) /\ owner[current[c]] = c
    BY <2>1, ConnTypes
  <2>3. SUFFICES ASSUME /\ said' = [said EXCEPT ![current[c]] = @ \cup {connUid[c]}]
                        /\ UNCHANGED <<connVars, stream, owner, bound, fromGame>>
                 PROVE  Sends(c)
    BY <1>1, <1>3 DEF Conn!onWsMsg, Conn!sendGameSteam, Conn!connVars, connVars
  <2>4. \A s \in Streams :
          said'[s] = IF s = current[c] THEN said[s] \cup {connUid[c]} ELSE said[s]
    BY <2>3, ConnTypes
  <2>5. said' \in [Streams -> SUBSET Nat]
    <3>1. connUid[c] \in Nat /\ said \in [Streams -> SUBSET Nat]
      BY ConnTypes
    <3>2. said[current[c]] \cup {connUid[c]} \in SUBSET Nat
      BY <2>2, <3>1
    <3>3. QED
      BY <2>3, <3>1, <3>2
  <2>6. QED
    BY <2>1, <2>2, <2>3, <2>4, <2>5 DEF Sends
<1>4. QED
  BY <1>2, <1>3 DEF ClientActs

LEMMA ActsBase ==
    ASSUME Base, NEW c \in Conns, ClientActs(c)
    PROVE  Base'
<1>1. CASE Conn!Stop(c)
  BY <1>1, ActsEffect, StopBase
<1>2. CASE Sends(c)
  <2>1. UNCHANGED <<conn, state, connUid, current, requested, waits, stream, owner,
                    bound, fromGame, accounts, uidCounter, now, registering, inbox,
                    calls, acks, opening, speakers, logins>>
    BY <1>2, ActsEffect DEF Sends, connVars, platformVars, pfVars, gameVars
  <2>2. /\ said' \in [Streams -> SUBSET Nat]
        /\ \A s \in Streams : ~Used(s) => said'[s] = said[s]
    BY <1>2 DEF Sends
  <2>3. \A s \in Streams : Used(s)' <=> Used(s)
    BY <2>1 DEF Used
  <2>4. Conn!TypeOK'
    BY <2>1, <2>2, <2>3, ConnTypes, ConnTypesNext
  <2>5. Platform!TypeOK'
    BY <2>1, PlatformTypes, PlatformTypesNext
  <2>6. Shape'
    <3>1. \A s \in Streams : ~Used(s)' => said'[s] = {}
      BY <2>2, <2>3 DEF Base, Shape
    <3>2. QED
      BY <2>1, <2>3, <3>1 DEF Base, Shape, Used
  <2>7. Asked'
    BY <2>1 DEF Base, Asked, Waiting
  <2>8. QED
    BY <2>1, <2>4, <2>5, <2>6, <2>7 DEF Base, TypeOK
<1>3. QED
  BY <1>1, <1>2, ActsEffect

(* An answer of the game's for the uid of the stream that brings it.       *)
Receipt(c, s) ==
    /\ owner[s] = c
    /\ fromGame[s] # <<>>
    /\ fromGame' = [fromGame EXCEPT ![s] = Tail(@)]
    /\ state' = [state EXCEPT ![c] = "Authed"]
    /\ connUid' = [connUid EXCEPT ![c] = bound[s]]
    /\ waits' = [waits EXCEPT ![c] = "nothing"]
    /\ UNCHANGED <<conn, current, requested, stream, owner, bound, said>>

LEMMA StreamEffect ==
    ASSUME Base, NEW c \in Conns, FromStream(c)
    PROVE  /\ Conn!Stop(c) \/ \E s \in Streams : Receipt(c, s)
           /\ UNCHANGED <<platformVars, pfVars, gameVars>>
<1>1. UNCHANGED <<platformVars, pfVars, gameVars>>
  BY DEF FromStream
<1>2. PICK s \in Streams : Conn!Receives(c, s) \/ Conn!onStreamClosed(c, s)
  BY DEF FromStream
<1>3. CASE Conn!onStreamClosed(c, s)
  BY <1>1, <1>3 DEF Conn!onStreamClosed
<1>4. CASE Conn!Receives(c, s)
  <2>1. owner[s] = c /\ fromGame[s] # <<>>
    BY <1>4 DEF Conn!Receives
  <2>2. Head(fromGame[s]) = bound[s]
    <3>1. InBox(fromGame[s], Head(fromGame[s]))
      BY <2>1, ConnTypes, TailBox
    <3>2. QED
      BY <3>1 DEF Base, Shape
  <2>3. Receipt(c, s)
    BY <1>4, <2>1, <2>2
       DEF Receipt, Conn!Receives, Conn!LoginAck, Conn!Become, Conn!Answered
  <2>4. QED
    BY <1>1, <2>3
<1>5. QED
  BY <1>2, <1>3, <1>4

LEMMA StreamBase ==
    ASSUME Base, NEW c \in Conns, FromStream(c)
    PROVE  Base'
<1>1. CASE Conn!Stop(c)
  BY <1>1, StreamEffect, StopBase
<1>2. ASSUME NEW s \in Streams, Receipt(c, s)
      PROVE  Base'
  <2>1. UNCHANGED <<conn, current, requested, stream, owner, bound, said,
                    accounts, uidCounter, now, registering, inbox,
                    calls, acks, opening, speakers, logins>>
    BY <1>2, StreamEffect DEF Receipt, platformVars, pfVars, gameVars
  <2>2. \A t \in Streams :
          fromGame'[t] = IF t = s THEN Tail(fromGame[t]) ELSE fromGame[t]
    BY <1>2, ConnTypes DEF Receipt
  <2>3. /\ fromGame[s] \in Seq(Nat) /\ fromGame[s] # <<>> /\ Tail(fromGame[s]) \in Seq(Nat)
        /\ \A u : InBox(Tail(fromGame[s]), u) => InBox(fromGame[s], u)
    BY <1>2, ConnTypes, TailBox DEF Receipt
  <2>4. /\ fromGame' \in [Streams -> Seq(Nat)]
        /\ state' \in [Conns -> Conn!connState]
        /\ connUid' \in [Conns -> Nat]
        /\ waits' \in [Conns -> {"nothing", "login", "register", "silence"}]
    <3>1. fromGame' \in [Streams -> Seq(Nat)]
      BY <1>2, <2>3, ConnTypes DEF Receipt
    <3>2. state' \in [Conns -> Conn!connState]
      BY <1>2, ConnTypes DEF Receipt, Conn!connState
    <3>3. connUid' \in [Conns -> Nat]
      BY <1>2, ConnTypes DEF Receipt
    <3>4. waits' \in [Conns -> {"nothing", "login", "register", "silence"}]
      BY <1>2, ConnTypes DEF Receipt
    <3>5. QED
      BY <3>1, <3>2, <3>3, <3>4
  <2>5. \A t \in Streams : Used(t)' <=> Used(t)
    BY <2>1 DEF Used
  <2>6. Conn!TypeOK'
    BY <2>1, <2>4, <2>5, ConnTypes, ConnTypesNext
  <2>7. Platform!TypeOK'
    BY <2>1, PlatformTypes, PlatformTypesNext
  <2>8. Shape'
    <3>1. \A t \in Streams : ~Used(t) => fromGame'[t] = <<>>
      BY <1>2, <2>2 DEF Base, Shape, Receipt
    <3>2. \A t \in Streams : \A u : InBox(fromGame'[t], u) => u = bound[t]
      <4>1. \A t \in Streams : \A u : InBox(fromGame[t], u) => u = bound[t]
        BY DEF Base, Shape
      <4>2. \A t \in Streams : \A u : InBox(fromGame'[t], u) => InBox(fromGame[t], u)
        BY <2>2, <2>3
      <4>3. QED
        BY <4>1, <4>2
    <3>3. QED
      BY <2>1, <2>5, <3>1, <3>2 DEF Base, Shape, Used
  <2>9. Asked'
    BY <2>1 DEF Base, Asked, Waiting
  <2>10. QED
    BY <2>1, <2>6, <2>7, <2>8, <2>9 DEF Base, TypeOK
<1>3. QED
  BY <1>1, <1>2, StreamEffect

-----------------------------------------------------------------------------
(* A callback opens a stream for the uid of its login, or only changes the *)
(* Conn's state, its uid and what the client waits for.                    *)
Quiet(c, x) ==
    \E st \in Conn!connState, u \in Nat, w \in {"nothing", "silence"} :
        /\ state' = [state EXCEPT ![c] = st]
        /\ connUid' = [connUid EXCEPT ![c] = u]
        /\ waits' = [waits EXCEPT ![c] = w]
        /\ \/ st = "Anon"
           \/ st = state[c] /\ u = connUid[c]
           \/ st = state[c] /\ x.req.kind = "register"
        /\ UNCHANGED <<current, streamVars, opening>>

Opened(c, x, s) ==
    /\ x.req.kind = "login"
    /\ ~Used(s)
    /\ stream' = [stream EXCEPT ![s] = "open"]
    /\ owner' = [owner EXCEPT ![s] = c]
    /\ bound' = [bound EXCEPT ![s] = x.uid]
    /\ said' = [said EXCEPT ![s] = {x.uid}]
    /\ current' = [current EXCEPT ![c] = s]
    /\ connUid' = [connUid EXCEPT ![c] = x.uid]
    /\ state' = [state EXCEPT ![c] = "LoggIng"]
    /\ opening' = opening \cup {s}
    /\ UNCHANGED <<waits, fromGame>>

LEMMA CallbackEffect ==
    ASSUME Base, NEW c \in Conns, Callback(c)
    PROVE  \E x \in acks :
             /\ x.req.conn = c /\ acks' = acks \ {x} /\ conn[c] = "up"
             /\ Quiet(c, x) \/ \E s \in Streams : Opened(c, x, s)
             /\ UNCHANGED <<platformVars, inbox, calls, speakers, logins, conn, requested>>
<1>1. PICK x \in acks :
         /\ x.req.conn = c /\ acks' = acks \ {x}
         /\ \/ x.req.kind = "login" /\ Conn!authLoginCb(c, x.code, x.uid)
            \/ x.req.kind = "register" /\ Conn!regCb(c, x.code, x.uid)
  BY DEF Callback
<1>2. /\ opening' = opening \cup {s \in Streams : stream[s] # stream'[s]}
      /\ UNCHANGED <<platformVars, inbox, calls, speakers, logins>>
  BY DEF Callback
<1>3. x.uid \in Nat
  BY PlatformTypes DEF Acks
<1>4. conn[c] = "up" /\ UNCHANGED <<conn, requested>>
  BY <1>1 DEF Conn!authLoginCb, Conn!regCb, Conn!IsUp
<1>5. /\ state[c] \in Conn!connState /\ connUid[c] \in Nat /\ "Anon" \in Conn!connState
      /\ state = [state EXCEPT ![c] = state[c]]
      /\ connUid = [connUid EXCEPT ![c] = connUid[c]]
  BY ConnTypes DEF Conn!connState
<1>6. stream' = stream => opening' = opening
  BY <1>2
<1>7. ASSUME Conn!NoServer(c), connUid' = connUid \/ connUid' = [connUid EXCEPT ![c] = x.uid]
      PROVE  Quiet(c, x)
  <2>1. /\ state' = [state EXCEPT ![c] = "Anon"]
        /\ waits' = [waits EXCEPT ![c] = "nothing"]
        /\ UNCHANGED <<current, streamVars>> /\ stream' = stream
    BY <1>7 DEF Conn!NoServer, Conn!Become, Conn!Answered, Conn!streamVars, streamVars
  <2>2. QED
    BY <1>3, <1>5, <1>6, <1>7, <2>1 DEF Quiet
<1>8. ASSUME x.req.kind = "login", Conn!authLoginCb(c, x.code, x.uid)
      PROVE  Quiet(c, x) \/ \E s \in Streams : Opened(c, x, s)
  <2>1. CASE Conn!NoServer(c) /\ UNCHANGED connUid
    BY <1>7, <2>1
  <2>2. CASE /\ waits' = [waits EXCEPT ![c] = "silence"]
             /\ UNCHANGED <<state, connUid, current, Conn!streamVars>>
    <3>1. UNCHANGED <<current, streamVars>> /\ stream' = stream
      BY <2>2 DEF Conn!streamVars, streamVars
    <3>2. QED
      BY <1>5, <1>6, <2>2, <3>1 DEF Quiet
  <2>3. CASE Conn!NoServer(c) /\ connUid' = [connUid EXCEPT ![c] = x.uid]
    BY <1>7, <2>3
  <2>4. ASSUME NEW s \in Streams, Conn!OpenSteam(c, s, x.uid), Conn!Become(c, "LoggIng"),
               UNCHANGED waits, connUid' = [connUid EXCEPT ![c] = x.uid]
        PROVE  Opened(c, x, s)
    <3>1. stream[s] = "unused" /\ stream' = [stream EXCEPT ![s] = "open"]
      BY <2>4 DEF Conn!OpenSteam
    <3>2. {t \in Streams : stream[t] # stream'[t]} = {s}
      BY <3>1, ConnTypes
    <3>3. QED
      BY <1>2, <1>8, <2>4, <3>1, <3>2 DEF Opened, Conn!OpenSteam, Conn!Become, Used
  <2>5. \/ Conn!NoServer(c) /\ UNCHANGED connUid
        \/ /\ waits' = [waits EXCEPT ![c] = "silence"]
           /\ UNCHANGED <<state, connUid, current, Conn!streamVars>>
        \/ Conn!NoServer(c) /\ connUid' = [connUid EXCEPT ![c] = x.uid]
        \/ /\ connUid' = [connUid EXCEPT ![c] = x.uid] /\ UNCHANGED waits
           /\ \E s \in Streams : Conn!OpenSteam(c, s, x.uid)
           /\ Conn!Become(c, "LoggIng")
    BY <1>8 DEF Conn!authLoginCb
  <2>6. QED
    BY <2>1, <2>2, <2>3, <2>4, <2>5
<1>9. ASSUME x.req.kind = "register", Conn!regCb(c, x.code, x.uid)
      PROVE  Quiet(c, x)
  <2>1. /\ waits' = [waits EXCEPT ![c] = "nothing"]
        /\ UNCHANGED <<current, streamVars>> /\ stream' = stream
        /\ \/ state' = [state EXCEPT ![c] = "Anon"] /\ connUid' = connUid
           \/ state' = state /\ connUid' = [connUid EXCEPT ![c] = x.uid]
    BY <1>9 DEF Conn!regCb, Conn!Become, Conn!Answered, Conn!streamVars, streamVars
  <2>2. CASE state' = [state EXCEPT ![c] = "Anon"] /\ connUid' = connUid
    BY <1>5, <1>6, <2>1, <2>2 DEF Quiet
  <2>3. CASE state' = state /\ connUid' = [connUid EXCEPT ![c] = x.uid]
    BY <1>3, <1>5, <1>6, <1>9, <2>1, <2>3 DEF Quiet
  <2>4. QED
    BY <2>1, <2>2, <2>3
<1>10. QED
  BY <1>1, <1>2, <1>4, <1>8, <1>9

LEMMA CallbackWaits ==
    ASSUME Base, NEW x \in acks, acks' = acks \ {x}, UNCHANGED calls
    PROVE  /\ acks' \subseteq Acks /\ calls' \subseteq Platform!Requests
           /\ \A r \in Waiting' : r \in Waiting /\ r # x.req
           /\ \A y \in acks' : y.req \notin calls'
           /\ \A y, z \in acks' : y.req = z.req => y = z
<1>1. /\ acks' \subseteq Acks /\ calls' \subseteq Platform!Requests
  BY PlatformTypes
<1>2. \A r \in Waiting' : r \in Waiting /\ r # x.req
  BY DEF Base, Asked, Waiting
<1>3. QED
  BY <1>1, <1>2 DEF Base, Asked

(* What a new stream of a Conn's is.                                       *)
LEMMA OpenedEffect ==
    ASSUME Base, NEW c \in Conns, NEW x \in acks, NEW s \in Streams, Opened(c, x, s)
    PROVE  /\ x.uid \in Nat /\ ~Used(s) /\ Steady
           /\ \A t \in Streams : /\ owner'[t] = IF t = s THEN c ELSE owner[t]
                                 /\ bound'[t] = IF t = s THEN x.uid ELSE bound[t]
                                 /\ said'[t] = IF t = s THEN {x.uid} ELSE said[t]
                                 /\ Used(t)' <=> Used(t) \/ t = s
           /\ \A d \in Conns : /\ current'[d] = IF d = c THEN s ELSE current[d]
                               /\ connUid'[d] = IF d = c THEN x.uid ELSE connUid[d]
                               /\ state'[d] = IF d = c THEN "LoggIng" ELSE state[d]
<1>1. x.uid \in Nat
  BY PlatformTypes DEF Acks
<1>2. ~Used(s)
  BY DEF Opened
<1>3. \A t \in Streams :
        /\ stream'[t] = IF t = s THEN "open" ELSE stream[t]
        /\ owner'[t] = IF t = s THEN c ELSE owner[t]
        /\ bound'[t] = IF t = s THEN x.uid ELSE bound[t]
        /\ said'[t] = IF t = s THEN {x.uid} ELSE said[t]
  BY ConnTypes DEF Opened
<1>4. \A t \in Streams : Used(t)' <=> Used(t) \/ t = s
  BY <1>3 DEF Used
<1>5. \A d \in Conns : /\ current'[d] = IF d = c THEN s ELSE current[d]
                       /\ connUid'[d] = IF d = c THEN x.uid ELSE connUid[d]
                       /\ state'[d] = IF d = c THEN "LoggIng" ELSE state[d]
  BY ConnTypes DEF Opened
<1>6. Steady
  BY <1>2, <1>3, <1>4 DEF Steady
<1>7. QED
  BY <1>1, <1>2, <1>3, <1>4, <1>5, <1>6

LEMMA OpenedTypes ==
    ASSUME Base, NEW c \in Conns, NEW x \in acks, NEW s \in Streams, Opened(c, x, s)
    PROVE  /\ stream' \in [Streams -> {"unused", "open", "ended", "closed"}]
           /\ owner' \in [Streams -> Conns \cup {NoRequest}]
           /\ bound' \in [Streams -> Nat]
           /\ said' \in [Streams -> SUBSET Nat]
           /\ current' \in [Conns -> Streams \cup {NoStream}]
           /\ connUid' \in [Conns -> Nat]
           /\ state' \in [Conns -> Conn!connState]
<1>1. x.uid \in Nat
  BY PlatformTypes DEF Acks
<1>2. /\ stream' \in [Streams -> {"unused", "open", "ended", "closed"}]
      /\ owner' \in [Streams -> Conns \cup {NoRequest}]
      /\ bound' \in [Streams -> Nat]
  BY <1>1, ConnTypes DEF Opened
<1>3. said' \in [Streams -> SUBSET Nat]
  BY <1>1, ConnTypes DEF Opened
<1>4. /\ current' \in [Conns -> Streams \cup {NoStream}]
      /\ connUid' \in [Conns -> Nat]
  BY <1>1, ConnTypes DEF Opened
<1>5. state' \in [Conns -> Conn!connState]
  BY ConnTypes DEF Opened, Conn!connState
<1>6. QED
  BY <1>2, <1>3, <1>4, <1>5

LEMMA CallbackBase ==
    ASSUME Base, NEW c \in Conns, Callback(c)
    PROVE  Base'
<1>1. PICK x \in acks :
        /\ x.req.conn = c /\ acks' = acks \ {x} /\ conn[c] = "up"
        /\ Quiet(c, x) \/ \E s \in Streams : Opened(c, x, s)
        /\ UNCHANGED <<platformVars, inbox, calls, speakers, logins, conn, requested>>
  BY CallbackEffect
<1>2. UNCHANGED <<accounts, uidCounter, now, registering, inbox, calls, speakers,
                  logins, conn, requested>>
  BY <1>1 DEF platformVars
<1>3. /\ acks' \subseteq Acks /\ calls' \subseteq Platform!Requests
      /\ \A r \in Waiting' : r \in Waiting /\ r # x.req
      /\ \A y \in acks' : y.req \notin calls'
      /\ \A y, z \in acks' : y.req = z.req => y = z
  BY <1>1, <1>2, CallbackWaits
<1>4. Platform!TypeOK'
  BY <1>2, <1>3, PlatformTypes, PlatformTypesNext
<1>5. Asked'
  BY <1>2, <1>3 DEF Base, Asked
<1>6. CASE Quiet(c, x)
  <2>1. UNCHANGED <<current, stream, owner, bound, said, fromGame, opening>>
    BY <1>6 DEF Quiet, streamVars
  <2>2. /\ state' \in [Conns -> Conn!connState]
        /\ connUid' \in [Conns -> Nat]
        /\ waits' \in [Conns -> {"nothing", "login", "register", "silence"}]
    BY <1>6, ConnTypes DEF Quiet
  <2>3. \A s \in Streams : Used(s)' <=> Used(s)
    BY <2>1 DEF Used
  <2>4. Conn!TypeOK'
    BY <1>2, <2>1, <2>2, <2>3, ConnTypes, ConnTypesNext
  <2>5. Shape'
    BY <1>2, <2>1 DEF Base, Shape, Used
  <2>6. QED
    BY <1>2, <1>4, <1>5, <2>1, <2>4, <2>5 DEF Base, TypeOK
<1>7. ASSUME NEW s \in Streams, Opened(c, x, s)
      PROVE  Base'
  <2>1. /\ opening' = opening \cup {s} /\ UNCHANGED <<waits, fromGame>>
    BY <1>7 DEF Opened
  <2>2. /\ ~Used(s)
        /\ \A t \in Streams :
                /\ owner'[t] = IF t = s THEN c ELSE owner[t]
                /\ bound'[t] = IF t = s THEN x.uid ELSE bound[t]
                /\ said'[t] = IF t = s THEN {x.uid} ELSE said[t]
                /\ Used(t)' <=> Used(t) \/ t = s
        /\ \A d \in Conns : current'[d] = IF d = c THEN s ELSE current[d]
    <3>1. ~Used(s)
      BY <1>7, OpenedEffect
    <3>2. \A t \in Streams :
                /\ owner'[t] = IF t = s THEN c ELSE owner[t]
                /\ bound'[t] = IF t = s THEN x.uid ELSE bound[t]
                /\ said'[t] = IF t = s THEN {x.uid} ELSE said[t]
                /\ Used(t)' <=> Used(t) \/ t = s
      BY <1>7, OpenedEffect
    <3>3. \A d \in Conns : current'[d] = IF d = c THEN s ELSE current[d]
      BY <1>7, ConnTypes DEF Opened
    <3>4. QED
      BY <3>1, <3>2, <3>3
  <2>3. Conn!TypeOK'
    <3>1. \A d \in Conns : current'[d] # NoStream =>
                             conn'[d] = "up" /\ owner'[current'[d]] = d
      <4>1. \A d \in Conns : d # c /\ current[d] # NoStream =>
              /\ current[d] \in Streams /\ current[d] # s
              /\ conn[d] = "up" /\ owner[current[d]] = d
        BY <2>2, ConnTypes
      <4>2. QED
        BY <1>1, <1>2, <2>2, <4>1
    <3>2. \A t \in Streams : Used(t)' => owner'[t] \in Conns
      BY <2>2, ConnTypes
    <3>3. QED
      BY <1>2, <1>7, <2>1, <3>1, <3>2, ConnTypes, ConnTypesNext, OpenedTypes
  <2>4. Shape'
    <3>1. owner' \in [Streams -> Conns \cup {NoRequest}]
      BY <1>7, OpenedTypes
    <3>2. \A t \in Streams : ~Used(t)' =>
            /\ t \notin opening' /\ t \notin speakers'
            /\ fromGame'[t] = <<>> /\ said'[t] = {}
            /\ \A d \in Conns : current'[d] # t
      BY <1>2, <2>1, <2>2 DEF Base, Shape
    <3>3. \A t \in Streams : \A u : InBox(fromGame'[t], u) => u = bound'[t]
      <4>1. \A t \in Streams : \A u : InBox(fromGame[t], u) => u = bound[t]
        BY DEF Base, Shape
      <4>2. fromGame[s] = <<>>
        BY <2>2 DEF Base, Shape
      <4>3. \A u : ~InBox(fromGame[s], u)
        BY <4>2, ShortLists
      <4>4. QED
        BY <2>1, <2>2, <4>1, <4>3
    <3>4. \A u : InBox(logins', u) => \E t \in Streams : Used(t)' /\ bound'[t] = u
      <4>1. \A u : InBox(logins, u) => \E t \in Streams : Used(t) /\ bound[t] = u
        BY DEF Base, Shape
      <4>2. QED
        BY <1>2, <2>2, <4>1
    <3>5. \A t, v \in speakers' : bound'[t] = bound'[v] => t = v
      <4>1. \A t \in speakers : t \in Streams /\ t # s
        BY <2>2 DEF Base, Shape, TypeOK
      <4>2. QED
        BY <1>2, <2>2, <4>1 DEF Base, Shape
    <3>6. DOMAIN requested' = Conns
      BY <1>2 DEF Base, Shape
    <3>7. QED
      BY <3>1, <3>2, <3>3, <3>4, <3>5, <3>6 DEF Shape
  <2>5. QED
    BY <1>2, <1>4, <1>5, <2>1, <2>3, <2>4 DEF Base, TypeOK
<1>8. QED
  BY <1>1, <1>6, <1>7

LEMMA BaseNext ==
    ASSUME Base, [Next]_vars
    PROVE  Base'
<1>1. CASE PlatformStep \/ PlatformRestarts \/ Expires
  BY <1>1, PlatformKeeps
<1>2. CASE PlayAnswers
  BY <1>2, AnswersBase
<1>3. ASSUME NEW c \in Conns,
             ClientAsks(c) \/ ClientActs(c) \/ Callback(c) \/ FromStream(c)
      PROVE  Base'
  BY <1>3, AsksBase, ActsBase, CallbackBase, StreamBase
<1>4. ASSUME NEW s \in Streams, GameOpens(s) \/ StreamEnds(s) \/ GameCloses(s)
      PROVE  Base'
  BY <1>4, OpensBase, EndsBase
<1>5. CASE UNCHANGED vars
  <2>1. UNCHANGED <<conn, state, connUid, current, requested, waits, stream, owner,
                    bound, said, fromGame, accounts, uidCounter, now, registering,
                    inbox, calls, acks, opening, speakers, logins>>
    BY <1>5 DEF vars, connVars, streamVars, platformVars, pfVars, gameVars
  <2>2. TypeOK'
    BY <2>1 DEF Base, TypeOK, Conn!TypeOK, Platform!TypeOK
  <2>3. Shape' /\ Asked'
    BY <2>1 DEF Base, Shape, Asked, Used, Waiting
  <2>4. QED
    BY <2>2, <2>3 DEF Base
<1>6. QED
  BY <1>1, <1>2, <1>3, <1>4, <1>5 DEF Next

LEMMA BaseHolds == Spec => []Base
<1>1. Base /\ [Next]_vars => Base'
  BY BaseNext
<1>2. QED
  BY BaseInit, <1>1, PTL DEF Spec

(* The variables of the Conns, the platform and the game hold what they    *)
(* were made for, whatever the clients send: above all, a Conn that has a  *)
(* stream is up and owns it (service.go OnStop, onStreamClosed).           *)
THEOREM LoginTypes == Spec => []TypeOK
<1>1. Base => TypeOK
  BY DEF Base
<1>2. QED
  BY BaseHolds, <1>1, PTL

-----------------------------------------------------------------------------
(* What is due to a Conn: the streams that the game has yet to see, Play's *)
(* logins for the uids of its streams, and the answers on them.            *)
Opens(c) == opening \cap StreamsOf(c)
Logs(c) == {u \in Nat : InBox(logins, u) /\ \E s \in StreamsOf(c) : bound[s] = u}
Acked(c) == {s \in StreamsOf(c) : fromGame[s] # <<>>}

NothingDue(c) == Opens(c) = {} /\ Logs(c) = {} /\ Acked(c) = {}

OneDue(c) ==
    /\ \A s, t \in Opens(c) : s = t
    /\ \A u, v \in Logs(c) : u = v /\ Single(logins, u)
    /\ \A s, t \in Acked(c) : s = t /\ Len(fromGame[s]) = 1
    /\ Opens(c) = {} \/ (Logs(c) = {} /\ Acked(c) = {})
    /\ Logs(c) = {} \/ Acked(c) = {}

(* It is due for the uid of the Conn's current stream.                     *)
DueIsCurrent(c) ==
    conn[c] = "up" /\ ~NothingDue(c) =>
        /\ current[c] # NoStream
        /\ \A s \in Opens(c) \cup Acked(c) : bound[s] = bound[current[c]]
        /\ \A u \in Logs(c) : u = bound[current[c]]

(* A request that waits is the last and the only one, and what the one     *)
(* before it led to is over.                                               *)
OneAsked(c) ==
    \A r \in Waiting : r.conn = c =>
        /\ r.n = requested[c] /\ waits[c] = r.kind
        /\ NothingDue(c)
        /\ \A q \in Waiting : q.conn = c => q = r

OneSaid(c) == \A s \in StreamsOf(c) : said[s] \subseteq {bound[s]}

(* A Conn that forwards has the uid of its current stream.                 *)
SpeaksForStream(c) ==
    state[c] = "Authed" =>
        /\ waits[c] # "register"
        /\ current[c] # NoStream => connUid[c] = bound[current[c]]

Calm(c) ==
    /\ OneAsked(c)
    /\ waits[c] # "login" => NothingDue(c)
    /\ OneDue(c) /\ DueIsCurrent(c)
    /\ OneSaid(c)
    /\ SpeaksForStream(c)

AllCalm == \A c \in Conns : Contested(c) \/ Calm(c)

LEMMA CalmInit == Init => AllCalm
<1> SUFFICES ASSUME Init, NEW c \in Conns PROVE Calm(c)
  BY DEF AllCalm
<1>1. /\ \A s \in Streams : stream[s] = "unused"
      /\ calls = {} /\ acks = {} /\ state[c] = "Anon"
  BY DEF Init, Conn!Init, Platform!Init
<1>2. StreamsOf(c) = {} /\ Waiting = {}
  BY <1>1 DEF StreamsOf, Waiting
<1>3. NothingDue(c)
  BY <1>2 DEF NothingDue, Opens, Logs, Acked
<1>4. QED
  BY <1>1, <1>2, <1>3
     DEF Calm, OneAsked, OneDue, DueIsCurrent, OneSaid, SpeaksForStream, NothingDue

(* A contested login stays so.                                             *)
LEMMA ContestedStays ==
    ASSUME Steady, NEW c \in Conns, Contested(c)
    PROVE  Contested(c)'
<1>1. PICK s \in StreamsOf(c), t \in Streams :
         Used(t) /\ owner[t] # c /\ bound[t] = bound[s]
  BY DEF Contested, Used
<1>2. s \in Streams /\ Used(s) /\ owner[s] = c
  BY DEF StreamsOf, Used
<1>3. s \in StreamsOf(c)' /\ Used(t)' /\ owner'[t] # c /\ bound'[t] = bound'[s]
  BY <1>1, <1>2 DEF Steady, StreamsOf, Used
<1>4. QED
  BY <1>3 DEF Contested, Used

(* What is due was asked for by the one request there was.                 *)
LEMMA DueWasAsked ==
    ASSUME NEW c \in Conns, Calm(c), ~NothingDue(c)
    PROVE  waits[c] = "login" /\ \A r \in Waiting : r.conn # c
BY DEF Calm, OneAsked

LEMMA NothingIsOne ==
    ASSUME NEW c \in Conns, NothingDue(c)'
    PROVE  OneDue(c)' /\ DueIsCurrent(c)'
BY DEF NothingDue, OneDue, DueIsCurrent

(* A step that adds nothing to what is due to a Conn, nor to its requests. *)
LEMMA CalmKept ==
    ASSUME Base, Steady, NEW c \in Conns, Calm(c),
           UNCHANGED <<state[c], connUid[c], requested[c], waits[c]>>,
           \/ UNCHANGED <<conn[c], current[c]>>
           \/ conn'[c] # "up" /\ current'[c] = NoStream,
           StreamsOf(c)' = StreamsOf(c),
           \A s \in StreamsOf(c) : UNCHANGED <<said[s], fromGame[s]>>,
           Opens(c)' \subseteq Opens(c), Logs(c)' \subseteq Logs(c),
           \A u \in Logs(c)' : Single(logins, u) => Single(logins', u),
           \A r \in Waiting' : r.conn = c => r \in Waiting
    PROVE  Calm(c)'
<1>1. /\ current[c] # NoStream => bound'[current[c]] = bound[current[c]]
      /\ \A s \in StreamsOf(c) : bound'[s] = bound[s]
  BY ConnTypes DEF Steady, StreamsOf, Used
<1>2. Acked(c)' = Acked(c)
  BY DEF Acked
<1>3. NothingDue(c) => NothingDue(c)'
  BY <1>2 DEF NothingDue
<1>4. OneAsked(c)'
  BY <1>3 DEF Calm, OneAsked
<1>5. waits'[c] # "login" => NothingDue(c)'
  BY <1>3 DEF Calm
<1>6. OneDue(c)'
  <2>1. \A u, v \in Logs(c)' : u = v /\ Single(logins', u)
    BY DEF Calm, OneDue
  <2>2. \A s, t \in Acked(c)' : s = t /\ Len(fromGame'[s]) = 1
    BY <1>2 DEF Calm, OneDue, Acked
  <2>3. \A s, t \in Opens(c)' : s = t
    BY DEF Calm, OneDue
  <2>4. /\ Opens(c)' = {} \/ (Logs(c)' = {} /\ Acked(c)' = {})
        /\ Logs(c)' = {} \/ Acked(c)' = {}
    BY <1>2 DEF Calm, OneDue
  <2>5. QED
    BY <2>1, <2>2, <2>3, <2>4 DEF OneDue
<1>7. DueIsCurrent(c)'
  <2>1. Opens(c) \subseteq StreamsOf(c) /\ Acked(c) \subseteq StreamsOf(c)
    BY DEF Opens, Acked
  <2>2. SUFFICES ASSUME conn'[c] = "up", ~NothingDue(c)'
                 PROVE  /\ current'[c] # NoStream
                        /\ \A s \in Opens(c)' \cup Acked(c)' : bound'[s] = bound'[current'[c]]
                        /\ \A u \in Logs(c)' : u = bound'[current'[c]]
    BY DEF DueIsCurrent
  <2>3. conn[c] = "up" /\ current'[c] = current[c] /\ ~NothingDue(c)
    BY <1>3, <2>2
  <2>4. /\ current[c] # NoStream
        /\ \A s \in Opens(c) \cup Acked(c) : bound[s] = bound[current[c]]
        /\ \A u \in Logs(c) : u = bound[current[c]]
    BY <2>3 DEF Calm, DueIsCurrent
  <2>5. QED
    BY <1>1, <1>2, <2>1, <2>3, <2>4
<1>8. OneSaid(c)'
  BY <1>1 DEF Calm, OneSaid
<1>9. SpeaksForStream(c)'
  BY <1>1 DEF Calm, SpeaksForStream
<1>10. QED
  BY <1>4, <1>5, <1>6, <1>7, <1>8, <1>9 DEF Calm

(* A step that leaves the streams as they are but for their ends.          *)
LEMMA SameStreams ==
    ASSUME NEW c \in Conns, UNCHANGED owner, \A s \in Streams : Used(s)' <=> Used(s)
    PROVE  StreamsOf(c)' = StreamsOf(c)
BY DEF StreamsOf, Used

(* A Conn's step of its own, its end apart, is none of another's.          *)
LEMMA OthersCalm ==
    ASSUME Base, Steady, NEW c \in Conns, NEW d \in Conns, d # c, Calm(c),
           OthersKeep(d), StreamsOf(c)' = StreamsOf(c),
           \A s \in StreamsOf(c) : UNCHANGED <<said[s], fromGame[s]>>,
           Opens(c)' \subseteq Opens(c), UNCHANGED logins,
           \A r \in Waiting' : r.conn = c => r \in Waiting
    PROVE  Calm(c)'
<1>1. \A s \in StreamsOf(c) : bound'[s] = bound[s]
  BY DEF Steady, StreamsOf, Used
<1>2. Logs(c)' = Logs(c)
  BY <1>1 DEF Logs
<1>3. QED
  BY <1>2, CalmKept DEF OthersKeep

LEMMA StopCalm ==
    ASSUME Base, NEW d \in Conns, Conn!Stop(d), UNCHANGED <<pfVars, gameVars>>,
           NEW c \in Conns, Calm(c)
    PROVE  Calm(c)'
<1>1. /\ conn'[d] = "stopped" /\ current'[d] = NoStream
      /\ UNCHANGED <<state, connUid, requested, waits, owner, bound, said, fromGame>>
      /\ OthersKeep(d) /\ Steady
      /\ \A s \in Streams : Used(s)' <=> Used(s)
  BY StopEffect
<1>2. UNCHANGED <<opening, logins, calls, acks>>
  BY DEF pfVars, gameVars
<1>3. StreamsOf(c)' = StreamsOf(c)
  BY <1>1, SameStreams
<1>4. Opens(c)' = Opens(c) /\ Logs(c)' = Logs(c) /\ Waiting' = Waiting
  BY <1>1, <1>2, <1>3 DEF Opens, Logs, Waiting
<1>5. \/ UNCHANGED <<conn[c], current[c]>>
      \/ conn'[c] # "up" /\ current'[c] = NoStream
  BY <1>1 DEF OthersKeep
<1>6. QED
  BY <1>1, <1>2, <1>3, <1>4, <1>5, CalmKept

LEMMA PlatformCalm ==
    ASSUME Base, PlatformStep \/ PlatformRestarts \/ Expires, NEW c \in Conns, Calm(c)
    PROVE  Calm(c)' /\ Steady
<1>1. Waiting' \subseteq Waiting /\ UNCHANGED <<connVars, streamVars, gameVars>>
  BY PlatformKeeps
<1>2. UNCHANGED <<conn, state, connUid, current, requested, waits, stream, owner, bound,
                  said, fromGame, opening, logins>>
  BY <1>1 DEF connVars, streamVars, gameVars
<1>3. Steady /\ StreamsOf(c)' = StreamsOf(c)
  BY <1>2 DEF Steady, Used, StreamsOf
<1>4. Opens(c)' = Opens(c) /\ Logs(c)' = Logs(c)
  BY <1>2, <1>3 DEF Opens, Logs
<1>5. QED
  BY <1>1, <1>2, <1>3, <1>4, CalmKept

LEMMA EndsCalm ==
    ASSUME Base, NEW s \in Streams, StreamEnds(s) \/ GameCloses(s), NEW c \in Conns, Calm(c)
    PROVE  Calm(c)'
<1>1. Steady /\ UNCHANGED <<fromGame, opening, logins>>
  BY EndsBase
<1>2. /\ UNCHANGED <<conn, state, connUid, current, requested, waits,
                     owner, bound, said, calls, acks>>
      /\ (stream[s] = "open" /\ Ends(s)) \/ UNCHANGED stream
  BY DEF StreamEnds, GameCloses, connVars, streamVars, pfVars
<1>3. \A t \in Streams : Used(t)' <=> Used(t)
  BY <1>2, EndsStream DEF Used
<1>4. StreamsOf(c)' = StreamsOf(c)
  BY <1>2, <1>3, SameStreams
<1>5. Opens(c)' = Opens(c) /\ Logs(c)' = Logs(c) /\ Waiting' = Waiting
  BY <1>1, <1>2, <1>4 DEF Opens, Logs, Waiting
<1>6. QED
  BY <1>1, <1>2, <1>4, <1>5, CalmKept

(* The game sees a stream: the login goes to Play.                         *)
LEMMA OpensCalm ==
    ASSUME Base, NEW s \in Streams, GameOpens(s), NEW c \in Conns, Calm(c), ~Contested(c)
    PROVE  Calm(c)'
<1>1. Steady
  BY OpensBase
<1>2. /\ s \in opening /\ opening' = opening \ {s}
      /\ UNCHANGED <<conn, state, connUid, current, requested, waits,
                     owner, bound, said, fromGame, calls, acks>>
      /\ \/ logins' = Append(logins, bound[s]) /\ UNCHANGED stream
         \/ UNCHANGED logins /\ stream[s] = "open" /\ Ends(s)
         \/ UNCHANGED logins /\ UNCHANGED stream
  BY DEF GameOpens, connVars, pfVars
<1>3. Used(s) /\ bound[s] \in Nat /\ logins \in Seq(Nat)
  BY <1>2, ConnTypes DEF Base, Shape, TypeOK
<1>4. \A t \in Streams : Used(t)' <=> Used(t)
  BY <1>2, EndsStream DEF Used
<1>5. StreamsOf(c)' = StreamsOf(c) /\ Waiting' = Waiting
  BY <1>2, <1>4, SameStreams DEF Waiting
<1>6. Opens(c)' = Opens(c) \ {s}
  BY <1>2, <1>5 DEF Opens
<1>7. CASE UNCHANGED logins
  <2>1. Logs(c)' = Logs(c)
    BY <1>2, <1>5, <1>7 DEF Logs
  <2>2. QED
    BY <1>1, <1>2, <1>5, <1>6, <1>7, <2>1, CalmKept
<1>8. CASE logins' = Append(logins, bound[s]) /\ owner[s] # c
  <2>1. \A t \in StreamsOf(c) : bound[t] # bound[s]
    BY <1>3, <1>8 DEF Contested, Used
  <2>2. /\ \A u : InBox(logins', u) <=> InBox(logins, u) \/ u = bound[s]
        /\ \A u : Single(logins, u) /\ (u = bound[s] => ~InBox(logins, u)) => Single(logins', u)
    BY <1>3, <1>8, AppendBox
  <2>3. \A u \in Logs(c)' : u # bound[s] /\ u \in Logs(c)
    BY <1>2, <1>5, <2>1, <2>2 DEF Logs
  <2>4. QED
    BY <1>1, <1>2, <1>5, <1>6, <2>2, <2>3, CalmKept
<1>9. CASE logins' = Append(logins, bound[s]) /\ owner[s] = c
  <2>1. s \in StreamsOf(c) /\ s \in Opens(c) /\ ~NothingDue(c)
    BY <1>2, <1>3, <1>9 DEF StreamsOf, Opens, NothingDue, Used
  <2>2. waits[c] = "login" /\ \A r \in Waiting : r.conn # c
    BY <2>1, DueWasAsked
  <2>3. Opens(c) = {s} /\ Logs(c) = {} /\ Acked(c) = {}
    BY <2>1 DEF Calm, OneDue
  <2>4. ~InBox(logins, bound[s])
    BY <1>3, <2>1, <2>3 DEF Logs
  <2>5. \A u : InBox(logins', u) <=> InBox(logins, u) \/ u = bound[s]
    BY <1>3, <1>9, AppendBox
  <2>6. Single(logins', bound[s])
    <3>1. Single(logins, bound[s])
      BY <2>4 DEF InBox, Single
    <3>2. QED
      BY <1>3, <1>9, <2>4, <3>1, AppendBox
  <2>7. Logs(c)' \subseteq {bound[s]}
    BY <1>2, <1>5, <2>3, <2>5 DEF Logs
  <2>8. Opens(c)' = {} /\ Acked(c)' = {}
    BY <1>2, <1>5, <1>6, <2>3 DEF Acked
  <2>9. OneAsked(c)' /\ waits'[c] = "login"
    BY <1>2, <1>5, <2>2 DEF OneAsked
  <2>10. OneDue(c)'
    BY <2>6, <2>7, <2>8 DEF OneDue
  <2>11. DueIsCurrent(c)'
    <3>1. conn[c] = "up" => current[c] # NoStream /\ bound[s] = bound[current[c]]
      BY <2>1 DEF Calm, DueIsCurrent
    <3>2. QED
      BY <1>2, <2>7, <2>8, <3>1 DEF DueIsCurrent
  <2>12. OneSaid(c)' /\ SpeaksForStream(c)'
    BY <1>2, <1>5 DEF Calm, OneSaid, SpeaksForStream
  <2>13. QED
    BY <2>9, <2>10, <2>11, <2>12 DEF Calm
<1>10. QED
  BY <1>2, <1>7, <1>8, <1>9

(* Play answers: the one session of the uid has the answer.                *)
LEMMA AnswersCalm ==
    ASSUME Base, PlayAnswers, NEW c \in Conns, Calm(c)
    PROVE  Calm(c)'
<1> DEFINE h == Head(logins)
<1>1. /\ logins \in Seq(Nat) /\ logins # <<>> /\ logins' = Tail(logins) /\ h \in Nat
      /\ \A s \in Streams :
                \/ fromGame'[s] = fromGame[s]
                \/ /\ s \in speakers /\ bound[s] = h
                   /\ fromGame'[s] = Append(fromGame[s], bound[s])
      /\ UNCHANGED <<connVars, stream, owner, bound, said, pfVars, opening, speakers>>
  BY AnswerGoes
<1>2. UNCHANGED <<conn, state, connUid, current, requested, waits, stream, owner, bound,
                  said, calls, acks, opening>>
  BY <1>1 DEF connVars, pfVars
<1>3. Steady
  BY AnswersBase
<1>4. /\ InBox(logins, h)
      /\ \A u : InBox(logins', u) => InBox(logins, u)
      /\ \A u : Single(logins, u) => Single(logins', u)
      /\ Single(logins, h) => ~InBox(logins', h)
  BY <1>1, TailBox
<1>5. StreamsOf(c)' = StreamsOf(c) /\ Waiting' = Waiting
  BY <1>2 DEF StreamsOf, Waiting
<1>6. Opens(c)' = Opens(c) /\ Logs(c)' \subseteq Logs(c)
  BY <1>2, <1>4, <1>5 DEF Opens, Logs
<1> HIDE DEF h
<1>7. CASE \A s \in StreamsOf(c) : bound[s] # h
  <2>1. \A s \in StreamsOf(c) : fromGame'[s] = fromGame[s]
    BY <1>1, <1>7 DEF StreamsOf
  <2>2. QED
    BY <1>2, <1>3, <1>4, <1>5, <1>6, <2>1, CalmKept
<1>8. CASE \E s \in StreamsOf(c) : bound[s] = h
  <2>1. h \in Logs(c)
    BY <1>1, <1>4, <1>8 DEF Logs
  <2>2. ~NothingDue(c)
    BY <2>1 DEF NothingDue
  <2>3. waits[c] = "login" /\ \A r \in Waiting : r.conn # c
    BY <2>2, DueWasAsked
  <2>4. Opens(c) = {} /\ Logs(c) = {h} /\ Acked(c) = {} /\ Single(logins, h)
    BY <2>1 DEF Calm, OneDue
  <2>5. Opens(c)' = {} /\ Logs(c)' = {}
    BY <1>4, <1>6, <2>4 DEF Logs
  <2>6. \A s \in Acked(c)' :
          /\ s \in Streams /\ s \in speakers /\ bound[s] = h
          /\ fromGame[s] = <<>> /\ fromGame'[s] = Append(<<>>, bound[s])
    BY <1>1, <1>5, <2>4 DEF Acked, StreamsOf
  <2>7. \A s \in Acked(c)' : Len(fromGame'[s]) = 1
    <3>1. Len(Append(<<>>, h)) = 1
      BY <1>1
    <3>2. \A s \in Acked(c)' : fromGame'[s] = Append(<<>>, h)
      BY <2>6
    <3>3. QED
      BY <3>1, <3>2
  <2>8. \A s, t \in Acked(c)' : s = t
    BY <2>6 DEF Base, Shape
  <2>9. OneAsked(c)' /\ waits'[c] = "login"
    BY <1>2, <1>5, <2>3 DEF OneAsked
  <2>10. OneDue(c)'
    BY <2>5, <2>7, <2>8 DEF OneDue
  <2>11. DueIsCurrent(c)'
    <3>1. conn[c] = "up" => current[c] # NoStream /\ h = bound[current[c]]
      BY <2>1, <2>2 DEF Calm, DueIsCurrent
    <3>2. QED
      BY <1>2, <2>5, <2>6, <3>1 DEF DueIsCurrent
  <2>12. OneSaid(c)' /\ SpeaksForStream(c)'
    BY <1>2, <1>5 DEF Calm, OneSaid, SpeaksForStream
  <2>13. QED
    BY <2>9, <2>10, <2>11, <2>12 DEF Calm
<1>9. QED
  BY <1>7, <1>8

-----------------------------------------------------------------------------
(* A client that waits for its answers asks when nothing is due to it.     *)
LEMMA AsksCalm ==
    ASSUME "retry" \notin Inputs, Base, NEW d \in Conns, ClientAsks(d),
           NEW c \in Conns, Calm(c)
    PROVE  Calm(c)' /\ Steady
<1>1. PICK r \in Platform!Requests :
              /\ r.conn = d /\ r.n = requested[d] + 1 /\ r.kind \in {"login", "register"}
              /\ Conn!MayAsk(d)
              /\ requested' = [requested EXCEPT ![d] = @ + 1]
              /\ waits' = [waits EXCEPT ![d] = r.kind]
              /\ \/ r.kind = "login" /\ state' = state
                 \/ r.kind = "register" /\ state' = [state EXCEPT ![d] = "RegIng"]
              /\ inbox' = inbox \cup {r} /\ calls' = calls \cup {r}
              /\ UNCHANGED <<conn, connUid, current, streamVars, platformVars, acks,
                             gameVars>>
  BY AsksEffect
<1>2. UNCHANGED <<conn, connUid, current, stream, owner, bound, said, fromGame, acks,
                  opening, logins>>
  BY <1>1 DEF streamVars, gameVars
<1>3. Steady /\ StreamsOf(c)' = StreamsOf(c)
  BY <1>2 DEF Steady, Used, StreamsOf
<1>4. Opens(c)' = Opens(c) /\ Logs(c)' = Logs(c) /\ Acked(c)' = Acked(c)
  BY <1>2, <1>3 DEF Opens, Logs, Acked
<1>5. Waiting' = Waiting \cup {r}
  BY <1>1 DEF Waiting
<1>6. \A e \in Conns :
        /\ requested'[e] = IF e = d THEN requested[d] + 1 ELSE requested[e]
        /\ waits'[e] = IF e = d THEN r.kind ELSE waits[e]
        /\ e # d => state'[e] = state[e]
  <2>1. DOMAIN requested = Conns
    BY DEF Base, Shape
  <2>2. QED
    BY <1>1, <2>1, ConnTypes
<1>7. CASE c # d
  <2>1. OthersKeep(d)
    BY <1>2, <1>6 DEF OthersKeep
  <2>2. \A q \in Waiting' : q.conn = c => q \in Waiting
    BY <1>1, <1>5, <1>7
  <2>3. QED
    BY <1>2, <1>3, <1>4, <1>7, <2>1, <2>2, OthersCalm
<1>8. CASE c = d
  <2>1. waits[c] = "nothing"
    BY <1>1, <1>8 DEF Conn!MayAsk
  <2>2. NothingDue(c) /\ \A q \in Waiting : q.conn # c
    <3>1. \A q \in Waiting : q.kind \in {"login", "register"}
      BY PlatformTypes DEF Waiting, Acks, Platform!Requests
    <3>2. QED
      BY <2>1, <3>1 DEF Calm, OneAsked
  <2>3. NothingDue(c)'
    BY <1>4, <2>2 DEF NothingDue
  <2>4. OneAsked(c)'
    BY <1>1, <1>5, <1>6, <1>8, <2>2, <2>3 DEF OneAsked
  <2>5. OneSaid(c)'
    BY <1>2, <1>3 DEF Calm, OneSaid
  <2>6. SpeaksForStream(c)'
    <3>1. CASE r.kind = "login"
      BY <1>1, <1>2, <1>6, <1>8, <3>1 DEF Calm, SpeaksForStream
    <3>2. CASE r.kind = "register"
      <4>1. state'[c] = "RegIng"
        BY <1>1, <1>8, <3>2, ConnTypes
      <4>2. QED
        BY <4>1 DEF SpeaksForStream
    <3>3. QED
      BY <1>1, <3>1, <3>2
  <2>7. QED
    BY <1>3, <2>3, <2>4, <2>5, <2>6, NothingIsOne DEF Calm
<1>9. QED
  BY <1>3, <1>7, <1>8

LEMMA ActsCalm ==
    ASSUME Base, NEW d \in Conns, ClientActs(d), NEW c \in Conns, Calm(c)
    PROVE  Calm(c)' /\ Steady
<1>1. UNCHANGED <<pfVars, gameVars>> /\ (Sends(d) \/ Conn!Stop(d))
  BY ActsEffect
<1>2. CASE Conn!Stop(d)
  BY <1>1, <1>2, StopCalm, StopEffect
<1>3. CASE Sends(d)
  <2>1. UNCHANGED <<conn, state, connUid, current, requested, waits, stream, owner,
                    bound, fromGame, calls, acks, opening, logins>>
    BY <1>1, <1>3 DEF Sends, connVars, pfVars, gameVars
  <2>2. Steady /\ StreamsOf(c)' = StreamsOf(c) /\ Waiting' = Waiting
    BY <2>1 DEF Steady, Used, StreamsOf, Waiting
  <2>3. Opens(c)' = Opens(c) /\ Logs(c)' = Logs(c) /\ Acked(c)' = Acked(c)
    BY <2>1, <2>2 DEF Opens, Logs, Acked
  <2>4. CASE c # d
    <3>1. \A s \in StreamsOf(c) : said'[s] = said[s]
      BY <1>3, <2>4 DEF Sends, StreamsOf
    <3>2. QED
      BY <2>1, <2>2, <2>3, <3>1, CalmKept
  <2>5. CASE c = d
    <3>1. NothingDue(c)' <=> NothingDue(c)
      BY <2>3 DEF NothingDue
    <3>2. OneAsked(c)' /\ OneDue(c)' /\ DueIsCurrent(c)' /\ SpeaksForStream(c)'
      BY <2>1, <2>2, <2>3, <3>1
         DEF Calm, OneAsked, OneDue, DueIsCurrent, SpeaksForStream
    <3>3. waits'[c] # "login" => NothingDue(c)'
      BY <2>1, <3>1 DEF Calm
    <3>4. current[c] \in Streams /\ connUid[c] = bound[current[c]]
      BY <1>3, <2>5, LoginAssumption DEF Sends, Calm, SpeaksForStream, LoginAssumption
    <3>5. OneSaid(c)'
      BY <1>3, <2>1, <2>2, <2>5, <3>4 DEF Sends, Calm, OneSaid, StreamsOf
    <3>6. QED
      BY <2>2, <3>2, <3>3, <3>5 DEF Calm
  <2>6. QED
    BY <2>4, <2>5
<1>4. QED
  BY <1>1, <1>2, <1>3

(* The answer of the game was the one thing due.                           *)
LEMMA StreamCalm ==
    ASSUME Base, NEW d \in Conns, FromStream(d), NEW c \in Conns, Calm(c)
    PROVE  Calm(c)' /\ Steady
<1>1. /\ UNCHANGED <<pfVars, gameVars>>
      /\ Conn!Stop(d) \/ \E s \in Streams : Receipt(d, s)
  BY StreamEffect
<1>2. CASE Conn!Stop(d)
  BY <1>1, <1>2, StopCalm, StopEffect
<1>3. ASSUME NEW s \in Streams, Receipt(d, s)
      PROVE  Calm(c)' /\ Steady
  <2>1. /\ owner[s] = d /\ fromGame[s] # <<>>
        /\ UNCHANGED <<conn, current, requested, stream, owner, bound, said,
                       calls, acks, opening, logins>>
    BY <1>1, <1>3 DEF Receipt, pfVars, gameVars
  <2>2. /\ \A t \in Streams :
             fromGame'[t] = IF t = s THEN Tail(fromGame[s]) ELSE fromGame[t]
        /\ \A e \in Conns :
             /\ state'[e] = IF e = d THEN "Authed" ELSE state[e]
             /\ connUid'[e] = IF e = d THEN bound[s] ELSE connUid[e]
             /\ waits'[e] = IF e = d THEN "nothing" ELSE waits[e]
    BY <1>3, ConnTypes DEF Receipt
  <2>3. Used(s) /\ s \in StreamsOf(d)
    BY <2>1 DEF Base, Shape, StreamsOf, Used
  <2>4. Steady /\ StreamsOf(c)' = StreamsOf(c) /\ Waiting' = Waiting
    BY <2>1 DEF Steady, Used, StreamsOf, Waiting
  <2>5. Opens(c)' = Opens(c) /\ Logs(c)' = Logs(c)
    BY <2>1, <2>4 DEF Opens, Logs
  <2>6. CASE c # d
    <3>1. OthersKeep(d)
      BY <2>1, <2>2 DEF OthersKeep
    <3>2. \A t \in StreamsOf(c) : fromGame'[t] = fromGame[t] /\ said'[t] = said[t]
      BY <2>1, <2>2, <2>6 DEF StreamsOf
    <3>3. QED
      BY <2>1, <2>4, <2>5, <2>6, <3>1, <3>2, OthersCalm
  <2>7. CASE c = d
    <3>1. s \in Acked(c) /\ ~NothingDue(c)
      BY <2>1, <2>3, <2>7 DEF Acked, NothingDue
    <3>2. \A r \in Waiting : r.conn # c
      BY <3>1, DueWasAsked
    <3>3. Opens(c) = {} /\ Logs(c) = {} /\ Acked(c) = {s} /\ Len(fromGame[s]) = 1
      BY <3>1 DEF Calm, OneDue
    <3>4. fromGame'[s] = <<>>
      <4>1. fromGame[s] \in Seq(Nat) /\ fromGame'[s] = Tail(fromGame[s])
        BY <2>2, ConnTypes
      <4>2. QED
        BY <3>3, <4>1, OnlyOneLeaves
    <3>5. Acked(c)' = {}
      BY <2>2, <2>4, <3>3, <3>4 DEF Acked, StreamsOf
    <3>6. NothingDue(c)'
      BY <2>5, <3>3, <3>5 DEF NothingDue
    <3>7. OneAsked(c)' /\ OneSaid(c)'
      BY <2>1, <2>4, <3>2 DEF OneAsked, Calm, OneSaid
    <3>8. SpeaksForStream(c)'
      <4>1. current[c] # NoStream => bound[s] = bound[current[c]]
        BY <3>1, ConnTypes DEF Calm, DueIsCurrent
      <4>2. QED
        BY <2>1, <2>2, <2>7, <4>1 DEF SpeaksForStream
    <3>9. QED
      BY <2>4, <3>6, <3>7, <3>8, NothingIsOne DEF Calm
  <2>8. QED
    BY <2>6, <2>7
<1>4. QED
  BY <1>1, <1>2, <1>3

(* The answer of the platform: what it leads to is the one thing due.      *)
LEMMA CallbackCalm ==
    ASSUME Base, NEW d \in Conns, Callback(d), NEW c \in Conns, Calm(c)
    PROVE  Steady /\ (Calm(c)' \/ Contested(c)')
<1>1. PICK x \in acks :
        /\ x.req.conn = d /\ acks' = acks \ {x} /\ conn[d] = "up"
        /\ Quiet(d, x) \/ \E s \in Streams : Opened(d, x, s)
        /\ UNCHANGED <<platformVars, inbox, calls, speakers, logins, conn, requested>>
  BY CallbackEffect
<1>2. \A r \in Waiting' : r \in Waiting /\ r # x.req
  BY <1>1, CallbackWaits
<1>3. x.req \in Waiting
  BY DEF Waiting
<1>4. c = d => /\ waits[c] = x.req.kind /\ NothingDue(c)
               /\ \A r \in Waiting' : r.conn # c
  BY <1>1, <1>2, <1>3 DEF Calm, OneAsked
<1>5. UNCHANGED <<calls, logins, conn, requested>>
  BY <1>1
<1>6. CASE Quiet(d, x)
  <2>1. PICK st \in Conn!connState, u \in Nat, w \in {"nothing", "silence"} :
          /\ state' = [state EXCEPT ![d] = st]
          /\ connUid' = [connUid EXCEPT ![d] = u]
          /\ waits' = [waits EXCEPT ![d] = w]
          /\ \/ st = "Anon"
             \/ st = state[d] /\ u = connUid[d]
             \/ st = state[d] /\ x.req.kind = "register"
          /\ UNCHANGED <<current, streamVars, opening>>
    BY <1>6 DEF Quiet
  <2>2. UNCHANGED <<current, stream, owner, bound, said, fromGame, opening>>
    BY <2>1 DEF streamVars
  <2>3. \A e \in Conns : /\ state'[e] = IF e = d THEN st ELSE state[e]
                         /\ connUid'[e] = IF e = d THEN u ELSE connUid[e]
                         /\ waits'[e] = IF e = d THEN w ELSE waits[e]
    BY <2>1, ConnTypes
  <2>4. Steady /\ StreamsOf(c)' = StreamsOf(c)
    BY <2>2 DEF Steady, Used, StreamsOf
  <2>5. Opens(c)' = Opens(c) /\ Logs(c)' = Logs(c) /\ Acked(c)' = Acked(c)
    BY <1>5, <2>2, <2>4 DEF Opens, Logs, Acked
  <2>6. CASE c # d
    <3>1. OthersKeep(d)
      BY <1>5, <2>2, <2>3 DEF OthersKeep
    <3>2. QED
      BY <1>2, <1>5, <2>2, <2>4, <2>5, <2>6, <3>1, OthersCalm
  <2>7. CASE c = d
    <3>1. NothingDue(c)'
      BY <1>4, <2>5, <2>7 DEF NothingDue
    <3>2. OneAsked(c)' /\ OneSaid(c)'
      BY <1>4, <2>2, <2>4, <2>7 DEF OneAsked, Calm, OneSaid
    <3>3. SpeaksForStream(c)'
      BY <1>4, <2>1, <2>2, <2>3, <2>7 DEF Calm, SpeaksForStream
    <3>4. QED
      BY <2>4, <3>1, <3>2, <3>3, NothingIsOne DEF Calm
  <2>8. QED
    BY <2>4, <2>6, <2>7
<1>7. ASSUME NEW s \in Streams, Opened(d, x, s)
      PROVE  Steady /\ (Calm(c)' \/ Contested(c)')
  <2>1. x.req.kind = "login" /\ opening' = opening \cup {s} /\ UNCHANGED <<waits, fromGame>>
    BY <1>7 DEF Opened
  <2>2. /\ ~Used(s) /\ Steady
        /\ \A t \in Streams : /\ owner'[t] = IF t = s THEN d ELSE owner[t]
                              /\ bound'[t] = IF t = s THEN x.uid ELSE bound[t]
                              /\ said'[t] = IF t = s THEN {x.uid} ELSE said[t]
                              /\ Used(t)' <=> Used(t) \/ t = s
    BY <1>7, OpenedEffect
  <2>3. \A e \in Conns : /\ current'[e] = IF e = d THEN s ELSE current[e]
                         /\ connUid'[e] = IF e = d THEN x.uid ELSE connUid[e]
                         /\ state'[e] = IF e = d THEN "LoggIng" ELSE state[e]
    BY <1>7, ConnTypes DEF Opened
  <2>4. CASE c # d
    <3>1. OthersKeep(d)
      BY <1>5, <2>1, <2>3 DEF OthersKeep
    <3>2. StreamsOf(c)' = StreamsOf(c)
      BY <2>2, <2>4 DEF StreamsOf, Used
    <3>3. \A t \in StreamsOf(c) : said'[t] = said[t] /\ fromGame'[t] = fromGame[t]
      BY <2>1, <2>2 DEF StreamsOf, Used
    <3>4. Opens(c)' \subseteq Opens(c)
      BY <2>1, <2>2, <2>4, <3>2 DEF Opens, StreamsOf, Used
    <3>5. QED
      BY <1>2, <1>5, <2>2, <2>4, <3>1, <3>2, <3>3, <3>4, OthersCalm
  <2>5. CASE c = d /\ ~Contested(c)'
    <3>1. /\ s \in StreamsOf(c)'
          /\ \A t \in StreamsOf(c)' : t = s \/ (t \in StreamsOf(c) /\ t # s)
      BY <2>2, <2>5 DEF StreamsOf, Used
    <3>2. Opens(c) = {} /\ Logs(c) = {} /\ Acked(c) = {} /\ fromGame[s] = <<>>
      BY <1>4, <2>2, <2>5 DEF NothingDue, Base, Shape
    <3>3. Opens(c)' \subseteq {s} /\ Acked(c)' = {}
      BY <2>1, <3>1, <3>2 DEF Opens, Acked
    <3>4. Logs(c)' = {}
      <4>1. SUFFICES ASSUME NEW v \in Nat, InBox(logins, v),
                            NEW t \in StreamsOf(c)', bound'[t] = v
                     PROVE  FALSE
        BY <1>5 DEF Logs
      <4>2. CASE t # s
        <5>1. t \in StreamsOf(c) /\ bound[t] = v
          BY <2>2, <3>1, <4>1, <4>2 DEF StreamsOf
        <5>2. QED
          BY <3>2, <4>1, <5>1 DEF Logs
      <4>3. CASE t = s
        <5>1. PICK y \in Streams : Used(y) /\ bound[y] = v
          BY <4>1 DEF Base, Shape
        <5>2. owner[y] # c
          BY <3>2, <4>1, <5>1 DEF Logs, StreamsOf, Used
        <5>3. Used(y)' /\ owner'[y] # c /\ bound'[y] = bound'[t]
          BY <2>2, <4>1, <5>1, <5>2 DEF Steady
        <5>4. QED
          BY <2>5, <4>1, <5>3 DEF Contested, Used
      <4>4. QED
        BY <4>2, <4>3
    <3>5. OneAsked(c)' /\ waits'[c] = "login"
      BY <1>4, <2>1, <2>5 DEF OneAsked
    <3>6. OneDue(c)' /\ DueIsCurrent(c)'
      <4>1. OneDue(c)'
        BY <3>3, <3>4 DEF OneDue
      <4>2. DueIsCurrent(c)'
        BY <2>3, <2>5, <3>3, <3>4, LoginAssumption DEF DueIsCurrent, LoginAssumption
      <4>3. QED
        BY <4>1, <4>2
    <3>7. OneSaid(c)'
      <4>1. \A t \in StreamsOf(c) : t \in Streams /\ said[t] \subseteq {bound[t]}
        BY DEF Calm, OneSaid, StreamsOf
      <4>2. QED
        BY <2>2, <3>1, <4>1 DEF OneSaid
    <3>8. SpeaksForStream(c)'
      BY <2>3, <2>5 DEF SpeaksForStream
    <3>9. QED
      BY <2>2, <3>5, <3>6, <3>7, <3>8 DEF Calm
  <2>6. QED
    BY <2>2, <2>4, <2>5
<1>8. QED
  BY <1>1, <1>6, <1>7

-----------------------------------------------------------------------------
LEMMA CalmNext ==
    ASSUME "retry" \notin Inputs, Base, AllCalm, [Next]_vars
    PROVE  AllCalm'
<1> SUFFICES ASSUME NEW c \in Conns, ~Contested(c)'
             PROVE  Calm(c)'
  BY DEF AllCalm
<1>1. ASSUME Steady, Calm(c) => Calm(c)' \/ Contested(c)'
      PROVE  Calm(c)'
  BY <1>1, ContestedStays DEF AllCalm
<1>2. CASE PlatformStep \/ PlatformRestarts \/ Expires
  <2>1. Steady
    <3>1. UNCHANGED <<stream, owner, bound>>
      BY <1>2, PlatformKeeps DEF streamVars
    <3>2. QED
      BY <3>1 DEF Steady, Used
  <2>2. QED
    BY <1>1, <1>2, <2>1, PlatformCalm
<1>3. CASE PlayAnswers
  BY <1>1, <1>3, AnswersBase, AnswersCalm
<1>4. ASSUME NEW s \in Streams, GameOpens(s)
      PROVE  Calm(c)'
  <2>1. Steady
    BY <1>4, OpensBase
  <2>2. ~Contested(c) /\ Calm(c)
    BY <2>1, ContestedStays DEF AllCalm
  <2>3. QED
    BY <1>4, <2>2, OpensCalm
<1>5. ASSUME NEW s \in Streams, StreamEnds(s) \/ GameCloses(s)
      PROVE  Calm(c)'
  BY <1>1, <1>5, EndsBase, EndsCalm
<1>6. ASSUME NEW d \in Conns,
             ClientAsks(d) \/ ClientActs(d) \/ Callback(d) \/ FromStream(d)
      PROVE  Steady
  <2>1. CASE ClientAsks(d)
    <3>1. UNCHANGED <<stream, owner, bound>>
      BY <2>1, AsksEffect DEF streamVars
    <3>2. QED
      BY <3>1 DEF Steady, Used
  <2>2. CASE ClientActs(d)
    <3>1. CASE Sends(d)
      BY <3>1 DEF Sends, Steady, Used
    <3>2. CASE Conn!Stop(d)
      BY <3>2, StopEffect
    <3>3. QED
      BY <2>2, <3>1, <3>2, ActsEffect
  <2>3. CASE FromStream(d)
    <3>1. ASSUME NEW s \in Streams, Receipt(d, s)
          PROVE  Steady
      BY <3>1 DEF Receipt, Steady, Used
    <3>2. CASE Conn!Stop(d)
      BY <3>2, StopEffect
    <3>3. QED
      BY <2>3, <3>1, <3>2, StreamEffect
  <2>4. CASE Callback(d)
    <3>1. PICK x \in acks : Quiet(d, x) \/ \E s \in Streams : Opened(d, x, s)
      BY <2>4, CallbackEffect
    <3>2. CASE Quiet(d, x)
      BY <3>2 DEF Quiet, streamVars, Steady, Used
    <3>3. ASSUME NEW s \in Streams, Opened(d, x, s)
          PROVE  Steady
      BY <3>3, OpenedEffect
    <3>4. QED
      BY <3>1, <3>2, <3>3
  <2>5. QED
    BY <1>6, <2>1, <2>2, <2>3, <2>4
<1>7. ASSUME NEW d \in Conns,
             ClientAsks(d) \/ ClientActs(d) \/ Callback(d) \/ FromStream(d)
      PROVE  Calm(c)'
  BY <1>1, <1>6, <1>7, AsksCalm, ActsCalm, CallbackCalm, StreamCalm
<1>8. CASE UNCHANGED vars
  <2>1. UNCHANGED <<conn, state, connUid, current, requested, waits, stream, owner,
                    bound, said, fromGame, calls, acks, opening, logins>>
    BY <1>8 DEF vars, connVars, streamVars, pfVars, gameVars
  <2>2. Steady /\ StreamsOf(c)' = StreamsOf(c) /\ Waiting' = Waiting
    BY <2>1 DEF Steady, Used, StreamsOf, Waiting
  <2>3. Opens(c)' = Opens(c) /\ Logs(c)' = Logs(c)
    BY <2>1, <2>2 DEF Opens, Logs
  <2>4. Calm(c) => Calm(c)'
    BY <2>1, <2>2, <2>3, CalmKept
  <2>5. QED
    BY <1>1, <2>2, <2>4
<1>9. QED
  BY <1>2, <1>3, <1>4, <1>5, <1>7, <1>8 DEF Next

LEMMA CalmHolds ==
    ASSUME "retry" \notin Inputs
    PROVE  Spec => []AllCalm
<1>1. Init => AllCalm
  BY CalmInit
<1>2. Base /\ AllCalm /\ [Next]_vars => AllCalm'
  BY CalmNext
<1>3. QED
  BY BaseHolds, <1>1, <1>2, PTL DEF Spec

(* Whatever a client that waits for its answers asks, logs in again or     *)
(* registers, and whatever is late or fails: what its Conn says on a       *)
(* stream it says for the uid that the stream was opened for, unless       *)
(* another client logs that uid in (service.go regCb, authLoginCb and      *)
(* LoginAck each set Conn.uid; router.go onWsMsg sends it).                *)
THEOREM StreamsKeepUids ==
    ASSUME "retry" \notin Inputs
    PROVE  Spec => []StreamOneUid
<1>1. Base /\ AllCalm => StreamOneUid
  <2> SUFFICES ASSUME Base, AllCalm, NEW s \in Streams, ~Contested(owner[s])
               PROVE  said[s] \subseteq {bound[s]}
    BY DEF StreamOneUid
  <2>1. CASE ~Used(s)
    BY <2>1 DEF Base, Shape
  <2>2. CASE Used(s)
    <3>1. owner[s] \in Conns /\ s \in StreamsOf(owner[s])
      BY <2>2, ConnTypes DEF StreamsOf, Used
    <3>2. QED
      BY <3>1 DEF AllCalm, Calm, OneSaid
  <2>3. QED
    BY <2>1, <2>2
<1>2. QED
  BY BaseHolds, CalmHolds, <1>1, PTL

(* A callback's request is answered once, and it is the last one of a      *)
(* client that waits for its answers (platformrpc HandleMessage: a late    *)
(* answer of the platform's does not follow the timeout's).                *)
THEOREM CallbacksForLast ==
    ASSUME "retry" \notin Inputs
    PROVE  Spec => []CallbackOfLast
<1>1. Base /\ AllCalm => CallbackOfLast
  <2> SUFFICES ASSUME Base, AllCalm, NEW x \in acks
               PROVE  /\ x.req \notin calls
                      /\ x.req.n = requested[x.req.conn] \/ Contested(x.req.conn)
    BY DEF CallbackOfLast
  <2>1. x.req \in Waiting /\ x.req.conn \in Conns
    BY PlatformTypes DEF Waiting, Acks, Platform!Requests
  <2>2. x.req \notin calls
    BY DEF Base, Asked
  <2>3. QED
    BY <2>1, <2>2 DEF AllCalm, Calm, OneAsked
<1>2. QED
  BY BaseHolds, CalmHolds, <1>1, PTL
=============================================================================
