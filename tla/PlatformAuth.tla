---------------------------- MODULE PlatformAuth ----------------------------
(***************************************************************************)
(* The accounts of the platform (platform/grpc, platform/service) and the  *)
(* gate's PfRpc actor, which runs every request in a goroutine of its own  *)
(* with five seconds to be answered.  The Platform actor handles one       *)
(* request at a time, in whatever order they arrive.                       *)
(*                                                                         *)
(* A uid is a number of seconds: the counter starts at the time at which   *)
(* the process starts and counts registrations.                            *)
(***************************************************************************)
EXTENDS Naturals

CONSTANTS
    Conns, Accounts, NoUid,
    NoRequest,
    Known,          \* the accounts of earlier runs
    Started,        \* the second the process starts in
    Inputs, Faults

VARIABLES
    accounts,       \* the uid of each account in the database
    uidCounter,
    now,            \* the clock, in seconds
    registering,    \* the request between FindOne and InsertOne
    inbox,          \* what reached, or will reach, the Platform actor
    calls,          \* the requests whose goroutine waits
    acks            \* the answers on their way to the connections

platformVars == <<accounts, uidCounter, now, registering>>

Uids == Nat \ {NoUid}
(* RegisterReq or AuthLoginReq, the n-th request of a Conn.                *)
Requests == [conn : Conns, n : Nat, kind : {"login", "register"},
             account : Accounts]

TypeOK ==
    /\ accounts \in [Accounts -> Uids \cup {NoUid}]
    /\ uidCounter \in Nat
    /\ now \in Nat
    /\ registering \in Requests \cup {NoRequest}
    /\ inbox \subseteq Requests
    /\ calls \subseteq Requests
    /\ acks \subseteq [req : Requests, code : {"OK", "refused", "error"},
                       uid : Uids \cup {NoUid}]

Init ==
    /\ accounts \in {f \in [Accounts -> 0..Started] :
                       /\ {a \in Accounts : f[a] # NoUid} = Known
                       /\ \A a, b \in Known : f[a] = f[b] => a = b}
    /\ now = Started
    /\ uidCounter = now
    /\ registering = NoRequest
    /\ inbox = {}
    /\ calls = {}
    /\ acks = {}

-----------------------------------------------------------------------------
AuthAck(r, code, u) == [req |-> r, code |-> code, uid |-> u]

(* Mutant: an answer that comes after the five seconds is passed on.       *)
RespondLate(r, code, u) ==
    /\ acks' = acks \cup {AuthAck(r, code, u)}
    /\ calls' = calls \ {r}

(* The caller's goroutine gets the answer if it still waits.               *)
Respond(r, code, u) ==
    /\ acks' = IF r \in calls THEN acks \cup {AuthAck(r, code, u)} ELSE acks
    /\ calls' = calls \ {r}

(* PfRpc's HandleMessage: a goroutine calls the platform.                  *)
Invoke(r) ==
    /\ inbox' = inbox \cup {r}
    /\ calls' = calls \cup {r}

(* The five seconds are over; the platform may handle the request yet, or  *)
(* never: it was lost.                                                     *)
InvokeFails(r) ==
    /\ r \in calls
    /\ Respond(r, "error", NoUid)
    /\ UNCHANGED <<platformVars, inbox>>

-----------------------------------------------------------------------------
Take(r) ==
    /\ r \in inbox
    /\ registering = NoRequest
    /\ inbox' = inbox \ {r}

(* FindOne: an account that exists or a database error refuses, else the   *)
(* password is hashed and the account inserted.                            *)
RegisterFinds(r) ==
    /\ r.kind = "register"
    /\ Take(r)
    /\ \/ /\ accounts[r.account] # NoUid \/ "database" \in Faults
          /\ Respond(r, "refused", NoUid)
          /\ UNCHANGED registering
       \/ /\ accounts[r.account] = NoUid
          /\ registering' = r
          /\ UNCHANGED <<calls, acks>>
    /\ UNCHANGED <<accounts, uidCounter, now>>

(* Mutant: the counter starts from where it first started.                 *)
StartSame == 0

(* init: the counter starts at the current second.                         *)
StartCounter == now

(* A registration takes its second, but for a burst of them.               *)
TimePasses == now' \in {now + 1} \cup IF "burst" \in Inputs THEN {now} ELSE {}

Insert(r, u) == accounts' = [accounts EXCEPT ![r.account] = u]

(* NextUID and InsertOne, whose failure may follow its effect.             *)
RegisterInserts ==
    LET u == uidCounter + 1 IN
    /\ registering # NoRequest
    /\ registering' = NoRequest
    /\ uidCounter' = u
    /\ TimePasses
    /\ \/ Insert(registering, u) /\ Respond(registering, "OK", u)
       \/ /\ "database" \in Faults
          /\ Insert(registering, u) \/ UNCHANGED accounts
          /\ Respond(registering, "refused", NoUid)
    /\ UNCHANGED inbox

(* Login of a known account with the right password, or refused.           *)
Login(r) ==
    /\ r.kind = "login"
    /\ Take(r)
    /\ LET u == accounts[r.account] IN
       \/ u # NoUid /\ Respond(r, "OK", u)
       \/ /\ u = NoUid \/ "password" \in Inputs \/ "database" \in Faults
          /\ Respond(r, "refused", NoUid)
    /\ UNCHANGED platformVars

Step == RegisterInserts \/ \E r \in inbox : RegisterFinds(r) \/ Login(r)

(* The process restarts; what it handled is gone.                          *)
Restart ==
    /\ "restart" \in Faults
    /\ registering' = NoRequest
    /\ uidCounter' = StartCounter
    /\ UNCHANGED <<accounts, now, inbox, calls, acks>>
=============================================================================
