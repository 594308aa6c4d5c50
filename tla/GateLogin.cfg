SPECIFICATION FairSpec
CONSTANTS
    Conns = {"c1", "c2"}
    Accounts = {a1, a2}
    Streams = {s1, s2}
    NoUid = 0
    NoStream = NoStream
    NoRequest = NoRequest
    MaxRequests <- TwoAndOne
    Known = {a1}
    Started = 1
    Inputs <- Patient
    Faults <- AllFaults
INVARIANTS TypeOK   CallbackOfLast
 
CHECK_DEADLOCK FALSE
