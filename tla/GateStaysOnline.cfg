SPECIFICATION FairSpec
CONSTANTS
    Uids = {u1}
    Streams = {s1}
    NoUid = NoUid
    NoStream = NoStream
    Capacity = 2
    MaxFrames = 1
    MaxSent = 0
    MaxInputs = 0
    Inputs <- NoInputs
    Faults <- NoFaults
PROPERTY ClosedIsOffline
CHECK_DEADLOCK FALSE
