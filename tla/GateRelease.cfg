SPECIFICATION FairSpec
CONSTANTS
    Uids = {u1}
    Streams = {s1, s2}
    NoUid = NoUid
    NoStream = NoStream
    Capacity = 2
    MaxFrames = 1
    MaxSent = 1
    MaxInputs = 0
    Inputs <- NoInputs
    Faults <- StreamFaults
PROPERTIES ClosedReleases OrphanReleased
CHECK_DEADLOCK FALSE
