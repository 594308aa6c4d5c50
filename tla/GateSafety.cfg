SPECIFICATION Spec
CONSTANTS
    Uids = {u1}
    Streams = {s1, s2}
    NoUid = NoUid
    NoStream = NoStream
    Capacity = 2
    MaxFrames = 1
    MaxSent = 1
    MaxInputs = 1
    Inputs <- AllInputs
    Faults <- AllFaults
SYMMETRY Symmetry
INVARIANTS TypeOK OneSpeaker SessionAlive LoggedInIsOnline BannedOut
PROPERTY EndedForAReason
CHECK_DEADLOCK FALSE
