SPECIFICATION FairSpec
CONSTANTS
    Players = {u1}
    Battles = {b1}
    Nodes = {n1}
    NoPlayer = NoPlayer
    NoBattle = NoBattle
    NoNode = NoNode
    NumEvents = 1
    RetryAttempts = 2
    MaxRestarts = 0
    Faults <- CreateFault
PROPERTIES
    StartRecovers
CHECK_DEADLOCK FALSE
