SPECIFICATION Spec
CONSTANTS
    Players = {u1}
    Battles = {b1, b2}
    Nodes = {n1}
    NoPlayer = NoPlayer
    NoBattle = NoBattle
    NoNode = NoNode
    NumEvents = 1
    RetryAttempts = 2
    MaxRestarts = 0
    Faults <- NoFaults
PROPERTIES
    DuplicatesAcknowledged
CHECK_DEADLOCK FALSE
