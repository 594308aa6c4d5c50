SPECIFICATION FairSpec
CONSTANTS
    Players = {u1, u2}
    Battles = {b1, b2}
    Nodes = {n1}
    NoPlayer = NoPlayer
    NoBattle = NoBattle
    NoNode = NoNode
    NumEvents = 2
    RetryAttempts = 2
    MaxRestarts = 0
    Faults <- NoFaults
PROPERTIES
    ResultApplied
\* The battle identifiers run out, then the system stops.
CHECK_DEADLOCK FALSE
