SPECIFICATION FairSpec
CONSTANTS
    Players = {u1}
    Battles = {b1, b2}
    Nodes = {n1}
    NoPlayer = NoPlayer
    NoBattle = NoBattle
    NoNode = NoNode
    NumEvents = 1
    RetryAttempts = 2
    MaxRestarts = 0
    Faults <- LossFaults
PROPERTIES
    BattleReleased
\* The battle identifiers run out, then the system stops.
CHECK_DEADLOCK FALSE
