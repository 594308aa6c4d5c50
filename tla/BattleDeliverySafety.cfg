SPECIFICATION Spec
CONSTANTS
    Players = {u1}
    Battles = {b1, b2}
    Nodes = {n1, n2}
    NoPlayer = NoPlayer
    NoBattle = NoBattle
    NoNode = NoNode
    NumEvents = 1
    RetryAttempts = 2
    MaxRestarts = 1
    Faults <- AllFaults
SYMMETRY Symmetry
INVARIANTS TypeOK ShownInOrder RunningIsOpen SavedBeforeFinished ConfirmedWasApplied ActiveMatchesActors
PROPERTY RefinesResult
\* The battle identifiers run out, then the system stops.
CHECK_DEADLOCK FALSE
