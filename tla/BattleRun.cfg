SPECIFICATION Spec
CONSTANTS
    Collections <- MCCollections
    Requests <- MCRequests
    Boots <- AnyBoot
    NoUnit = NoUnit
    Faults <- AnyFault
INVARIANTS TypeOK AdvanceExact TurnsArePaid ResultDetermined EventsReplay OutcomeTrue
PROPERTIES DeadStayDead CooldownHeld
CHECK_DEADLOCK FALSE
