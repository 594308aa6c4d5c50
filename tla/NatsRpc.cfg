SPECIFICATION FairSpec
CONSTANTS
    Nodes <- TwoNodes
    Calls <- CallsAndCasts
    NoCall = NoCall
    BoxSize = 1
    Fragile <- Caller
    Faults <- AllFaults
INVARIANTS TypeOK AnsweredOnce NeverForgotten PendingTimesOut OwnReply
PROPERTIES CallAnswered 
CHECK_DEADLOCK FALSE
