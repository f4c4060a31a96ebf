CONSTANTS
    Backlog = 1
    QueueMax = 2
    Refill = 2
    MaxMoves = 1
    MaxEpoch = 2
    MaxSteps = 0
    MaxActions = 0
    MaxFaults = 1
    Window = 1
SPECIFICATION FairSpec
PROPERTIES
    JoinerCatchesUp
    
    ResultArrives
CHECK_DEADLOCK FALSE
