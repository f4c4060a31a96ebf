CONSTANTS
    Backlog = 1
    QueueMax = 2
    Refill = 2
    MaxMoves = 1
    MaxEpoch = 2
    MaxSteps = 2
    MaxActions = 1
    MaxFaults = 1
    Window = 1
SPECIFICATION Spec
INVARIANTS
    
    ShownIsOfFloor
PROPERTIES
    NeverBack
CHECK_DEADLOCK FALSE
