SPECIFICATION Spec
CONSTANTS
    N = 3
    Capacity = 2
    Waiters <- MCWaiters
    MinDelay = 1
    Threshold = 1
    Second = 1
    Quota = 2
    Window = 4
CHECK_DEADLOCK FALSE
INVARIANTS
    SlotsSpaced
    Complete
    AtMostOneLateStart
    ResultsTrue
PROPERTIES
    BatchReturns
    CancelIsPrompt
