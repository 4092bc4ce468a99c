SPECIFICATION Spec
CONSTANTS
    N = 3
    Capacity = 3
    Waiters <- MCWaiters
    MinDelay = 0
    Threshold = 1
    Second = 1
    Quota = 1
    Window = 4
CHECK_DEADLOCK FALSE
INVARIANTS
    ProgressiveSlots
