SPECIFICATION TransportSpec
CONSTANTS
    r1 = r1
    r2 = r2
    r3 = r3
    Calls <- MCCalls3
    MaxAttempts = 1
    RetryWrite = FALSE
    MaxVersion = 2
    MaxToken = 1
SYMMETRY MCSymmetry
CHECK_DEADLOCK FALSE
INVARIANTS
    ReplayNotStale
