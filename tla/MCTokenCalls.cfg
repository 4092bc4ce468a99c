SPECIFICATION MCSpec
CONSTANTS
    r1 = r1
    r2 = r2
    r3 = r3
    Calls <- MCCalls
    MaxAttempts = 2
    RetryWrite = FALSE
    MaxVersion = 2
    MaxToken = 2
    Askers <- MCCalls
    Margin = 2
    FallbackTTL = 4
    Lives <- MCLives
    MaxDelay = 1
    MaxClock = 6
SYMMETRY MCSymmetry2
CHECK_DEADLOCK FALSE
INVARIANTS
    TransportTypeOK
    NoCrossPrincipal
    CacheFaithful
    InFlightValid
PROPERTIES
    WriteOnceHolds
    LastResponseReturned
    FetchesSpaced
