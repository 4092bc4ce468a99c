SPECIFICATION MCSpec
CONSTANTS
    p = p
    q = q
    Paths = {p, q}
    x = x
    y = y
    Contents = {x}
    None = None
    Messages <- MCMessages
    UserMsg = "user"
    Starts <- MCStarts
    MaxFaults = 2
    MaxRebases = 2
    MaxEdits = 1
    one = one
    two = two
    Branches <- MCMergeBranches
    Histories <- MCHistories
    MaxObjects = 5
    MaxLosses = 2
CHECK_DEADLOCK FALSE
INVARIANTS
    AbortRestores
    OnTopOfOnto
    NoneDropped
    DisjointSidesCarried
    PanicNeedsFault
PROPERTIES
    MergeCarriesBoth
