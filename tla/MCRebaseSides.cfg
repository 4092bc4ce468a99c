SPECIFICATION Spec
CONSTANTS
    p = p
    q = q
    Paths = {p, q}
    x = x
    y = y
    Contents = {x, y}
    None = None
    Messages <- MCMessages
    UserMsg = "user"
    Starts <- MCSidesStarts
    MaxFaults = 0
    MaxRebases = 1
    MaxEdits = 0
CHECK_DEADLOCK FALSE
INVARIANTS
    BothSidesCarried
