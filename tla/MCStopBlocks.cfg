SPECIFICATION Spec
CONSTANTS
    k1 = k1
    k2 = k2
    k3 = k3
    c1 = c1
    c2 = c2
    s1 = s1
    s2 = s2
    Keys <- MCOneKey
    Callers <- MCOneCaller
    Stoppers <- MCStoppers
    TTL = 1
    MaxSize = 0
    MaxTime = 2
    MaxInst = 0
    MaxJanitors = 2
INVARIANTS
    StopBlocksUntilExited
