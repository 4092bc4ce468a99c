SPECIFICATION Spec
CONSTANTS
    k1 = k1
    k2 = k2
    k3 = k3
    c1 = c1
    c2 = c2
    s1 = s1
    s2 = s2
    Keys <- MCKeys
    Callers <- MCCallers
    Stoppers <- MCNobody
    TTL = 1
    MaxSize = 2
    MaxTime = 2
    MaxInst = 4
    MaxJanitors = 0
SYMMETRY MCSymmetry
INVARIANTS
    OrderMirrorsMap
    SizeBound
    NoResurrection
    SharedInstance
PROPERTIES
    FreshKept
