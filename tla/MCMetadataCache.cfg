SPECIFICATION MetadataSpec
CONSTANTS
    t1 = t1
    t2 = t2
    k1 = k1
    k2 = k2
    v1 = v1
    Callers <- MCCallers
    Keys <- MCKeys
    Nullable <- MCNullable
    Values <- MCValues
    NoValue = NoValue
    TTL = 2
    MaxDelay = 1
    MaxClock = 3
SYMMETRY MCSymmetry
INVARIANTS
    Fresh
    Refilled
