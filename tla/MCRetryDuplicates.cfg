SPECIFICATION Spec
CONSTANTS
    None = None
    c1 = c1
    c2 = c2
    o1 = o1
    o2 = o2
    Keys = {"k"}
    Args = {"a"}
    Callers = {c1, c2}
    Requests <- MCRequests
    Objects = {o1, o2}
    TTL = 1
    MaxClock = 2
INVARIANT
    RetryNeverDuplicates
SYMMETRY Symmetry
