SPECIFICATION Spec
CONSTANTS
    Callers = {c1, c2}
    Commits = {k1, k2}
    NoCommit = NoCommit
    MaxReviews = 2
    MaxCalls = 3
    MaxLate = 1
SYMMETRY Alike
INVARIANTS
    CommitsKept
    SubmitPublishes
    NoOrphan
    CleanupIsCareful
CHECK_DEADLOCK FALSE
