SPECIFICATION Spec
CONSTANTS
    MaxRuns = 3
    Page = 2
    Timeout = 3
    PollInterval = 1
    Floor = 2
    Red = {"failure"}
    Inconclusive = {"cancelled"}
    MaxClock = 4
INVARIANTS
    WaitInv
    VerdictMatchesServer
    GivesUpOnlyAtDeadline
PROPERTIES
    Paced
    Returns
CHECK_DEADLOCK FALSE
