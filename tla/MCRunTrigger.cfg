SPECIFICATION Spec
CONSTANTS
    None = None
    c1 = c1
    c2 = c2
    Callers = {c1}
    Refs = {"main"}
    Others <- MCOthers
    Page = 2
    Timeout = 2
    Backoffs <- MCBackoffs
    Second = 2
    Skews <- MCSkews
    MaxRuns = 3
    LastCall = 2
    MaxClock = 5
INVARIANTS
    OldestOfWindow
    NeverPreexisting
    TimeoutIsGenuine
PROPERTY
    CallsEnd
CHECK_DEADLOCK FALSE
