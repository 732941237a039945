SPECIFICATION Spec
CONSTANTS
    Providers = {"github", "gitlab", "azure"}
    Self = "self"
    Targets = {"t1", "t12", "gone"}
    Missing = {"gone"}
    Longer <- MCLonger
    DefaultPage = 1
    Crowded = {"t12"}
    Requests <- MCRequests
    MaxCalls = 2
    MaxEvents = 2
    MaxFaults = 1
INVARIANTS
    WritesReadBack
    RefusalChangesOnlyLink
PROPERTIES
    ErrorsAreGenuine
    RemovalIsExact
CHECK_DEADLOCK FALSE
