SPECIFICATION Spec
CONSTANTS
    Providers = {"github", "gitlab", "azure"}
    Me = "me"
    Others = {"ann"}
    Names = {"old", "theirs", "mod", "mine", "bug"}
    Requests <- MCRequests
    MaxCalls = 2
    MaxEvents = 2
    MaxFaults = 1
    MaxPolls = 2
INVARIANTS
    ReportedMergesHappened
    RequestedChangesShow
    ApprovalsAreCurrent
    ReadsBackWithBody
PROPERTIES
    UpdateIsLocal
    MergesWhatItRead
CHECK_DEADLOCK FALSE
