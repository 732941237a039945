SPECIFICATION Spec
CONSTANTS
    Callers = {c1, c2}
    Providers = {"github", "gitlab", "azure"}
    Requests <- MCRequests
    Labels <- MCLabels
    People = {"ann"}
    Gen = "gen"
    Mod = "mod"
    OnUpdate = {}
    OnMove <- MCOnMove
    Columns = {"todo", "done"}
    Iterations = {"sprint", "backlog"}
    First = "todo"
    Done = "done"
    Starts <- MCStarts
    RegetPollMaxAttempts = 2
    Handled = {"bug"}
    MaxEdits = 1
INVARIANTS
    LabelsSurvive
    NoStrayLabels
    EditsAreAttributed
    BoardEndsAsAsked
    BulkIsComplete
PROPERTIES
    CallsEnd
CHECK_DEADLOCK FALSE
