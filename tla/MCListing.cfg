SPECIFICATION ListingSpec
CONSTANTS
    Lists <- MCLists
    Limits = {1, 3}
    Pages = {1, 2}
    MaxPage = 2
    MaxItems = 4
    MaxEvents = 2
INVARIANTS
    NothingLeft
    NoRepeats
    NoHoles
CHECK_DEADLOCK FALSE
