SPECIFICATION ColumnsSpec
CONSTANTS
    a = a
    b = b
    Clients <- MCClients
    Names = {"todo", "Todo", "done"}
    Lower <- MCLower
    Cards = {"card"}
    MaxMade = 5
    MaxEvents = 3
    MaxFaults = 1
SYMMETRY MCSymmetry
INVARIANTS
    NoTwins
PROPERTIES
    ReadColumnsSurvive
