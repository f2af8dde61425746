SPECIFICATION FairResultsSpec
CONSTANTS
    Users = {u, v}
    NoUser = NoUser
    MaxPlayers = 2
    MinToStart = 2
    MaxJoins = 2
    MaxDeals = 2
    ApiFails = TRUE
INVARIANTS
    ResultsOK
PROPERTIES
    WaitsEnd
CHECK_DEADLOCK FALSE
