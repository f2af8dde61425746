SPECIFICATION ApiSpec
CONSTANTS
    Users = {u, v, w}
    NoUser = NoUser
    MaxPlayers = 2
    MinToStart = 2
    MaxJoins = 2
    MaxDeals = 1
    ApiFails = TRUE
    MaxCalls = 2
SYMMETRY Symmetry
VIEW ApiView
INVARIANTS
    RowsOK
PROPERTIES
    KickedNeverReturns
CHECK_DEADLOCK FALSE
