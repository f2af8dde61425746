SPECIFICATION Spec
CONSTANTS
    Users = {u, v, w}
    NoUser = NoUser
    MaxPlayers = 3
    MinToStart = 2
    MaxJoins = 3
    MaxDeals = 1
    ApiFails = TRUE
SYMMETRY Symmetry
VIEW RoomView
INVARIANTS
    SeatsOK
PROPERTIES
    SeatsAreKept
CHECK_DEADLOCK FALSE
