SPECIFICATION ResultsSpec
CONSTANTS
    Users = {u, v}
    NoUser = NoUser
    MaxPlayers = 2
    MinToStart = 2
    MaxJoins = 2
    MaxDeals = 1
    ApiFails = FALSE
VIEW RoomView
INVARIANT ResultIsScored
CHECK_DEADLOCK FALSE
