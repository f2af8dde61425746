SPECIFICATION Spec
CONSTANTS
    Rooms = {1, 2}
    LobbyCalls = {1, 2}
    Ratings = {3}
    Around = 1
    Scores = {0, 100}
    Sockets = {1, 2}
    LastChange = 3
    MaxCasts = 2
    LastDay = 3
    Claims = {1, 2}
    TeamSeats = 4
    TeamMin = 2
    MaxChanges = 5
    MaxLives = 3
    Failures = "unanswered"
VIEW PartView
INVARIANTS
    
    WatchIsCurrent
    TeamsSound
    StoreSound
PROPERTIES
    NeverBackwardsInALife
CHECK_DEADLOCK FALSE
