SPECIFICATION Spec
CONSTANTS
    Seats = {0, 1}
    MaxTurns = 4
    MaxRestarts = 1
    Replicas = {a, b}
    None = None
    MaxTokens = 2
    MaxMoves = 1
    MaxClosing = 1
    RedisFails = TRUE
VIEW OwnedRoomView
INVARIANTS
    ClockSound
    OwnersSound
PROPERTIES
    TurnsEnd
    SupersededOwnerStops
CHECK_DEADLOCK FALSE
