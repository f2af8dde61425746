SPECIFICATION Spec
VIEW SessionView
CONSTANTS
    Requests = {q1, q2}
    MaxRows = 3
    Faulty = TRUE
INVARIANTS
    SessionSound
    WaitsForACall
PROPERTIES
    SentAgainUnderSameSession
    GivesUpOnlyWhenDead
CHECK_DEADLOCK FALSE
