SPECIFICATION ClockSpec
CONSTANTS
    Seats = {0, 1}
    MaxTurns = 3
    MaxRestarts = 1
INVARIANT ReclaimedRoomHasClock
CHECK_DEADLOCK FALSE
