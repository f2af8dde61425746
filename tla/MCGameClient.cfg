SPECIFICATION Spec
VIEW ClientView
CONSTANTS
  Sockets = {1, 2}
  Turns = 1
  MaxQueue = 2
  RenderEach = TRUE
  UsePiP = TRUE
INVARIANTS
  ClientSound
  PageFollowsRoom
  SeatFollowsSocket
PROPERTIES
  ComesBack
  DeadRoomIsOver
CHECK_DEADLOCK FALSE
