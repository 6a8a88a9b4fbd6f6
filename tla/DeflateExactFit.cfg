SPECIFICATION Spec
CONSTANTS
  Fds = {f1}
  Settings <- MCSettings
  Shapes <- MCShapes
  MaxConnections = 1
  MaxOffers = 1
  MaxMessages = 3
  TrailerRoom = 8
INVARIANT ValidMessagesAreAccepted
CHECK_DEADLOCK FALSE
