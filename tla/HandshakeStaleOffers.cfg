SPECIFICATION Spec
CONSTANTS
  Requests <- TwoRequests
  MaxConnections = 2
  BufferSize = 9
INVARIANTS
  ExtensionsWereOffered
CHECK_DEADLOCK FALSE
