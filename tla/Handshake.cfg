SPECIFICATION FairSpec
CONSTANTS
  Requests <- AllRequests
  MaxConnections = 2
  BufferSize = 9
INVARIANTS
  TypeOK
  RequestIsOfThisConnection
  RequestIsUnanswered
  UpgradedIsValid
PROPERTIES
  WholeRequestIsDecided
\* The run ends when the last connection is closed.
CHECK_DEADLOCK FALSE
