SPECIFICATION FairSpec
CONSTANTS
  Fds = {1, 2, 3}
  Listener = 0
  Initial <- MCInitial
  MaxConnections = 4
  MaxOutputs = 1
INVARIANTS
  TypeOK
  ArrayIsComplete
  WithinAllocation
  WatchesFollowOutput
  InputReachesItsConnection
PROPERTIES
  EveryoneIsServed
\* The run ends when no more connections are made and nobody sends.
CHECK_DEADLOCK FALSE
