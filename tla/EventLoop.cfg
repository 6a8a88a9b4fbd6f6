SPECIFICATION FairSpec
CONSTANTS
  Fds = {f1, f2, f3}
  Listener = listener
  MaxConnections = 4
  Backlog = 2
  BatchSize = 2
INVARIANTS
  TypeOK
  EventsReachTheirConnection
  EdgesAreKept
PROPERTIES
  EveryoneIsServed
  AcceptedUnlessMerged
\* The run ends when no more connections are made and nobody sends.
CHECK_DEADLOCK FALSE
