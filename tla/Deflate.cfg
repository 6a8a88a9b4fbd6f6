SPECIFICATION FairSpec
CONSTANTS
  Fds = {f1, f2}
  Settings <- MCSettings
  Shapes <- MCShapes
  MaxConnections = 2
  MaxOffers = 2
  MaxMessages = 3
  TrailerRoom = 8
INVARIANTS
  TypeOK
  ConfigIsOfThisConnection
  DecodedAsSent
  PeerReadsWhatWasSent
  StreamsAreInitialised
PROPERTIES
  CallsReturn
\* The run ends when the bounds are used up.
CHECK_DEADLOCK FALSE
