SPECIFICATION FairSpec
CONSTANTS
  PeerFrames <- PlainFrames
  MaxFrames = 3
  BufferSize = 2
  MaxPayloadSize = 8
  Extensions = FALSE
  InflateResults = {}
  ReallocMayFail = FALSE
INVARIANTS TypeOK MemorySafe InSync
PROPERTIES EveryFrameHandled ImplementsFrameStream
CHECK_DEADLOCK FALSE
