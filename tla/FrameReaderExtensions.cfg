SPECIFICATION FairSpec
CONSTANTS
  PeerFrames <- NegotiatedFrames
  MaxFrames = 3
  BufferSize = 2
  MaxPayloadSize = 4
  Extensions = TRUE
  InflateResults = {"inflated", "empty", "failed"}
  ReallocMayFail = TRUE
PROPERTIES ImplementsFrameStream
CHECK_DEADLOCK FALSE
