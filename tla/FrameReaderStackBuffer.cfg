SPECIFICATION FairSpec
CONSTANTS
  PeerFrames <- OneMessage
  MaxFrames = 1
  BufferSize = 2
  MaxPayloadSize = 4
  Extensions = TRUE
  InflateResults = {"inflated", "failed"}
  ReallocMayFail = FALSE
INVARIANTS BufferIsOfThisMessage
CHECK_DEADLOCK FALSE
