SPECIFICATION FairSpec
CONSTANTS
  FrameSizes <- Sizes
  MaxBytes = 7
  SocketRoom = 2
  MaxInputs = 2
  AllocMayFail = TRUE
INVARIANTS TypeOK WireInOrder InterestMeansPending
PROPERTIES DrainsUnlessMerged
CHECK_DEADLOCK FALSE
