SPECIFICATION Spec
CONSTANTS
  FrameSizes = {1, 2}
  FrameLimit = 2
  ByteLimit = 3
  MaxPendingFrames = 3
  MaxPendingBytes = 5
  FramePeriod = 2
  RetryAfter = 1
  Window = 1
  MaxHold = 3
  MaxHoldRetry = 2
  MaxStallAllowance = 1
  StaleFrame = 1
  MaxSeq = 3
  MaxLater = 1
  MaxMedia = 2
  MaxNacks = 1
  MaxEpoch = 2
  MaxStragglers = 1
INVARIANTS
  StorageSound
  LossIsAsked
PROPERTIES
  GivenInOrder
  HoldsEnd
