SPECIFICATION Spec
CONSTANTS
  Hellos <- TakeoverHellos
  MaxSessions = 3
  MaxToken = 1
  MaxCode = 1
  MaxRestarts = 1
  LivenessTimeout = 2
  HoldLimit = 3
  TakeoverTimeout = 1
  EndedReplyFor = 2
  EndedReplyGap = 1
  KeyframeGap = 0
INVARIANTS
  TargetFollowsSession
  HeldInputHasOwner
  LiveLeftAlone
  EndsReported
PROPERTIES
  KeepsSlot
