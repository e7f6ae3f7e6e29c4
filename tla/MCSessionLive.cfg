SPECIFICATION FairSpec
CONSTANTS
  Hellos <- LiveHellos
  MaxSessions = 2
  MaxToken = 2
  MaxCode = 2
  MaxRestarts = 1
  LivenessTimeout = 1
  HoldLimit = 2
  TakeoverTimeout = 1
  EndedReplyFor = 1
  EndedReplyGap = 1
  KeyframeGap = 1
PROPERTIES
  PairingSound
  SilentSessionEnds
  GoodbyeIsSaid
  ResumeForcesIdr
