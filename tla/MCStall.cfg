SPECIFICATION LaneFairSpec
CONSTANTS
  Encoder = Encoder
  Audio = Audio
  Callers <- BothCallers
  MaxCalls = 4
  MaxAbandoned = 1
INVARIANTS
  ResultsSound
  LaneSound
PROPERTIES
  CallsEnd
CHECK_DEADLOCK FALSE
