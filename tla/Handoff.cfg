SPECIFICATION FairSpec
CONSTANTS
  MaxProcs = 3
  MaxRelease = 1
INVARIANTS
  OneHost
  GateKeeps
PROPERTIES
  Reopens
  RestartSaid
CHECK_DEADLOCK FALSE
