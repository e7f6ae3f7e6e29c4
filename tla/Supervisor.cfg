SPECIFICATION FairSpec
CONSTANTS
  MaxGenerations = 6
  MaxMoves = 2
  StormLimit = 1
INVARIANTS
  NoRevival
PROPERTIES
  RestartsEarned
  ToldEnds
  WatchedCrashNoticed
  WaitsEnd
CHECK_DEADLOCK FALSE
