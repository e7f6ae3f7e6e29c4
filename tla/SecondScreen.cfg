SPECIFICATION FairSpec
CONSTANTS
  Gap = 1
  Grace = 1
  ProveTime = 1
  LossLimit = 0
  Saved = TRUE
  RuleNamesPC = TRUE
  MirrorRefused = FALSE
  MaxMoves = 2
  MaxQueue = 1
PROPERTIES
  DisplayKept
  UnwatchedGoesOff
  ClaimEnds
  PictureOrMirror
CHECK_DEADLOCK FALSE
