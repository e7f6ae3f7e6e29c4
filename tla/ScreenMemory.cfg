SPECIFICATION FairSpec
CONSTANTS
  Fingerprints = {a, b, c}
  Cards = {{a, b}, {c}}
  MaxMoves = 4
PROPERTIES
  RecordSound
  WrittenAtQuit
  ForgottenIsCleared
CHECK_DEADLOCK FALSE
