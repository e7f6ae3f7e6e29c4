SPECIFICATION FairSpec
CONSTANTS
  INPUT_STALE = 1
  STUCK_TRIAL = 1
  RETRY_INTERVAL = 1
  QUEUE_LIMIT = 2
  MaxQueue = 3
  MaxWaiting = 4
  MaxRuns = 2
INVARIANTS
  HeldForStroke
  MouseSound
PROPERTIES LetGo
CHECK_DEADLOCK FALSE
