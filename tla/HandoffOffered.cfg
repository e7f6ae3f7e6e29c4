SPECIFICATION Spec
CONSTANTS
  MaxProcs = 2
  MaxRelease = 2
PROPERTIES
  OfferedHandsOver
CHECK_DEADLOCK FALSE
