SPECIFICATION Spec
CONSTANTS
  FLPY_SECTORS_PER_TRACK = 3
  Tracks = 2
  Tries = 2
CHECK_DEADLOCK FALSE
INVARIANTS TypeOK PhasesAgree DeviceSet RightSector NoneLeftOver
PROPERTIES AnsweredOrLost
