SPECIFICATION Spec
CONSTANTS
  NEW_FRAME_MIN_DELAY = 3
  FRAME_DETECT_TIME_OUT = 4
  SYMB_PRETRIGGER = 1
  RESYNC_PERIOD = 3
  LocalOffsets <- SampleOffsets
  InputItems = {0, 1}
  MinWindow = 2
  MaxWindow = 3
  StartTime = 1
  MaxTime = 7
  MaxLost = 1
  MaxQueue = 2
CHECK_DEADLOCK FALSE
INVARIANTS
  StampsLate
  FrameKept
