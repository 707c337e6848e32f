SPECIFICATION Spec
CONSTANTS
  NEW_FRAME_MIN_DELAY = 3
  FRAME_DETECT_TIME_OUT = 4
  SYMB_PRETRIGGER = 1
  RESYNC_PERIOD = 3
  LocalOffsets = {0}
  InputItems = {0}
  MinWindow = 2
  MaxWindow = 3
  StartTime = 1
  MaxTime = 8
  MaxLost = 0
  MaxQueue = 2
CHECK_DEADLOCK FALSE
INVARIANT FirstSampleTimed
