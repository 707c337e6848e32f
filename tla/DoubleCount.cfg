SPECIFICATION Spec
CONSTANTS
  r1 = r1
  r2 = r2
  c1 = c1
  c2 = c2
  Rrhs = {r1, r2}
  Channels = {c1}
  Detections <- FrameTwice
  Buffers = {0, 1}
  SyncWorkers = {0, 1}
  DemodWorkers = {0, 1}
  Times = {0}
  WORK_ID_RANGE = 4
  MAX_DELAY_TO_COMBINE = 1
  WORKER_MARGIN = 1
  MIN_NUMBER_OF_WORKERS = 1
  Sfs = {7}
  NEW_FRAME_MIN_DELAY <- MinDelay
  FRAME_DETECT_TIME_OUT = 3
CHECK_DEADLOCK FALSE
INVARIANT SyncCountIsExact
