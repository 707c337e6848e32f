SPECIFICATION FairSpec
CONSTANTS
  Frames <- SurplusFrames
  GarbledHeaders = {}
CHECK_DEADLOCK FALSE
PROPERTY FramesReported
