SPECIFICATION FairSpec
CONSTANTS
  Frames <- MixedFrames
  GarbledHeaders <- Garbled
CHECK_DEADLOCK FALSE
INVARIANT NothingLeft
PROPERTIES
  DeliversPayloads
  FramesReported
