SPECIFICATION FairSpec
CONSTANTS
  s1 = s1
  s2 = s2
  s3 = s3
  SyncWorkers = {s1, s2, s3}
  Works = {1, 2}
  Streams <- TwoWorks
  Headers <- ShortFrames
  Sf = 9
  Ldro = 0
  MAX_COMBINED_RRH = 20
  Assumed = {"wait", "first"}
  Chunks = {5}
  MaxSymbols = 13
  QueueLimit = 2
INVARIANTS
  TypeOK
  StreamsInStep
  FrameEnds
  ClockRunsForStreams
PROPERTIES
  FramesInOrder
  WorksFinish
