SPECIFICATION Spec
CONSTANTS
  s1 = s1
  s2 = s2
  s3 = s3
  SyncWorkers = {s1}
  Works = {1}
  Streams <- OneStream
  Headers <- HeaderFrames
  Sf = 9
  Ldro = 0
  MAX_COMBINED_RRH = 20
  Assumed = {"wait", "first"}
  Chunks = {3, 6}
  MaxSymbols = 13
  QueueLimit = 2
INVARIANT HeaderFrameEnds
