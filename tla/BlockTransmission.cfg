SPECIFICATION Spec
CONSTANTS
  Sf = 7
  Kinds <- SampleKinds
  Blocks <- SampleBlocks
  Shifts <- SampleShifts
  Reliability = 2
  Trust = {1, 3}
  MaxDisturbed = 1
CHECK_DEADLOCK FALSE
INVARIANTS
  OneSymbolCorrected
  OneSymbolOutvoted
  ShiftCostsOneBit
