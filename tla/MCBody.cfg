SPECIFICATION Spec
CONSTANTS
  Messages <- AllMessages
  Extensions = {0, 4}
  MaxRead = 2
  Limits <- AllLimits
  MaxPost = 1
  ChunkAllowance = 3
  MaxExcess = 4
INVARIANTS AtBoundary EOFMeansAll HonestAccepted OverheadBounded ReadSound
CHECK_DEADLOCK FALSE
