SPECIFICATION FairSpec
CONSTANTS
  Bodies <- Pipeline
  BufCap = 3
INVARIANTS ReaderInv CancelMeansGone
PROPERTIES AbortEnds ImplementsStream
CHECK_DEADLOCK FALSE
