SPECIFICATION Spec
CONSTANTS
  Streams = {0, 1, 3}
  Fragments <- SmallFragments
  MaxFields = 3
  MaxFrames = 6
INVARIANT ContinuationGuaranteed
CHECK_DEADLOCK FALSE
