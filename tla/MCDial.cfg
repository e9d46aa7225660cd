SPECIFICATION FairSpec
INVARIANTS
  OneCleanSocket
PROPERTY DialEnds
