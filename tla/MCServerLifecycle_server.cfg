SPECIFICATION FairSpec
CONSTANTS
  Nobody = Nobody
  Loops = {l1, l2}
  Conns = {c1}
  Shutdowns = {s1}
  Setters = {k1}
CHECK_DEADLOCK FALSE
 
INVARIANT Drained
INVARIANT KeepAliveSwept
PROPERTY ConnStateLaw
PROPERTY ShutdownReturns
