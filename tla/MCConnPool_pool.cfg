SPECIFICATION Spec
CONSTANTS
  w1 = w1
  w2 = w2
  w3 = w3
  k1 = k1
  k2 = k2
  NoConn = NoConn
  Wants = {w1, w2, w3}
  Keys = {k1, k2}
  KeyOf <- TwoHosts
  Cancellable = {w1}
  DisableKeepAlives = FALSE
  MaxIdleConns = 1
  MaxIdleConnsPerHost = 0
  MaxConnsPerHost = 1
  IdleConnTimeout = TRUE
INVARIANTS
  PoolInv
  ExclusiveUse
  NoPoolPanic
  RightHost
  PoolLimits
