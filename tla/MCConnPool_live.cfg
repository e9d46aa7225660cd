SPECIFICATION FairSpec
CONSTANTS
  w1 = w1
  w2 = w2
  w3 = w3
  k1 = k1
  k2 = k2
  NoConn = NoConn
  Wants = {w1, w2, w3}
  Keys = {k1}
  KeyOf <- OneHost
  Cancellable = {}
  DisableKeepAlives = TRUE
  MaxIdleConns = 0
  MaxIdleConnsPerHost = 1
  MaxConnsPerHost = 1
  IdleConnTimeout = FALSE
PROPERTY GetConnReturns
