SPECIFICATION FairSpec
CONSTANTS
  r1 = r1
  r2 = r2
  Idle = Idle
  Out = Out
  NoOne = NoOne
  Reqs = {r1, r2}
  ResponseHeaderTimeout = TRUE
  Upgrade = TRUE
  CancelChans <- MCCancelChans
CHECK_DEADLOCK FALSE
INVARIANT ResponseMatches
INVARIANT QuietWhenParked
PROPERTY CancelErrorIsOwn
PROPERTY RoundTripReturns
PROPERTY LoopsEnd
