SPECIFICATION Spec
CONSTANTS
  Requests <- MCRequests
  Headers <- MCHeaders
  Codes = {100, 204}
  MaxWrite = 3
  MaxWrites = 3
  BufSize = 1
  MaxPost = 2
INVARIANTS ReuseInSync NothingLost CloseAnnounced
CHECK_DEADLOCK FALSE
