\* A printer that falls silent: does Stop return?
SPECIFICATION FairRunLoop
CONSTANTS
  c1 = c1
  c2 = c2
  NoConn = NoConn
  Conns = {c1, c2}
  MaxInbox = 1
  MaxAttempt = 0
  MayHang = TRUE
PROPERTY StopReturnsAtLast
