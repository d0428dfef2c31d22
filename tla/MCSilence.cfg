\* A printer that falls silent during a session.
SPECIFICATION FairRunLoop
CONSTANTS
  c1 = c1
  c2 = c2
  NoConn = NoConn
  Conns = {c1, c2}
  MaxInbox = 1
  MaxAttempt = 0
  MayHang = TRUE
PROPERTY SilenceIsNoticed
