\* Two clients, printers that may hang; deadlock is checked.
SPECIFICATION FairRunLoop
CONSTANTS
  c1 = c1
  c2 = c2
  NoConn = NoConn
  Conns = {c1, c2}
  MaxInbox = 1
  MaxAttempt = 1
  MayHang = TRUE
INVARIANT RunLoopTypeOK
INVARIANT NoSocketLeaks
INVARIANT ClosedOnce
INVARIANT ReaderCanBeStopped
INVARIANT QuietAfterStop
PROPERTY StopReturnsUnlessHeldUp
PROPERTY InterruptEndsLoop
PROPERTY SocketsGetClosed
