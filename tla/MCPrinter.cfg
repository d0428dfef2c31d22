\* A camera that is silent for ever really stops the printer: no deadlock check.
SPECIFICATION PrinterSpec
CONSTANTS
  c1 = c1
  slack = slack
  NoConn = NoConn
  Conns = {c1}
  MaxInbox = 1
  MaxAttempt = 3
  MayHang = TRUE
  Bases <- MCBases
  Cap = 10
  MaxDuration = 20
  MaxFactor = 8
  Notifiers = {slack}
  Service <- MCService
  Allowed <- MCAllowed
  Cameras <- MCCameras
  Batches <- MCBatches
  Sizes = {2}
  URLs = {}
CHECK_DEADLOCK FALSE
INVARIANT PrinterTypeOK
INVARIANT WaitsInRangeUntilOverflow
INVARIANT NothingSentAfterStop
PROPERTY WaitsGrowUntilOverflow
PROPERTY StopReturnsUnlessStuck
PROPERTY LostSessionsReconnect
PROPERTY SocketsGetClosed
