SPECIFICATION FairSpec
CONSTANTS
  NFiles = 2
  Width = 256
  Descriptors = {4, 5, 6, 7}
  Tasks = {"timer", "reconnect", "receive"}
  TcpFile = 1
  OtherFd = 3
  NoSock = NoSock
  Resets = TRUE
  ConnectAtOnce = FALSE
  MaxFailures = 2
  MaxLosses = 2
INVARIANTS TypeOK WatchesItsSocket WaitsWithoutSocket ClosedStaysClosed LeaksAreLosses NothingOverwritten
PROPERTIES ReconnectsUnlessAsleep
CHECK_DEADLOCK FALSE
