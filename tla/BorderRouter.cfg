SPECIFICATION FairSpec
CONSTANTS
  NFiles = 2
  Width = 256
  Descriptors = {4, 5}
  Tasks = {"timer", "receive", "tunReceive", "sendDone"}
  RadioFile = 0
  RadioFd = 4
  Buffers = {b1, b2}
  PipeSize = 1
  MaxPackets = 2
  TunFile = 1
  TunFd = 5
  MaxTun = 2
  MaxSends = 2
INVARIANTS TypeOK ReceivedIntact SendsAnswered
PROPERTY NothingStarves
CHECK_DEADLOCK FALSE
