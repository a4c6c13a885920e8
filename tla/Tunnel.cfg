SPECIFICATION FairSpec
CONSTANTS
  Ids = {i1, i2, i3}
  PrefixCount = 2
  NoPrefix = NoPrefix
  FileLimit = 2
  Conns = {c1, c2}
  NoConn = NoConn
  TUN_ID_MAX = 1
  MaxTunQueue = 1
INVARIANTS TypeOK OneSessionPerClient DeviceWithinSession OneDevicePerPrefix PrefixesDistinct
PROPERTIES SamePrefixAgain ShutdownCompletes ServiceKept
