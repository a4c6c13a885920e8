\* One client, one connection: a packet for the client crosses its disconnect.
SPECIFICATION SelectSpec
CONSTANTS
  Ids = {i1}
  PrefixCount = 1
  NoPrefix = NoPrefix
  FileLimit = 1
  Conns = {c1}
  NoConn = NoConn
  TUN_ID_MAX = 0
  MaxTunQueue = 1
PROPERTIES DisconnectRemovesTun
