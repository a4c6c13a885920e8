\* More assignments than fit in the buffer that the file is read into.
SPECIFICATION Spec
CONSTANTS
  Ids = {i1, i2}
  PrefixCount = 2
  NoPrefix = NoPrefix
  FileLimit = 1
  Conns = {c1}
  NoConn = NoConn
  TUN_ID_MAX = 0
  MaxTunQueue = 1
PROPERTIES SamePrefixAgain
