SPECIFICATION PairSpec
CONSTANTS
  Ids = {i1, i2}
  Client = i1
  PrefixCount = 2
  NoPrefix = NoPrefix
  FileLimit = 2
  Conns = {c1, c2}
  NoConn = NoConn
  TUN_ID_MAX = 0
  MaxTunQueue = 1
  Answers = {0, 1}
  NoAnswer = NoPrefix
  MaxStream = 1
  MaxTun = 1
INVARIANTS PairTypeOK AddressIsServers NothingMistaken
PROPERTIES SendReturns ClientComesBack
