\* The application of ExtAddrTestP.nc: it sends its buffer on every tick.
SPECIFICATION FairSpec
CONSTANTS
  Messages = {m1}
  NoMessage = NoMessage
  SeqMod = 256
  FirstSeq = 8
  TxResults = {"WRITTEN", "ACK_TIMEOUT"}
  MaxRetries = 2
  ReuseMetadata = FALSE
  ResendBusy = TRUE
  CancelTwice = FALSE
  MaxInFlight = 1
INVARIANTS OneNumberPerSend
