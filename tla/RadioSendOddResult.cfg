\* The driver may also refuse a packet's length, or answer something unforeseen.
SPECIFICATION FairSpec
CONSTANTS
  Messages = {m1}
  NoMessage = NoMessage
  SeqMod = 2
  FirstSeq = 0
  TxResults = {"WRITTEN", "ACK_TIMEOUT", "LENGTH"}
  MaxRetries = 2
  ReuseMetadata = FALSE
  ResendBusy = FALSE
  CancelTwice = FALSE
  MaxInFlight = 1
INVARIANTS SuccessMeansAcked
