SPECIFICATION FairSpec
CONSTANTS
  Messages = {m1, m2}
  NoMessage = NoMessage
  SeqMod = 1
  FirstSeq = 0
  TxResults = {"SUCCESS", "FAILED"}
  MaxRetries = 2
  ReuseMetadata = TRUE
  ResendBusy = TRUE
  CancelTwice = TRUE
  MaxInFlight = 2
INVARIANT AttemptBound
PROPERTIES ContractKept
