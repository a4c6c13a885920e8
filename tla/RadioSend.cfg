SPECIFICATION FairSpec
CONSTANTS
  Messages = {m1, m2}
  NoMessage = NoMessage
  SeqMod = 2
  FirstSeq = 1
  TxResults = {"WRITTEN", "ACK_TIMEOUT"}
  MaxRetries = 3
  ReuseMetadata = FALSE
  ResendBusy = FALSE
  CancelTwice = FALSE
  MaxInFlight = 1
INVARIANTS TypeOK OneInFlight SuccessMeansAcked FailMeansExhausted AttemptBound OneNumberPerSend
PROPERTIES NoRetryAfterAck AckWrittenOnlyWhileOwned ContractKept
