CONSTANTS
  W = 3
  Starts = {5}
  NSdu = 2
  SduLen <- TwoSdus
  QueueLen = 2
  MaxGrant = 2
  LiMax = 1
  MaxRetx = 1
  PollPdu = 0
  PollPeriodicity = 2
  Discardable = {2}
  SmallGrants = TRUE
  SoNacks = TRUE
SPECIFICATION TxBoundedSpec
INVARIANTS
  TxTypeOK
  TxWindowSound
  UndeliveredSound
  NotifiedOnce
  RetxInPdu
