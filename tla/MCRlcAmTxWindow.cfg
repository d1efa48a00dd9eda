CONSTANTS
  W = 2
  Starts = {0}
  NSdu = 2
  SduLen <- TwoSdus
  QueueLen = 2
  MaxGrant = 2
  LiMax = 1
  MaxRetx = 1
  PollPdu = 0
  PollPeriodicity = 2
  Discardable = {}
  SmallGrants = FALSE
  SoNacks = FALSE
SPECIFICATION TxSpec
INVARIANTS
  InWindow
CHECK_DEADLOCK FALSE
