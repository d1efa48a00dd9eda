CONSTANTS
  W = 4
  Starts = {7}
  NSdu = 2
  SduLen <- TwoShort
  QueueLen = 2
  MaxGrant = 1
  LiMax = 1
  MaxRetx = 2
  PollPdu = 0
  PollPeriodicity = 8
  Discardable = {}
  SmallGrants = FALSE
  SoNacks = FALSE
  StatusProhibit = TRUE
  Payloads = {}
  Segments = {}
  MaxDelivered = 4
  MaxInFlight = 2
  MaxOvertaken = 0
  MaxLoss = 1
SPECIFICATION LinkLiveSpec
PROPERTIES
  EventuallyDelivered
