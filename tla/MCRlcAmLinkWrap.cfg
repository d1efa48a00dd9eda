CONSTANTS
  W = 2
  Starts = {3}
  NSdu = 3
  SduLen <- ThreeShort
  QueueLen = 2
  MaxGrant = 1
  LiMax = 1
  MaxRetx = 2
  PollPdu = 0
  PollPeriodicity = 2
  Discardable = {1}
  SmallGrants = TRUE
  SoNacks = FALSE
  StatusProhibit = FALSE
  Payloads = {}
  Segments = {}
  MaxDelivered = 3
  MaxInFlight = 2
  MaxOvertaken = 0
  MaxLoss = 2
SPECIFICATION LinkBoundedSpec
INVARIANTS
  NotifiedReceived
  WindowsAgree
  NoProtocolFailure
PROPERTIES
  NonEmptyServiceImplemented
CHECK_DEADLOCK FALSE
