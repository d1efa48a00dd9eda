CONSTANTS
  W = 4
  Starts = {7}
  NSdu = 1
  SduLen <- OneSdu
  QueueLen = 2
  MaxGrant = 2
  LiMax = 1
  MaxRetx = 1
  PollPdu = 1
  PollPeriodicity = 2
  Discardable = {}
  SmallGrants = FALSE
  SoNacks = FALSE
  StatusProhibit = FALSE
  Payloads = {}
  Segments = {}
  MaxDelivered = 3
  MaxInFlight = 2
  MaxOvertaken = 1
  MaxLoss = 1
SPECIFICATION LinkBoundedSpec
INVARIANTS
  NotifiedReceived
  WindowsAgree
  NoProtocolFailure
PROPERTIES
  ServiceImplemented
