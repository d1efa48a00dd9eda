CONSTANTS
  W = 4
  Starts = {0, 7}
  NSdu = 3
  SduLen <- ThreeSdus
  QueueLen = 2
  MaxGrant = 3
  LiMax = 1
  MacReadsOn = FALSE
  MaxInFlight = 2
  MaxOvertaken = 1
  MaxLoss = 2
  MaxReestablish = 1
SPECIFICATION UmLinkLiveSpec
INVARIANTS
  UmTypeOK
  WaitingIsTimed
  IntactInOrder
PROPERTIES
  UmServiceImplemented
  WindowDrains
CHECK_DEADLOCK FALSE
