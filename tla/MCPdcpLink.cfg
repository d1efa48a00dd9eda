CONSTANTS
  H = 2
  Bearers = {"srb", "um", "am"}
  BitsPerByte = 2
  QueueLen = 1
  PdcpStarts = {3}
  NSdu = 5
  MaxInFlight = 1
  MaxSpan = 2
  MaxDrops = 1
  MaxMoves = 1
  SplitMoves = FALSE
SPECIFICATION PdcpLinkLiveSpec
INVARIANTS
  PdcpTypeOK
  CountsAgree
  OnlyDuplicatesRefused
  FmsIsFirst
  RxCountsSound
PROPERTIES
  PdcpServiceImplemented
  NoneLingers
CHECK_DEADLOCK FALSE
