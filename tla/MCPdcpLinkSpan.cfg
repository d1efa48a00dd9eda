CONSTANTS
  H = 2
  Bearers = {"srb", "um", "am"}
  BitsPerByte = 2
  QueueLen = 1
  PdcpStarts = {3}
  NSdu = 5
  MaxInFlight = 1
  MaxSpan = 3
  MaxDrops = 0
  MaxMoves = 1
  SplitMoves = FALSE
SPECIFICATION PdcpLinkSpec
INVARIANTS
  CountsAgree
CHECK_DEADLOCK FALSE
