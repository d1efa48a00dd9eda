CONSTANTS
  W = 3
  Starts = {5}
  StatusProhibit = TRUE
  MaxDelivered = 2
  Payloads <- OneCell
  Segments <- Halves
SPECIFICATION RxSpec
INVARIANTS
  RxTypeOK
  VrOrder
  ReorderingSound
  StatusSound
  GapHasTimer
