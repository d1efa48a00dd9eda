CONSTANTS
  Timer = {t1, t2, t3}
  NoTimer = NoTimer
  WheelSize = 2
  Turns = 3
  Durations = {0, 3}
  Careless = TRUE
SPECIFICATION TimersSpec
SYMMETRY TimersSymmetry
PROPERTIES
  OnlyExpiredCalled
