SPECIFICATION Spec
CONSTANTS
  Setups <- WeldAndTestSetups
  TimeMax = 1
  SqueezeTime = 0
  HoldTime = 0
  PressureDelay = 0
  WeldSeekTime = 0
  CalibrateDelay = 1
  BeepDelay = 0
  PollPeriod = 1
  PressureFaults = TRUE
  DebounceTime = 2
  StartSwitchTime = 0
  HornMoveTimeout = 1
  CheckPeriod = 1
  MinMoveChecks = 0
  Overrun = FALSE
PROPERTIES
  WeldNotStopped
