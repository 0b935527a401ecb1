SPECIFICATION Spec
CONSTANTS
  Commands <- MCCommands
  ControlBits <- MCControlBits
  AuxMotions <- MCMotions
  PressureFaults = TRUE
  DebounceTime = 1
  StartSwitchTime = 0
  HornMoveTimeout = 1
  CheckPeriod = 1
  MinMoveChecks = 1
INVARIANTS
  TypeOK
  HornDownStates
PROPERTIES
  HornLowered
  EstopFreezesHorn
  StartSwitchStatus
