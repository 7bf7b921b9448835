SPECIFICATION Spec
CONSTANTS
  Units <- MCAlwaysUnits
  MaxLaunch = 2
  RegistryFails = FALSE
CHECK_DEADLOCK FALSE
INVARIANT
  StopLeavesNoMain
