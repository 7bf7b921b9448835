SPECIFICATION Spec
CONSTANTS
  Units <- MCRestartUnits
  MaxLaunch = 2
  RegistryFails = FALSE
CHECK_DEADLOCK FALSE
INVARIANTS
  LiveMainIsNamed
  MainIsRegistered
PROPERTY
  KeepsRestartPolicy
