SPECIFICATION FairSpec
CONSTANTS
  Units <- MCOnceUnits
  MaxLaunch = 2
  RegistryFails = TRUE
CHECK_DEADLOCK FALSE
INVARIANTS
  TypeOK
  NoRestartLaunchesOnce
  QuietStopKillsMain
  IInv
PROPERTIES
  QuietStopEnds
  FinishedUnitLeaves
