SPECIFICATION FairSpec
CONSTANT KillMayFail = TRUE
CHECK_DEADLOCK FALSE
INVARIANTS
  TypeOK
  StopIsNoFailure
  StoppedMeansKilled
  IInv
PROPERTIES
  ChildDeathSeen
  StopEnds
