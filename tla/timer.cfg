SPECIFICATION FairSpec
CONSTANTS
  Files <- MCFiles
  Second = 3
  DWord = 16
  DefaultAccuracy = 5
  MaxRetries = 1
  MaxTime = 32
CHECK_DEADLOCK FALSE
INVARIANTS
  TypeOK
  NeverEarly
  NeverLate
  OneShotStartsOnce
  IInv
PROPERTIES
  ActiveTimerRecurs
