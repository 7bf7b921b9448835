SPECIFICATION FairSpec
CONSTANTS
  Files <- MCInactive
  Second = 3
  DWord = 16
  DefaultAccuracy = 5
  MaxRetries = 1
  MaxTime = 32
CHECK_DEADLOCK FALSE
PROPERTY TimerRecurs
