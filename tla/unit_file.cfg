SPECIFICATION Spec
CONSTANTS
  Files <- MCFiles
  MaxInt = 200000
CHECK_DEADLOCK FALSE
INVARIANTS
  IInv
  ListsInOrder
  SpanIsSum
  TimesAgree
  TypesAgree
PROPERTIES
  ReadEnds
