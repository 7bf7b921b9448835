SPECIFICATION Spec
CONSTANTS
  a = a
  b = b
  c = c
  Names = {a, b, c}
  Order <- MCOrder3
  Editions <- MCChains
  NoFile = NoFile
  NoUnit = NoUnit
  Commands = {"enable", "disable", "start", "stop", "restart", "kill", "unmask"}
  Interrupts = TRUE
  MaxDepth = 4
INVARIANTS
  RegisteredAsActive
  CompleteInv
PROPERTY
  EnableKeepsComplete
