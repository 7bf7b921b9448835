SPECIFICATION Spec
CONSTANTS
  a = a
  b = b
  c = c
  Names = {a, b}
  Order <- MCOrder2
  Editions <- MCUpdate
  NoFile = NoFile
  NoUnit = NoUnit
  Commands = {"enable", "disable"}
  Interrupts = FALSE
  MaxDepth = 3
PROPERTY
  EnableRegistersRequired
