SPECIFICATION FairSpec
CONSTANTS
  a = a
  b = b
  c = c
  Names = {a, b}
  Order <- MCOrder2
  Editions <- MCPairs
  NoFile = NoFile
  NoUnit = NoUnit
  Commands = {"enable", "disable", "start", "stop", "restart", "kill", "mask", "unmask", "reload", "daemonReload"}
  Interrupts = FALSE
  MaxDepth = 3
INVARIANTS
  TypeOK
  ReadInv
PROPERTIES
  ActiveNeverOverwritten
  DisableUnregisters
  CommandsEnd
