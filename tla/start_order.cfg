SPECIFICATION FairSpec
CONSTANTS
  Units = {"A", "B"}
  Configs <- MCConfigs
  MaxPolls = 2
  MaxBoot <- MCMaxBoot
  Failing <- MCFailing
  Controlled <- MCControlledUnits
CHECK_DEADLOCK FALSE
INVARIANTS
  TypeOK
  MutualAfterExcludes
  IInv
PROPERTIES
  WaitKeepsOrder
  WaitsEnd
