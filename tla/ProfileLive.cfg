CONSTANTS
  Versions = {a}
  Unknown = Unknown
  MaxGen = 2
  KeepGenerations = 1
  MaxFaults = 1
  MaxPowerLosses = 1
SPECIFICATION FairSpec
PROPERTY OperationsEnd
