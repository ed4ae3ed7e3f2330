CONSTANTS
  Versions = {a, b}
  Unknown = Unknown
  MaxGen = 3
  KeepGenerations = 1
  MaxFaults = 1
  MaxPowerLosses = 1
SPECIFICATION Spec
INVARIANTS CurrentRunnable StagedIsComplete ReportedStaysApplied StagedStays RetiredStaysAway
PROPERTIES CleanBootActivates FailedBootFallsBack AddMissingKeepsStaged
