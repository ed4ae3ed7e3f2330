CONSTANTS
  Procs = {p1, p2}
  Tarballs = {a, b}
  None = None
  MaxPowerLosses = 1
  MaxFaults = 2
SPECIFICATION FairSpec
INVARIANTS VisibleStoreIsWhole InstalledStays
PROPERTY LockIsReleased
