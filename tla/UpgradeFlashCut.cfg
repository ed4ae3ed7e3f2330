CONSTANTS
  Clients = {"manual"}
  MaxRuns = 2
  MaxOffers = 2
  MaxAttempts = 1
  MaxChan = 1
  MaxFaults = 0
  MaxRestarts = 0
SPECIFICATION Spec
INVARIANT FlashIsNotCutShort
