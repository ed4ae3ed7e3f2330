CONSTANTS
  Clients = {"manual", "widget"}
  MaxRuns = 3
  MaxOffers = 3
  MaxAttempts = 1
  MaxChan = 1
  MaxFaults = 1
  MaxRestarts = 1
SPECIFICATION Spec
INVARIANTS ImageHasTheMemory DownloadIsNotWasted HandoffIsOwn
PROPERTY OfferRunsOnce
