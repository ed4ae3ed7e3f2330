CONSTANTS
  Clients = {"manual", "auto"}
  MaxRuns = 2
  MaxOffers = 1
  MaxAttempts = 2
  MaxChan = 1
  MaxFaults = 0
  MaxRestarts = 0
SPECIFICATION Spec
INVARIANTS OffersPredateNoRun
