CONSTANTS
  Clients = {"manual", "widget", "gc"}
  MaxRuns = 2
  MaxOffers = 2
  MaxAttempts = 1
  MaxChan = 1
  MaxFaults = 1
  MaxRestarts = 0
SPECIFICATION FairSpec
PROPERTIES GateComesBack WidgetsComeBack
