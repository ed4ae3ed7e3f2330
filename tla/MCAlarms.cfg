CONSTANTS
  Alarm = {"daily", "once"}
  OneShot = {"once"}
  Saved <- MCSaved
  SnoozeLimit = 1
  MaxInputs = 4

SPECIFICATION FairSpec
CHECK_DEADLOCK FALSE
INVARIANTS WithdrawnIsSilent ScheduleMatchesConfig OneShotIsSpent
PROPERTY SnoozeReturns
