SPECIFICATION FairSpec
CONSTANTS
  Releases <- MCReleases
  Size <- MCSize
  Nothing = "nothing"
  RetryDelays = 1
  MaxRetries = 2
  MaxRuns = 2
  MaxPublishes = 1
  MaxCrashes = 1
INVARIANTS FinalIsWhole LeftoversDoNoHarm
PROPERTIES BlipsKeepThePartial DownloadEnds
\* The runs are bounded.
CHECK_DEADLOCK FALSE
