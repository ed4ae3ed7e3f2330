SPECIFICATION FairSpec
CONSTANTS Instances = {"clock", "news"}
 Builds = {1}
 Pids = {101, 102}
 Callers = {"reload", "life", "edit", "view", "down"}
 BackoffInitial = 1
 BackoffMax = 1
 MaxInternal = 1
 MaxRunning = 1
 MaxRequests = 2
 MaxFaults = 0
INVARIANTS WithinLimit
PROPERTIES OperationsEnd
\* The system stops when the bounded requests are served.
CHECK_DEADLOCK FALSE
