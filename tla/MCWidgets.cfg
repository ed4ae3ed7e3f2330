SPECIFICATION FairSpec
CONSTANTS Instances = {"clock"}
 Builds = {1, 2}
 Pids = {101}
 Callers = {"edit", "view"}
 BackoffInitial = 1
 BackoffMax = 2
 MaxInternal = 2
 MaxPermit = 3
INVARIANTS TypeOK QuietUnlessRunning JoinedIsGone
PROPERTIES RungIsKept RestartWaits KeepsPromise
