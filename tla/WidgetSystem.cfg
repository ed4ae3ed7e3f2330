SPECIFICATION Spec
CONSTANTS Instances = {"clock"}
 b1 = b1
 b2 = b2
 Builds = {b1, b2}
 Pids = {101}
 Callers = {"reload", "life", "edit", "view", "down"}
 BackoffInitial = 1
 BackoffMax = 1
 MaxInternal = 1
 MaxRunning = 1
 MaxRequests = 3
 MaxFaults = 1
SYMMETRY BuildSymmetry
INVARIANTS NoStray AcceptsShown DarkUnlessRunning Served
PROPERTIES StartsAccepted
\* The system stops when the bounded requests are served.
CHECK_DEADLOCK FALSE
