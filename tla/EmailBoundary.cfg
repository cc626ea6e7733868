SPECIFICATION Spec
CONSTANTS
    Targets = {"m1"}
    Callers = {c1}
    Threads = {h1}
    MaxRequests = 2
    MaxFaults = 1
    MaxCrashes = 0
INVARIANTS
    CanGoOn
CHECK_DEADLOCK FALSE
