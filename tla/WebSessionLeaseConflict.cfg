SPECIFICATION Spec
CONSTANTS
    Leases = 2
    Callers = {c1}
    Requests = {r1}
    MaxTries = 2
    MaxCommands = 1
INVARIANTS
    ConflictMeansRunning
CHECK_DEADLOCK FALSE
