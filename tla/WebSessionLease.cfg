SPECIFICATION FairSpec
CONSTANTS
    Leases = 1
    Callers = {c1, c2}
    Requests = {r1, r2}
    MaxTries = 2
    MaxCommands = 2
INVARIANTS
    TypeOK
    HeldIsActive
    NoCommandLost
    OneCommandPerRequest
PROPERTIES
    ReleaseSticks
    ReleaseEnds
CHECK_DEADLOCK FALSE
