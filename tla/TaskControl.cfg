SPECIFICATION FairSpec
CONSTANTS
    Workers = {w1, w2}
    MaxAttempts = 2
    MaxChallenges = 2
    MaxSkips = 1
    MaxActions = 1
INVARIANTS
    TypeOK
    AttemptBooks
    PendingChallengeHasWaiter
PROPERTIES
    ImplementsGate
    StopDrains
    WaitsEnd
    GracefulStopInterruptsNobody
