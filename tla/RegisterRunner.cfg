SPECIFICATION FairSpec
CONSTANTS
    Target = 3
    Entry = "mailbox"
    Candidates = 0
    Configured = 4
    Concurrency = 2
    PolicyCap = 2
    Executors = {"protocol", "browser"}
    MaxFaults = 1
INVARIANTS
    TypeOK
    SlotsWithinTarget
    LossesAreHistoryFaults
    TerminalIsSound
PROPERTIES
    ImplementsGate
    TaskEnds
CHECK_DEADLOCK FALSE
