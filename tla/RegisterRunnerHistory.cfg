SPECIFICATION Spec
CONSTANTS
    Target = 1
    Entry = "mailbox"
    Candidates = 0
    Configured = 2
    Concurrency = 1
    PolicyCap = 2
    Executors = {"protocol"}
    MaxFaults = 1
INVARIANTS
    SavesWithinTarget
CHECK_DEADLOCK FALSE
