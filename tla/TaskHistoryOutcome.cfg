SPECIFICATION Spec
CONSTANTS
    ActiveMax = 2
    FinishedMax = 1
    CheckpointEvery = 1
    Tries = 3
    PostSaves = TRUE
    StopModes = {"after_current", "immediate"}
    MayCrash = FALSE
    MaxLines = 1
    MaxFaults = 1
INVARIANTS
    OutcomeStands
CHECK_DEADLOCK FALSE
