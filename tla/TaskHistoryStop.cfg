SPECIFICATION Spec
CONSTANTS
    ActiveMax = 2
    FinishedMax = 1
    CheckpointEvery = 2
    Tries = 3
    PostSaves = FALSE
    StopModes = {"after_current", "immediate"}
    MayCrash = FALSE
    MaxLines = 5
    MaxFaults = 0
INVARIANTS
    StopReplyKeepsLines
CHECK_DEADLOCK FALSE
