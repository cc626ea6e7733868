SPECIFICATION Spec
CONSTANTS
    Domains = 3
    Slots = 2
    Count = 1
    Codes = {"network"}
    RetryLimit = 1
    Circuit = 2
    MayRestart = TRUE
    MaxFaults = 1
INVARIANTS
    TypeOK
    SlotsRespected
    NoReplay
    OverIsSettled
    NothingStranded
PROPERTIES
    OutcomeFinal
CHECK_DEADLOCK FALSE
