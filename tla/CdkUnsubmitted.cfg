SPECIFICATION Spec
CONSTANTS
    Accounts = {p1, p2}
    Cards = {g1}
    Target = 0
    FailureContinue = TRUE
    MaxRequests = 0
INVARIANTS
    UnsubmittedHasNoOrder
CHECK_DEADLOCK FALSE
