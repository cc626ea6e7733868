SPECIFICATION MCSpec
SYMMETRY Symmetry
CONSTANTS
    a1 = a1
    a2 = a2
    a3 = a3
    t1 = t1
    t2 = t2
    Attempts = {a1, a2, a3}
    Tasks = {t1, t2}
    TaskOf <- MCTaskOf
    Addresses = {"p", "q", "r"}
    Exits = {"e1", "e2"}
    ExitOf <- MCExitOf
    TTL = 3
    Interval = 1
    Cooldown = 2
    Lag = 1
    Xs = {x1, x2}
    Ys = {y1, y2}
    Keys = {"", "k"}
    Sessions = {w1}
INVARIANTS
    TypesOK
    ExitsAreExclusive
    RestIsExact
    PoorDomainsDrain
    
    OrdersWithinTarget
    OrdersAreOwn
    
    
    ChangesEnd
    RowFollowsTask
    NumbersBindOnce
    BindingsSettle
    PaymentsFollowed
PROPERTIES
    NothingGoesBack
CHECK_DEADLOCK FALSE
