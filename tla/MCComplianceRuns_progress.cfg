CONSTANTS
    d1 = d1
    dX = dX
    k1 = k1
    k2 = k2
    k3 = k3
    Drivers <- MCDrivers
    Possible = {}
    Calls <- WaitingCalls
    Tasks = {t1, t2, t3}
    PoolSize = 1
    SeverityCast = TRUE
SPECIFICATION FairSpec
CHECK_DEADLOCK FALSE
INVARIANTS
    NeverStuck
PROPERTIES
    EventuallyOver
