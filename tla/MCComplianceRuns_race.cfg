CONSTANTS
    d1 = d1
    dX = dX
    k1 = k1
    k2 = k2
    k3 = k3
    Drivers <- MCDrivers
    Possible <- MCPossible
    Calls <- MCCalls
    Tasks = {t1, t2}
    PoolSize = 2
    SeverityCast = TRUE
SPECIFICATION Spec
CHECK_DEADLOCK FALSE
PROPERTIES
    DeletedAreRecomputed
