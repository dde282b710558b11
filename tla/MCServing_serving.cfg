CONSTANTS
    c1 = c1
    c2 = c2
    Connections = {c1, c2}
    Script <- MCScript
    Threads = 1
SPECIFICATION FairSpec
CHECK_DEADLOCK FALSE
INVARIANTS
    LostForCause
    AcceptedAreRun
    
    ShutDownDrains
PROPERTIES
    KeepsPromise
    GracefulExit
