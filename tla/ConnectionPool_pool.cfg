CONSTANTS
    Clients = {loop, task1, task2}
    Checkers = {task1}
    Conns = {x1, x2, x3}
    MinSize = 1
    MaxSize = 2
    Gone = Gone
SPECIFICATION FairSpec
CHECK_DEADLOCK FALSE
INVARIANTS
    CountIsTrue
    NoneLostNoneShared
    NoIdleWhileWaiting
    FailsOnce
    OneGrower
PROPERTIES
    KeepsPromise
    Recovers
