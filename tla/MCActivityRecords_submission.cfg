CONSTANTS
    d1 = d1
    dX = dX
    v1 = v1
    vX = vX
    k1 = k1
    k2 = k2
    k3 = k3
    kLong = kLong
    Void = Void
    Absent = Void
    DriverIds <- MCDriverIds
    Drivers <- MCDrivers
    VehicleIds <- MCVehicleIds
    Vehicles <- MCVehicles
    TypeNames <- MCTypeNames
    ActivityTypes <- MCActivityTypes
    References <- MCReferences
    Sources <- MCSources
    Requests <- MCRequests
    Workers = {w1, w2}
    MaxAttempts = 3
SPECIFICATION FairSpec
CHECK_DEADLOCK FALSE
INVARIANTS
    TypeOK
    NoOverlap
    OneRecordPerSource
    AnswersTrue
    RetryRecognised
    NeverStuck
PROPERTIES
    ImplementsLedger
    EventuallyAnswered
