CONSTANTS
    d1 = d1
    d2 = d2
    dBad = dBad
    k1 = k1
    k2 = k2
    k3 = k3
    Void = Void
    Absent = Void
    Malformed = dBad
    Ids = {1, 2, 3, 4, 5}
    Outcomes <- MCOutcomes
    Types = {"DAILY", "WEEKLY"}
    Severities = {"HIGH", "CRITICAL"}
    Gets <- MCGets
    Listings <- MCListings
    DefaultLimit = 1
    MaxLimit = 2
SPECIFICATION FairSpec
CHECK_DEADLOCK FALSE
INVARIANTS
    BreakdownAddsUp
    ListedOnce
    NothingMissed
PROPERTIES
    MoreMeansMore
    ListingEnds
