CONSTANTS
    Periods <- MCPeriods
    Windows <- MCWindows
    MaxLog = 4
SPECIFICATION Spec
CHECK_DEADLOCK FALSE
INVARIANTS
    SpansAreUnbroken
    NoFortnightMissed
    WindowNeverInvents
PROPERTIES
    ExcessStays
