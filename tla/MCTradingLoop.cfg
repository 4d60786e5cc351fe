SPECIFICATION FairSpec
CONSTANTS
    Profiles <- MCProfiles
    Size = 1
    Points = 2
    MaxOrders = 3
    MaxLots = 2
    MaxReports = 2
INVARIANTS
    PositionIsHeld
    CleanStart
PROPERTIES
    ManualOrdersKept
    PositionsEnd
CHECK_DEADLOCK FALSE
