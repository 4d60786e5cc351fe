CONSTANTS
    GridCount = 2
    Spacing = 2
    FirstLower = 3
    FirstPrice = 5
    Prices = {1, 5, 20}
    DriftStep = 3
    Zone = 1
    MaxDrifts = 2
    MaxPosition = 2
    MaxRetries = 2
    Fee = 1
    MinTick = 1
    MaxOrders = 4
SPECIFICATION FairSpec
INVARIANTS
    LevelsMatchRange
    FlagsHaveOrders
    StoppedIsQuiet
PROPERTIES
    KeptOrdersStay
    RangeFollows
CHECK_DEADLOCK FALSE
