CONSTANTS
    doge = doge
    wif = wif
    Symbols <- OneSymbol
    Fills <- ThreeFills
    SymbolOf <- AllDoge
    TimeOf <- MCTimeOf
    Overlap = 1
    Lateness = 1
    QueueCap = 2
    MaxFailures = 1
    MaxCrashes = 1
    MaxCalls = 1
    CarriesCumulative = TRUE
SPECIFICATION Spec
INVARIANTS
    OneCyclePerSymbol
    NoFillLeftBehind
PROPERTIES
    TriggersAreServed
CHECK_DEADLOCK FALSE
