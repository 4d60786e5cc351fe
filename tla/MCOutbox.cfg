CONSTANTS
    b1 = b1
    f1 = f1
    sym = sym
    w1 = w1
    w2 = w2
    Orders <- MCOrders
    FillIds <- MCFillIds
    Symbols <- MCSymbols
    SymbolOf <- MCSymbolOf
    SideOf <- MCSideOf
    MaxQty = 2
    Workers <- MCWorkers
    MaxAttempts = 2
    MaxCrashes = 2
SPECIFICATION OutboxSpec
INVARIANTS
    ClosedRowsAgree
    NoRowIsStranded
PROPERTIES
    LeaseIsRespected
    IntentsStayEnded
CHECK_DEADLOCK FALSE
