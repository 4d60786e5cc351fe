CONSTANTS
    b1 = b1
    b2 = b2
    s1 = s1
    f1 = f1
    f2 = f2
    sym = sym
    Orders <- MCOrders
    FillIds <- MCFillIds
    Symbols <- MCSymbols
    SymbolOf <- MCSymbolOf
    SideOf <- MCSideOf
    MaxQty = 2
SPECIFICATION Spec
SYMMETRY Symmetry
INVARIANTS
    EveryLotBookedOnce
    CountersMatchLedger
    PositionBounds
PROPERTY ImplementsCoverage
CHECK_DEADLOCK FALSE
