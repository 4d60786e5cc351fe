SPECIFICATION Spec
CONSTANTS
    Profiles <- MCReconcileOnly
    Size = 1
    Points = 2
    MaxOrders = 3
    MaxLots = 2
    MaxReports = 1
PROPERTIES
    ReconcileOnlyIsPassive
CHECK_DEADLOCK FALSE
