CONSTANTS
    MaxOrders = 3
    Originals = 1
    Size = 2
    Overlapping = FALSE
SPECIFICATION Spec
INVARIANTS
    OneForOne
    FillBeforeReplacement
    OutcomesAreTrue
