CONSTANTS
    Kinds = {"public", "private"}
    MaxDials = 2
    MaxAttempts = 2
SPECIFICATION FairSpec
INVARIANTS
    ConnectedIsRead
PROPERTIES
    LossIsNoticed
    RecoveryEnds
    DisconnectReturns
CHECK_DEADLOCK FALSE
