CONSTANTS
    orders = orders
    account = account
    Subs <- MCSubs
    MaxDials = 3
    MaxAttempts = 2
    Prompt = TRUE
    QuietStop = TRUE
SPECIFICATION Spec
INVARIANTS
    OneReconnectLoop
    ReadyIsSubscribed
PROPERTIES
    OnlyALateOpenerStrays
    FollowsDiagram
    RecoveryTerminates
    StopTerminates
CHECK_DEADLOCK FALSE
