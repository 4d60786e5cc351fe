SPECIFICATION PipelineFairSpec
CONSTANTS
    Loop = "loop"
    Others = {"a", "b"}
    MaxFills = 3
    MaxCalls = 1
    DispatcherCap = 2
    LoopCap = 1
INVARIANTS
    EveryFillOnce
PROPERTIES
    TakenIsDelivered
CHECK_DEADLOCK FALSE
