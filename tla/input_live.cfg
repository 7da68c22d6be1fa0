CONSTANTS
    Letters = {"a"}
    Boundaries = {"s"}
    ActionKeys = {"e"}
    Windows = {"w"}
    None = None
    QueueSize = 4
    MaxEvents = 3
    MaxMoves = 0
    MaxFailures = 0
    RuleEditor = FALSE
    MayStop = FALSE
SPECIFICATION FairSpec
CHECK_DEADLOCK FALSE
PROPERTIES EveryActionResolved KeyboardFreed
