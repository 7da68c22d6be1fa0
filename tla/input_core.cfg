CONSTANTS
    Letters = {"a"}
    Boundaries = {"s"}
    ActionKeys = {"e"}
    Windows = {"w"}
    None = None
    QueueSize = 6
    MaxEvents = 5
    MaxMoves = 0
    MaxFailures = 0
    RuleEditor = FALSE
    MayStop = FALSE
SPECIFICATION Spec
CHECK_DEADLOCK FALSE
INVARIANTS TypeOK DeferredKeepsHold TextInOrder NoStuckKey
