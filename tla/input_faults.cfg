CONSTANTS
    Letters = {"a"}
    Boundaries = {"s"}
    ActionKeys = {"e"}
    Windows = {"w"}
    None = None
    QueueSize = 5
    MaxEvents = 4
    MaxMoves = 0
    MaxFailures = 1
    RuleEditor = FALSE
    MayStop = TRUE
SPECIFICATION Spec
CHECK_DEADLOCK FALSE
INVARIANTS NeverCaptured EveryPressOnce RestIsFree CorrectionHolds
