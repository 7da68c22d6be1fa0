CONSTANTS
    Letters = {"a"}
    Boundaries = {"s"}
    ActionKeys = {"e"}
    Windows = {v, w}
    None = None
    QueueSize = 4
    MaxEvents = 4
    MaxMoves = 1
    MaxFailures = 0
    RuleEditor = TRUE
    MayStop = FALSE
SPECIFICATION Spec
CHECK_DEADLOCK FALSE
PROPERTIES ErasesOnlyItsWord ActionWhereTyped
SYMMETRY WindowSymmetry
