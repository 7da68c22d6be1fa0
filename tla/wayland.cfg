CONSTANTS
    Keys = {"a", "e"}
    ActionKeys = {"e"}
    None = None
    SeqModulus = 16
    MaxEvents = 4
    MaxTroubles = 1
SPECIFICATION Spec
CHECK_DEADLOCK FALSE
INVARIANTS TypeOK TextInOrder EveryPressOnce NoStuckKey NeverCaptured
PROPERTIES ErasesOnlyItsWord
CONSTRAINT Followed
