CONSTANTS
    Inodes = {i, j, k}
    None = None
    Rotations = 2
    Chunk = 2
    Budget = 2
    Capacity = 1
    IncludeExisting = {TRUE, FALSE}
    Copying = {TRUE, FALSE}
    MaxLines = 3
    MaxRotations = 2
    MaxFaults = 1
SPECIFICATION Spec
INVARIANTS TypeOK QueuedInOrder OldLinesStay NoneSkipped
PROPERTY EveryLineQueued
