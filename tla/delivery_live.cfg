CONSTANTS
    Fragments = {f1}
    None = None
    SendLimit = 1
    DeleteBatch = 2
    MaxFaults = 2
    MaxMeddling = 1
    MaxResets = 1
SPECIFICATION FairSpec
PROPERTIES NoneForgotten ClearingEnds
