CONSTANTS
    Fragments = {f1, f2}
    None = None
    SendLimit = 1
    DeleteBatch = 2
    MaxFaults = 1
    MaxMeddling = 1
    MaxResets = 1
SPECIFICATION Spec
SYMMETRY FragmentSymmetry
INVARIANTS TypeOK ListedOnce ClearingTellsApart
PROPERTIES KeepsPromise PinContinuesChain
