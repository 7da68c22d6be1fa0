CONSTANTS
    Rules = {r1, r2}
    MaxFaults = 3
    Limit = 2
    MaxEntries = 4
    MaxTears = 2
SPECIFICATION Spec
CHECK_DEADLOCK FALSE
INVARIANTS TypeOK RulesKept LastAreRead
PROPERTIES BackedUpFirst
SYMMETRY RulesAlike
