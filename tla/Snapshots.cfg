SPECIFICATION Spec
CONSTANTS
    Parts = {p1, p2}
    Workers = {w1, w2}
    Keep = 2
    Cap = 3
    MaxMade = 4
    MaxEdits = 1
    MaxCrashes = 1
SYMMETRY Symmetric
CHECK_DEADLOCK FALSE
INVARIANTS TypeOK OverwritesAreSaved
PROPERTY VersionsKept
