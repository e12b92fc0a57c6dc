SPECIFICATION Spec
CONSTANTS
    Extractor = extractor
    Editors = {editor}
    Keys = {k1, k2}
    Values = {v1, v2}
    Levels = {1, 2}
    MaxOps = 4
    MaxFaults = 1
    None = None
SYMMETRY Symmetry
INVARIANTS
    TrailReplays
    TableTold
CHECK_DEADLOCK FALSE
