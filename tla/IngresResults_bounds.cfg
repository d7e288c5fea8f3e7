SPECIFICATION Spec
CONSTANTS
    INITIAL_ROWS = 10
    ROW_FACTOR = 4
    NumFields = 2
    ColKind <- KindsPlain
    Nullable = {}
    DsLength = 2
    SegCap = 2
    NullLens = {0, 1}
    MaxRows = 40
    MaxSegments = 3
    Faults = {}
INVARIANT
    GrowsAsNecessary
