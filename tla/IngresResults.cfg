SPECIFICATION FairSpec
CONSTANTS
    INITIAL_ROWS = 1
    ROW_FACTOR = 3
    NumFields = 3
    ColKind <- KindsMixed
    Nullable = {1, 2, 3}
    DsLength = 2
    SegCap = 2
    NullLens = {0, 1}
    MaxRows = 3
    MaxSegments = 3
    Faults = {"nomem", "server", "convert"}
INVARIANTS
    TypeOK
    BlobInBounds
    SmallResultInBounds
    RowsFaithful
    BlocksOwned
    PublishedRows
    CompleteOnSuccess
    StatementClosedOnce
PROPERTY
    FetchTerminates
