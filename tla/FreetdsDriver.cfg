CONSTANTS
    NoDb = NoDb
    Dbs = {d1, d2}
    DefaultDb = d1
    MaxConns = 2
    MaxSets = 3
    MaxRows = 2
SPECIFICATION Spec
INVARIANTS RowsComplete ResultMeansInSync PingRecovers OneSession SelectedDbKept
