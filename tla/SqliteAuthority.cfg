CONSTANTS
    None = None
    Writers = {a, b}
    Tasks = {t1, t2}
    Entries = {n1, n2}
    MaxRevision = 4
    MaxCrashes = 2
    TableRevision = 3
SPECIFICATION SqliteSpec
CHECK_DEADLOCK FALSE
INVARIANT ViewsCurrent
PROPERTY TablesLinearized
