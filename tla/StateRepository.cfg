CONSTANTS
    a = a  b = b  c = c  d = d  e = e  None = None
    Scanners = {a, b, c}
    MaxWorld = 3
    MaxTicket = 5
    Replicas = {a, b, c}
    MaxCommits = 3
    Procs = {a, b, c}
    MaxBoard = 1
    MaxPosts = 3
    Operators = {d, e}
    MaxHistory = 3
    MaxOps = 2
    MaxRevision = 6
SPECIFICATION MCSpec
SYMMETRY Interchangeable
CHECK_DEADLOCK FALSE
INVARIANTS NotOvertaken VerdictHolds SeriesSound RollbackSound
PROPERTIES HistoriesKept
