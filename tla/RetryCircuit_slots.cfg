CONSTANTS
    r1 = r1  r2 = r2
    c1 = c1  c2 = c2  p1 = p1  p2 = p2
    None = None
    Runs = {r1, r2}
    Commands = {c1}
    Progresses = {p1}
    Windows = {2}
    Lengths = {2}
    Leases = {2}
    Backend = "sqlite"
    MaxAttempts = 3
    MaxRecoveries = 2
    MaxAbandoned = 2
    MaxSlots = 3
    MaxRevision = 6
    MaxTime = 3
SPECIFICATION Spec
CHECK_DEADLOCK FALSE
SYMMETRY Interchangeable
INVARIANT SlotsCoverChildren
