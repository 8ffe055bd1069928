CONSTANTS
    None = None
    Runs = {r1, r2}
    Backend = "sqlite"
    MaxCommands = 1
    MaxSpent = 2
    MaxElapsed = 1
    Policies = {1, 2}
    Lease = 1
    MaxRevision = 9
    MaxTime = 1
    Commands = {c1, c2}
    Progresses = {p1, p2}
    Windows = {1, 2}
    Lengths = {1}
    Leases = {1}
    MaxAttempts = 2
    MaxRecoveries = 1
    MaxAbandoned = 1
    MaxSlots = 2
    CircuitBackend = "git"
    CircuitRevision = 8
    CircuitTime = 1
    Predicates = {r1, r2}
    Candidates = {k1}
    Proofs = {e1}
    Observation = o1
    Paths = {c1, c2}
    Assumptions = {a1}
    OptIns = {{"spec"}, {"drift"}, {"assumptions"}}
    MaxVersion = 2
    MaxRows = 3
    MaxSaved = 1
    MaxEdits = 4
    MaxHead = 3
    MaxDrift = 4
    MaxRecords = 3
SPECIFICATION MCSpec
SYMMETRY Interchangeable
CHECK_DEADLOCK FALSE
INVARIANTS HoldStaysDisposable BudgetKept LedgerSound CapacityReturns
PROPERTIES DoneIsEvidenced ChangesExplained
