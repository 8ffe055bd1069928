SPECIFICATION Spec
CONSTANTS
    t1 = t1
    t2 = t2
    t3 = t3
    t4 = t4
    t5 = t5
    o1 = o1
    o2 = o2
    b1 = b1
    wt1 = wt1
    w1 = w1
    Tasks = {t1, t2, t3, t4, t5}
    Owners = {o1, o2}
    Workers = {}
    Branches = {b1}
    Worktrees = {wt1}
    Leases = {1}
    ReleaseStatuses = {"done", "cancelled"}
    DependsOn <- BoardDependsOn
    ParentOf <- BoardParentOf
    SupersededBy <- BoardSuccessor
    InitialStatus <- BoardStatus
    InitialBranch <- NoneEach
    InitialWorktree <- BoardWorktree
    InitialCheckpoints <- BoardCheckpoints
    Backend = "git"
    GatedTasks = {t2}
    MaxRevision = 5
    MaxTime = 2
    MaxBoots = 0
    MaxAbandonments = 1
    None = None
SYMMETRY OwnerSymmetry
INVARIANTS ClaimsCoherent GraphHeld
CHECK_DEADLOCK FALSE
