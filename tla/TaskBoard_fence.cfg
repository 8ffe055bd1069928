SPECIFICATION Spec
CONSTANTS
    t1 = t1
    t2 = t2
    t3 = t3
    t4 = t4
    t5 = t5
    o1 = o1
    o2 = o2
    b1 = b1
    wt1 = wt1
    w1 = w1
    Tasks = {t1}
    Owners = {o1, o2}
    Workers = {w1}
    Branches = {b1}
    Worktrees = {wt1}
    Leases = {1, 2}
    ReleaseStatuses = {"open", "blocked"}
    DependsOn <- SetEach
    ParentOf <- NoneEach
    SupersededBy <- NoneEach
    InitialStatus <- AllOpen
    InitialBranch <- NoneEach
    InitialWorktree <- NoneEach
    InitialCheckpoints <- SetEach
    Backend = "sqlite"
    GatedTasks = {t1}
    MaxRevision = 7
    MaxTime = 4
    MaxBoots = 1
    MaxAbandonments = 2
    None = None
INVARIANTS TypeOK FenceWithinClaim OneOutcome FenceRecoverable
PROPERTIES LiveWorkerKeepsClaim FenceAccounted ResumeFromLastPause
CHECK_DEADLOCK FALSE
