CONSTANTS
    Procs = {p1, p2}
    MaxAttempt = 2
    MaxRev = 3
    MaxWrites = 1
    MaxReplace = 1
    MaxAdmission = 2
    MaxNode = 1
    MaxCommits = 3
    Releases = {r0, r1}
    First = r0
    Stagers = {s1, s2}
    MaxNodes = 3
    MaxLosses = 2
    None = None
SPECIFICATION MCSpec
SYMMETRY Interchangeable
CHECK_DEADLOCK FALSE
INVARIANTS DomainExclusive SessionsFresh NoWaitCycle
           CommitAccounted
           RuntimeSound
PROPERTIES WritesFenced
