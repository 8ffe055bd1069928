CONSTANTS
    None = None
    a = a
    c1 = c1
    c2 = c2
    k1 = k1
    k2 = k2
    Owners = {a}
    Clients = {c1, c2}
    Keys = {k1, k2}
    Workers = {w1}
    Asks <- MCAsks
    MaxCommits = 3
    MaxFaults = 1
SPECIFICATION Spec
CHECK_DEADLOCK FALSE
INVARIANTS AppliedAtMostOnce ReceiptsSound PublishedIsOnRemote
PROPERTIES IntentsSettle
