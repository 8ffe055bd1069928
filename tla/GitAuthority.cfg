CONSTANTS
    a = a  b = b  n1 = n1  n2 = n2
    None = None
    Writers = {a, b}
    Tasks = {t1, t2}
    Entries = {n1, n2}
    MaxRevision = 4
    MaxCrashes = 2
    TableRevision = 3
SPECIFICATION GitSpec
SYMMETRY GitSymmetry
CHECK_DEADLOCK FALSE
INVARIANT HeadInStep
PROPERTY Linearized
