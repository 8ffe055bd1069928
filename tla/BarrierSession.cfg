SPECIFICATION Spec
CONSTANTS
    Attempts = {1, 2}
    Ops = {o1, o2}
    None = None
    Procs = {p1, p2}
    MaxRev = 5
    MaxFaults = 1
SYMMETRY Symmetric
INVARIANTS EffectsSound EffectsInSession
PROPERTIES RefinesContract
