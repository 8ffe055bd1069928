SPECIFICATION Spec
CONSTANTS
  Ops = {1}
  Procs = {p1}
  Backend = "git"
  None = None
  MaxFaults = 0

INVARIANTS CommitConfirmed
CHECK_DEADLOCK FALSE
