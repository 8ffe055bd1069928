SPECIFICATION Spec
CONSTANTS
  Ops = {1, 2}
  Procs = {p1}
  Backend = "sqlite"
  None = None
  MaxFaults = 1

INVARIANTS PhasesAccounted BarrierKept
PROPERTIES VerifiedRollbackFinishes
CHECK_DEADLOCK FALSE
