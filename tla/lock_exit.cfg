SPECIFICATION Spec
CONSTANTS
  NoDir = NoDir
  EmptyDir = EmptyDir
  Nobody = Nobody
  Procs = {p1, p2, p3}
  MaxCalls = 2
  MaxCrashes = 0
  MayExit = TRUE
SYMMETRY ProcSymmetry
INVARIANT ClaimedOnce
CHECK_DEADLOCK FALSE
