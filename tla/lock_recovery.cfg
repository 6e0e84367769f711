SPECIFICATION FairSpec
CONSTANTS
  NoDir = NoDir
  EmptyDir = EmptyDir
  Nobody = Nobody
  Procs = {p1, p2}
  MaxCalls = 2
  MaxCrashes = 1
  MayExit = TRUE
INVARIANTS MutualExclusion ClaimedOnce LiveOwnerIsInside
PROPERTY EveryCallEnds
CHECK_DEADLOCK FALSE
