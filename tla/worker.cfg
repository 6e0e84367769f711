SPECIFICATION FairSpec
CONSTANTS
  None = None
  Tasks = {1}
  Workers = {w1, w2}
  LeaseIds = {l1, l2, l3}
  MaxAttempts <- MCMaxAttempts
  FailureKinds = {"transient", "permanent"}
INVARIANTS LeasesAccounted ReportsAreTrue
PROPERTIES VerdictsByAttentiveHolder EveryTaskSettles
CHECK_DEADLOCK FALSE
