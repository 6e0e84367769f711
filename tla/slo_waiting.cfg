SPECIFICATION Spec
CONSTANTS
  None = None
  FailureKinds = {"transient"}
  w1 = w1
  w2 = w2
  c1 = c1
  c2 = c2
  Tasks = {1}
  Workers <- MCWorkers
  LeaseIds = {l1, l2}
  Commits <- MCCommits
  BaseCommit <- MCBaseCommit
  MaxAttempts <- MCMaxAttempts
  LeaseMs <- MCLeaseMs
  RetryDelay <- MCRetryDelay
  MaxTasks = 1
  EventBudget = 5
  ReportEventBudget = 5
  MaxTime = 2
  ClockMayStepBack = FALSE
SYMMETRY LeaseIdSymmetry
INVARIANT ReportAcceptsTheQueue
CHECK_DEADLOCK FALSE
