SPECIFICATION Spec
CONSTANTS
  None = None
  FailureKinds = {"transient", "permanent"}
  w1 = w1
  w2 = w2
  c1 = c1
  c2 = c2
  Tasks = {1}
  Workers <- MCWorkers
  LeaseIds = {l1, l2, l3}
  Commits <- MCCommits
  BaseCommit <- MCBaseCommit
  MaxAttempts <- MCThreeAttempts
  LeaseMs <- MCLeaseMs
  RetryDelay <- MCRetryDelay
  MaxTasks = 1
  EventBudget = 9
  ReportEventBudget = 8
  MaxTime = 4
  ClockMayStepBack = TRUE
SYMMETRY LeaseIdSymmetry
INVARIANTS GateAcceptsLegalCalls LeaseTimesHonoured BudgetSpentBeforeGivingUp ReportRefusesOnlyWaitingOrLong
PROPERTIES HistoryIsFinal
CHECK_DEADLOCK FALSE
