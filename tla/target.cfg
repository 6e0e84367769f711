SPECIFICATION FairSpec
CONSTANTS
  None = None
  Runners = {r1, r2}
  Verifications = 0
  Delivery = "github"
  KeepWorkspace = FALSE
  MaxRuns = 7
  MaxFailures = 1
  MaxCrashes = 2
  MaxOverlaps = 1
INVARIANTS SavedStateAccepted ResultIsWhatWasVerified PublishedIsEvidenced Resumable
PROPERTIES ResultReused TargetCompletes
CHECK_DEADLOCK FALSE
