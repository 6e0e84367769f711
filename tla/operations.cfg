SPECIFICATION FairSpec
CONSTANTS
  r1 = r1
  r2 = r2
  None = None
  Runners = {r1, r2}
  MaxFailures = 2
  MaxInterference = 3
  MaxPullRequests = 2
INVARIANTS OnePullRequest StrayTokensAreFailures
PROPERTIES DeliveredOnce DeliveredEventually
