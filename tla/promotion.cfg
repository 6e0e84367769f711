SPECIFICATION Spec
CONSTANTS
  h1 = h1
  h2 = h2
  b1 = b1
  b2 = b2
  ann = ann
  dev = dev
  ci = ci
  None = None
  Heads = {h1, h2}
  Bundled = {h1, h2}
  Bases = {b1, b2}
  WorkOrderBase = b1
  Reviewers = {ann, dev}
  Approvers = {ann, dev}
  Author = dev
  Checks = {ci}
  Required = {ci}
  Window = 1
  MaxTime = 1
  MaxReviews = 2
  MaxRuns = 2
  MaxChanges = 1
  MaxCalls = 1
SYMMETRY HeadSymmetry
INVARIANTS MergeIsDecided EvidenceApprovalStands
PROPERTIES PromotedIsEvidenced
CHECK_DEADLOCK FALSE
