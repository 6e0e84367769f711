SPECIFICATION Spec
CONSTANTS
  None = None
  Procs = {p1, p2}
  Documents = {d1, d2}
  Policies = {y7}
  MaxReceipts = 3
  MaxTime = 2
  MaxFaults = 2
  MaxCalls = 4
SYMMETRY Symmetric
INVARIANTS ReceiptAfterObject OneReceiptPerRequest
PROPERTIES ReturnedWhenIntact RefusedOnlyForDamage
CHECK_DEADLOCK FALSE
