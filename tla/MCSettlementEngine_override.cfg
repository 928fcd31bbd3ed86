SPECIFICATION Spec
CONSTANTS
  Pods = {a}
  Purchases <- FewPurchases
  Detail <- FewDetail
  Terms <- DefaultAndOverride
  Runs <- TwoRuns
  RunTerms <- OneEach
  Horizon = 2
  ClaimLimit = 1
  MaxAttempts = 3
  MaxFailures = 1
INVARIANTS
  NeverEarly
