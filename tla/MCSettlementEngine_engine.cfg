SPECIFICATION FairSpec
CONSTANTS
  Pods = {a, b}
  Purchases <- FewPurchases
  Detail <- FewDetail
  Terms <- DefaultOnly
  Runs <- OneRun
  RunTerms <- OneDefault
  Horizon = 2
  ClaimLimit = 1
  MaxAttempts = 3
  MaxFailures = 2
INVARIANTS
  BatchesDisjoint
  NeverReposts
  AttemptsBounded
PROPERTIES
  SettledInTheEnd
  RunsEnd
  KeepsPromise
