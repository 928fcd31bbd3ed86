SPECIFICATION FairSpec
CONSTANTS
  Requests <- TwoRequests
  Placements <- SamePodOrTwo
  Pods <- TwoPods
  Tokens = {t1, t2, t3, t4}
  NoToken = NoToken
  Nobody = Nobody
  Gone = Gone
  Revoking = TRUE
  MaxFaults = 2
INVARIANTS
  OneRefresher
  RetryIsAnotherToken
  NewestIsShared
PROPERTIES
  OnlyItsHolderUnlocks
  StormNeedsFuel
  RequestEnds
