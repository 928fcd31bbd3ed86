SPECIFICATION FairSpec
CONSTANTS
  Disbursements <- Two
  Confirmable <- One
  Handlers = {h1, h2}
  Deposit = 1
  Events <- EveryEvent
  MaxSent = 1
  Retries = 1
  MaxFailures = 1
INVARIANTS
  NeverOverspent
  FailureIsVerifiedBarGateway
  CompletionIsComing
PROPERTIES
  PayoutKeepsPromise
  CompletedUnlessLost
CHECK_DEADLOCK FALSE
