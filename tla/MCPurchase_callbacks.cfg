SPECIFICATION FairSpec
CONSTANTS
  Purchases <- One
  Handlers = {h1, h2}
  Faults <- EveryFault
  MaxSent = 2
  Retries = 3
  MaxFailures = 3
INVARIANTS
  StatusIsTrue
  LegsMatchFees
  OutcomeIsComing
PROPERTIES
  PayinKeepsPromise
  TerminalIsFinal
  CapturedUnlessLost
CHECK_DEADLOCK FALSE
