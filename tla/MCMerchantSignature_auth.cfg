SPECIFICATION Spec
CHECK_DEADLOCK FALSE
CONSTANTS
  Null = Null
  Editors = {d}
  Deliveries = {v, w}
  Messages = {m}
  MaxSecrets = 2
  MaxWrites = 3
  Tolerance = 2
  NonceTTL = 4
  CacheTTL = 1
  Grace = 1
  Limit = 1
  WindowLength = 2
  MaxLatency = 1
  Skews <- Edges
  MaxFaults = 1
  Horizon = 5
SYMMETRY Verifications
INVARIANTS
  AcceptedOnceInBand
  StaleIsBounded
  RetiredSecretEnds
