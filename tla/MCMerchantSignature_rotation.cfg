SPECIFICATION Spec
CHECK_DEADLOCK FALSE
CONSTANTS
  Null = Null
  Editors = {d1, d2}
  Deliveries = {w}
  Messages = {m}
  MaxSecrets = 3
  MaxWrites = 5
  Tolerance = 2
  NonceTTL = 4
  CacheTTL = 1
  Grace = 1
  Limit = 1
  WindowLength = 2
  MaxLatency = 1
  Skews <- Edges
  MaxFaults = 0
  Horizon = 3
INVARIANTS
  OutgoingIsKept
