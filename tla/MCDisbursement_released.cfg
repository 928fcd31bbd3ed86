SPECIFICATION Spec
CONSTANTS
  Disbursements <- One
  Confirmable <- One
  Handlers = {h1, h2}
  Deposit = 1
  Events <- AtOnceOnly
  MaxSent = 0
  Retries = 1
  MaxFailures = 0
INVARIANTS
  ReservationIsReleased
CHECK_DEADLOCK FALSE
