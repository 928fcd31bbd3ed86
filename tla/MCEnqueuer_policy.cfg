SPECIFICATION Spec
CONSTANTS
  Null = Null
  Day = 4
  Slot = 2
  Opening = 8
  Horizon = 14
  Methods <- SomeMethods
  Windows <- SomeWindows
  Registrations <- DefaultOrOne
  Policies <- AllTerms
  Payments <- OnePayment
  MaxLate = 1
  MaxChanges = 1
  MaxPending = 2
INVARIANTS
  CutoffAgrees
  EligibleWhenSettled
  RunsNameBoundaries
  NothingLeftBehind
CHECK_DEADLOCK FALSE
