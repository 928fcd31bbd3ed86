SPECIFICATION FairSpec
CONSTANTS
  Agents = {1, 2}
  Whole = 8
  Purchases = {"p1"}
  Payouts = {"d1"}
  Merchant = 1
  Nominal <- Amounts
  BaseFee <- Provider
  FeeValues <- Charges
  Batches <- Submitted
  OnFile <- Registered
  Editors = {e1, e2}
  MaxEdits = 2
INVARIANTS
  NoResidue
  MoneyAddsUp
  OnlyNothingIsRefused
PROPERTIES
  StaleEnds
CHECK_DEADLOCK FALSE
