SPECIFICATION Spec
CONSTANTS
  Transactions = {t1, t2}
  Row <- Rows
  Source <- Sources
  Program <- Programs
  MaxEntryId = 35
SYMMETRY Sessions
INVARIANTS
  BooksBalance
  PostedOnce
  NeverOverdrawn
  NoWaitCycle
  LastEntryCovers
PROPERTY
  PostsAtOnce
