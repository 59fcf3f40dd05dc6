SPECIFICATION Spec
CONSTANTS
  Orders = {1}
  Lots = {1, 2}
  Cash0 = 1
  Held0 = 2
  MaxBuys = 2
  MaxTrades = 1
  MaxFaults = 1
INVARIANTS
  BooksBalance
  CashNotOverdrawn
  TPlusOne
PROPERTIES
  PendingEnds
CHECK_DEADLOCK FALSE
