SPECIFICATION Spec
CONSTANTS
  Orders = {1}
  Lots = {1}
  Cash0 = 2
  Held0 = 2
  MaxBuys = 2
  MaxTrades = 1
  MaxFaults = 0
INVARIANTS
  ExecutedOnce
CHECK_DEADLOCK FALSE
