SPECIFICATION ScheduleSpec
CONSTANTS
  Tasks = {t1}
  Clients = {c1,c2}
  Clock = Clock
  Nobody = Nobody
  GoodExprs = {g1,g2}
  BadExprs = {bad}
  NoExpr = NoExpr
  Hooks = {h1}
  EntryIds = {e1,e2}
  NoEntry = NoEntry
INVARIANTS
  ScheduleTypeOK
  EntriesMatchEngine
  RowsDecide
PROPERTIES
  RecoveryNeverDrops
CHECK_DEADLOCK FALSE
