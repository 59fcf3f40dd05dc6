SPECIFICATION PlanSpec
CONSTANTS
  MaxEntry = 0
  MaxExit = 2
  MaxVersion = 2
  MaxRules = 4
  MaxBreaks = 1
  MaxWrites = 1
CONSTRAINT OneUpset
INVARIANTS
  ActiveIsWatched
  OffIsUnwatched
  RolesNeverLapse
CHECK_DEADLOCK FALSE
