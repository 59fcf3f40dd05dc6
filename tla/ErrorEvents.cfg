SPECIFICATION Spec
CONSTANTS
  Posts = {p1}
  MaxRuns = 2
  MaxLines = 2
  Window = 1
  Batch = 1
  MaxActs = 2
  MaxFaults = 1
INVARIANTS
  ResolvedMeansQuiet
  CountedOnce
PROPERTIES
  OnlyStaleCallsInterfere
  EveryErrorIsCounted
CHECK_DEADLOCK FALSE
