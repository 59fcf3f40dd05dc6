SPECIFICATION Spec
CONSTANTS
  Runs = {r1, r2, r3}
  NoRun = NoRun
  MaxAttempts = 2
  BatchLimit = 2
  MaxFaults = 1
INVARIANTS
  TypeOK
  SnapshotFresh
PROPERTIES
  SettledIsFinal
  ImplementsContract
CHECK_DEADLOCK FALSE
