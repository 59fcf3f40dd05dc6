SPECIFICATION Spec
CONSTANTS
  Runs = {r1, r2}
  WebhookRuns = {r1}
  ManualRuns = {r1}
  MaxConcurrentTasks = 1
  MaxRetries = 2
  MaxFaults = 2
INVARIANTS
  TypeOK
  SlotAccounting
  NoRunLeftOpen
PROPERTIES
  OwnResultIsFinal
  EveryCallEnds
CHECK_DEADLOCK FALSE
