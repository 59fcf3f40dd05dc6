SPECIFICATION Spec
CONSTANTS
  Runs = {r1, r2}
  WebhookRuns = {r1}
  ManualRuns = {r1}
  NoRun = NoRun
  MaxConcurrentTasks = 1
  MaxRetries = 1
  MaxAttempts = 2
  BatchLimit = 1
  MaxFaults = 1
INVARIANTS
  NothingLostSilently
  SuccessIsGrounded
  CopiesBounded
PROPERTIES
  OwedDeliveryEnds
CHECK_DEADLOCK FALSE
