SPECIFICATION Spec
CONSTANTS
  Notes = {n1, n2}
  Passes = {p1, p2}
  NoNote = NoNote
  MaxRetries = 2
  AlertThreshold = 2
  HasAlertChannel = TRUE
  MaxFaults = 1
INVARIANTS
  TypeOK
  SentIsGrounded
PROPERTIES
  ResultIsFinal
  EveryRowIsDealtWith
CHECK_DEADLOCK FALSE
