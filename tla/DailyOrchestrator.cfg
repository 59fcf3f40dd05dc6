SPECIFICATION Spec
CONSTANTS
  MaxFaults = 2
INVARIANTS
  StartedInTurn
  ReviewPushedOnce
  
PROPERTIES
  WindowIsReached
