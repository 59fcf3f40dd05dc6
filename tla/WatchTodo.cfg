SPECIFICATION Spec
CONSTANTS
  Todos = {t1}
  Clients = {c1, c2}
  Limit = 1
  ClockAhead = FALSE
  MaxFaults = 1
INVARIANTS
  CallsBounded
  ExpiredWasCalled
PROPERTIES
  TodosOnlyAdvance
  EveryTodoEnds
CHECK_DEADLOCK FALSE
