SPECIFICATION Spec
CONSTANTS
  N = 2
  Bsp = 1
  LastPage = 3
  Layouts = {{1}}
  Timeout = 2
  MaxCalls = 1
INVARIANT StartedCountExact
CHECK_DEADLOCK FALSE
