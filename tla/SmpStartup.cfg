SPECIFICATION Spec
CONSTANTS
  N = 3
  Bsp = 1
  LastPage = 4
  Layouts = {{1}, {2, 3}, {1, 2, 4}, {1, 2, 3, 4}}
  Timeout = 2
  MaxCalls = 2
INVARIANTS TypeOK RunningIsSetUp StacksExclusive OldPagesSafe ReportTrue
PROPERTY EverybodySettles
CHECK_DEADLOCK FALSE
