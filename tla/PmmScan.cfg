SPECIFICATION ScanSpec
CONSTANTS
  total_pages = 9
  Counts = {0, 1, 2, 3, 4}
INVARIANT FindsFirstFit
PROPERTY Returns
CHECK_DEADLOCK FALSE
