SPECIFICATION Spec
CONSTANTS
  HEAP_START = 8
  HEAP_INITIAL_SIZE = 40
  HEAP_ALIGNMENT = 2
  HEADER = 4
  WORD = 64
  Requests = {0, 1, 5, 12, 63}
INVARIANTS TypeOK Tiled Coalesced PayloadsAligned WholeWhenFree SearchFindsRoom CountersExact
PROPERTY RefinesAbstractHeap
CHECK_DEADLOCK FALSE
