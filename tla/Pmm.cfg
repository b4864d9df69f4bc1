SPECIFICATION Spec
CONSTANTS
  PAGE_SIZE = 2
  MemMaps <- PassMaps
  Counts = {0, 1, 2, 3}
INVARIANTS TypeOK NoSharedPage BitmapExact Accounting
PROPERTY RefinesFrameAllocator
CHECK_DEADLOCK FALSE
