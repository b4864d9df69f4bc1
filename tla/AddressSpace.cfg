SPECIFICATION Spec
CONSTANTS
  Frames = {1, 2, 3, 4, 5, 6, 7}
  Index = {0, 1}
  VirtualPages <- Pages
  HeapPages <- OnDemand
  Boot <- BootTables
  MaxHeld = 1
  MaxCached = 1
INVARIANTS TypeOK OneRole NoLeak KernelViewAgrees TlbCoherent
PROPERTY RefinesVirtualMemory
CHECK_DEADLOCK FALSE
