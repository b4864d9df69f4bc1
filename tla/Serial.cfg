SPECIFICATION Spec
CONSTANTS
  kernel_main = kernel_main
  ap_entry = ap_entry
  isr_handler = isr_handler
  Writers <- SomeWriters
  Boot = kernel_main
  Text <- SomeTexts
  Depth = 4
INVARIANTS TypeOK NothingLost
PROPERTY AllSent
CHECK_DEADLOCK FALSE
