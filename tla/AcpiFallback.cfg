SPECIFICATION Spec
CONSTANTS
  Pages = {1, 2, 3, 4, 5, 6}
  Tables <- SevenTables
  Firmware <- AllFirmware
  PremappedPages <- SomePages
INVARIANT FallsBackToRsdt
CHECK_DEADLOCK FALSE
