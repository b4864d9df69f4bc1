SPECIFICATION BootSpec
CONSTANTS
  Pages = {1, 2, 3, 4, 5, 6}
  Tables <- SevenTables
  Firmware <- AllFirmware
  PremappedPages <- SomePages
  Lines = {0, 1, 8}
  MadtEntries <- SomeEntries
INVARIANTS BootTypeOK OnlyVerified FoundWhenThere RaisedIsHandled TimerFitsHandler
PROPERTY BootEnds
CHECK_DEADLOCK FALSE
