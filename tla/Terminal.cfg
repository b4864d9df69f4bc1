CONSTANTS
  Width = 6
  Height = 6
  CharWidth = 2
  CharHeight = 2
  Margin = 1
  TabStop = 4
  LongBits = 5
  IntBits = 4
  Chunk = 4
  Space = 3
  Words <- SomeWords
  Calls <- SomeCalls
  CharOf <- SomeChars
  TextAt <- SomeTexts
  Characters <- SomeCharacters
  LaterCalls <- SomeLaterCalls
  Buffer <- CheckBuffer
  Texts <- CheckTexts
  MaxText = 8
SPECIFICATION Spec
INVARIANTS
  TypeOK
  ShowsTheTail
  PrintsAsMeant
  StringsAsDefined
CHECK_DEADLOCK FALSE
