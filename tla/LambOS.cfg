SPECIFICATION System
CONSTANTS
  Digit = 2
  Lines = {0, 1, 14}
  Exceptions = {0, 13, 14}
  MaxRaised = 4
  MaxCalls = 3
  Width = 8
  Height = 3
  Runs = {1, 3, 7}
  MaxWrites = 4
  PanicWidth = 10
  PanicHeight = 13
  MaxMessage = 12
  Moments <- NewYear
  Window = 8
  ListValues = {v, w}
  MaxNodes = 7
  KDefaultSize = 2
  ArrayValues = {v, w}
  MaxElements = 4
  StringNames = {a, b}
  Chars = {v, w}
  MaxText = 3
  Letters = {1, 2}
  Slash = 3
  CompareLength = 3
  PathLength = 6
  NumberBytes = {1, 2}
  Near = 130
  Bases = {2, 8, 10, 16, 32}
  AddressBits = 6
  Bits = {0, 7}
  MaxSet = 12
  Modifiers = {"none", "l", "ll", "j"}
  Conversions = {"s", "d", "x", "p", "@"}
  FormatLength = 3
  Keys = {"e", "s", "w", "q", "d", "1", "space", "backspace"}
  LineSize = 4
  MaxKeys = 5
  Objects = {"a", "b"}
  Pages = {1, 2, 3, 4, 5}
  PageUnits = 2
  Images <- MCImages
  Drives = {"PATAPI", "SATAPI", "PATA", "none"}
  SectorSize = 4
  AtaSectorSize = 2
  GarbageSizes = {0, 8}
  Chunk = 2
  ByteValues = 4
  LimitModulus = 16
  DiskSectors = 5
  Addresses = {1}
  MaxSectors = 5
INVARIANTS
  HandlersReady
  HandlersNest
  ScreenIsWindow
  PanicShowsMessage
  TimeIsOneMoment
  ListIsSequence
  ArrayIsSequence
  StringIsSequence
  CompareIsOrder
  TokensAreFields
  NumbersReadBack
  MemsetIsExact
  ConversionsGetTheirArguments
  MappedIsHeld
  LoadIsAllOrNothing
  ReadComplete
  BufferNotOverrun
PROPERTIES
  InterruptsAreServed
  CommandAsTyped
  HeardCallsReturn
CHECK_DEADLOCK FALSE
