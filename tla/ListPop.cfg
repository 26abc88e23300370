SPECIFICATION LibrarySpec
CONSTANTS
  ListValues = {v, w}
  MaxNodes = 7
  KDefaultSize = 2
  ArrayValues = {v, w}
  MaxElements = 4
  StringNames = {a, b}
  Chars = {v, w}
  MaxText = 3
  Letters = {1, 2}
  Slash = 3
  CompareLength = 3
  PathLength = 6
  NumberBytes = {1, 2}
  Near = 130
  Bases = {2, 8, 10, 16, 32}
  AddressBits = 6
  Bits = {0, 7}
  MaxSet = 12
  Modifiers = {"none", "l", "ll", "j"}
  Conversions = {"s", "d", "x", "p", "@"}
  FormatLength = 3
  Keys = {"e", "s", "w", "q", "d", "1", "space", "backspace"}
  LineSize = 5
  MaxKeys = 6
PROPERTY
  PopReturnsFront
CHECK_DEADLOCK FALSE
