SPECIFICATION Spec
CONSTANTS
  MajorSize = 3
  MinorSize = 3
  Alignment = 2
  PageSize = 22
  PageCount = 1
  HeapPages = {1, 2, 3}
  MaxBlocks = 3
  Requests = {1, 2, 15, 60}
  Resizes = {0, 2}
INVARIANTS FailedReallocKeepsBlock
CHECK_DEADLOCK FALSE
