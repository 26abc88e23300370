SPECIFICATION Spec
CONSTANTS
  Capacity = 3
  PlainKeys = {"a"}
  ShiftKeys = {"left", "right"}
  Decrements = {"loadSize", "decrement"}
  MaxTyped = 4
INVARIANTS
  CodesInOrder
  ShiftAsTyped
PROPERTIES
  CountedCodesAreRead
CHECK_DEADLOCK FALSE
