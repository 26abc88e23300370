SPECIFICATION Spec
CONSTANTS
  Capacity = 3
  PlainKeys = {"a"}
  ShiftKeys = {"left", "right"}
  Decrements = {"loadSize"}
  MaxTyped = 4
INVARIANT OldestMakesRoom
CHECK_DEADLOCK FALSE
