SPECIFICATION LoaderSpec
CONSTANTS
  Objects = {"a", "b"}
  Pages = {1, 2, 3, 4, 5}
  PageUnits = 2
  Images <- MCImages
INVARIANTS UnloadReturns
CHECK_DEADLOCK FALSE
