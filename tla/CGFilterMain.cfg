SPECIFICATION MainSpec
CONSTANTS
  a = a
  b = b
  c = c
  d = d
  Functions <- MCFunctions
  Declared = Declared
  External = External
  None = None
  Wrap = 64
INVARIANTS
  RangesNest
  SameIndexSameFunction
  OrderIsFirstRun
VIEW View
CHECK_DEADLOCK FALSE
