SPECIFICATION MCSpec
CONSTANTS
  f = f
  g = g
  a = a
  b = b
  r = r
  s = s
  r2 = r2
  Functions <- MCFunctions
  Values <- Single
  Of <- SingleOf
  Args <- MCArgs
  Rets <- SingleRets
  Module <- MCModule
  Other = Other
  MaxUses = 2
INVARIANTS
  TypeOK
  LiveAreNeeded
PROPERTY FirstRunIsRight
CHECK_DEADLOCK FALSE
