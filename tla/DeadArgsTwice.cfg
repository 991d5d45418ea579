SPECIFICATION AdaptiveSpec
CONSTANTS
  f = f
  g = g
  a = a
  b = b
  r = r
  s = s
  r2 = r2
  Functions <- MCFunctions
  Values <- Single
  Of <- SingleOf
  Args <- MCArgs
  Rets <- SingleRets
  Module <- MCModule
  Other = Other
  MaxUses = 2
PROPERTY RemovedAreDead
CHECK_DEADLOCK FALSE
