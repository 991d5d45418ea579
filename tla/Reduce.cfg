SPECIFICATION MCSpec
CONSTANTS
  main = main
  f = f
  g = g
  h = h
  m1 = m1
  m2 = m2
  m3 = m3
  callf = callf
  callh = callh
  f1 = f1
  g1 = g1
  h1 = h1
  None = None
  Main = main
  Functions <- MCFunctions
  Names <- MCNames
  Calls <- MCCalls
  Blocks <- MCBlocks
  Callee <- MCCallee
  Ignored <- JustH
  Rewritable <- JustF
  MaxRewrites = 1
  SizeMax = 63
INVARIANTS
  TypeOK
  CountCovers
  ReportIsRight
  NothingLeft
PROPERTIES
  SetupOutlivesUse
  Terminates
CHECK_DEADLOCK FALSE
