SPECIFICATION LoopSpec
CONSTANTS
  Half <- MCHalf
  LoopForms <- MCLoops
  Asserted = {TRUE, FALSE}
  MaxRounds = 17
  NotFound = NotFound
INVARIANTS
  LoopTypeOK
  CountIsExact
  CountIsClose
CHECK_DEADLOCK FALSE
