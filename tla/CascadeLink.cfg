SPECIFICATION LinkSpec
CONSTANTS
  Insts <- MCInsts
  Root = 0
  Undef = Undef
  Null = Null
INVARIANTS
  NoUseAfterDelete
  NoDanglingOperand
  CascadeIsExact
CHECK_DEADLOCK FALSE
