SPECIFICATION MCSpec
CONSTANTS
  u1 = u1
  u2 = u2
  u3 = u3
  Uses <- MCUses
  ValueNode = ValueNode
  None = None
INVARIANTS
  TypeOK
  NothingMissed
  FoundIsReachable
  EdgesAreLinks
  SearchInv
PROPERTIES
  OnlyDrains
  Terminates
  ImplementsGraphSearch
CHECK_DEADLOCK FALSE
