SPECIFICATION FairSpec
CONSTANTS
  Size = 4
  Length = 3
  Instructions <- MCInstructions
  Shapes <- MCShapes
INVARIANTS
  TypeOK
  SameBehaviour
  DeadAreUnread
PROPERTY Terminates
CHECK_DEADLOCK FALSE
