SPECIFICATION Spec
CONSTANTS
  p = p
  x = x
  s1 = s1
  s2 = s2
  Uses <- MCUses
  Slots <- MCSlots
  Pointer <- MCPointer
  Other = Other
  Rewrites <- JustOther
  Null = Null
PROPERTY DeletableIsUnused
CHECK_DEADLOCK FALSE
