SPECIFICATION StoreSpec
CONSTANTS
  N = 4
  Uses = {1, 2, 3, 4}
  UINT32_MAX = 4
  ValueNode = ValueNode
  None = None
INVARIANT NobodyReads
CHECK_DEADLOCK FALSE
