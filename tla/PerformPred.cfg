SPECIFICATION Spec
CONSTANTS
  Loops <- MCLoops
  Blocks <- MCBlocks
  a1 = a1
  a2 = a2
  a3 = a3
  Addresses = {a1, a2, a3}
  None = None
  MaxPasses = 3
  Half = 128
  Square = 11
  Word = 256
  Mantissa = 4096
  Powers <- MCPowers
  Programs <- MCPrograms
SYMMETRY MCSymmetry
INVARIANTS
  TypeOK
  CountIsOwn
  EntryIsOwn
  
  ViewsAreAvailable
CHECK_DEADLOCK FALSE
