SPECIFICATION Spec
CONSTANTS
  Blocks <- MCBlocks
  Values <- MCValues
  Constant = Constant
  Anywhere = Anywhere
  Programs <- MCPrograms
INVARIANTS
  PhiSourcesMapped
CHECK_DEADLOCK FALSE
