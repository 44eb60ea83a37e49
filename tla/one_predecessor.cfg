SPECIFICATION PassSpec
CONSTANTS
  N = 3
  x = x
  y = y
  z = z
  p = p
  xsize = xsize
  ysize = ysize
  psize = psize
  Blocks <- MCBlocks
  Values <- MCValues
  Constant = Constant
  Anywhere = Anywhere
  Programs <- MCNoPhis
INVARIANTS
  AllPredecessorsPointAtCheckpoint
CHECK_DEADLOCK FALSE
