SPECIFICATION PassSpec
CONSTANTS
  N = 3
  x = x
  y = y
  z = z
  p = p
  xsize = xsize
  ysize = ysize
  psize = psize
  Blocks <- MCBlocks
  Values <- MCValues
  Constant = Constant
  Anywhere = Anywhere
  Programs <- MCPrograms
INVARIANTS
  TypeOK NothingDead AllLive NoPhiCheckpointed PhiSourcesMapped LiveMapped
  PassTypeOK PointsAtCheckpointIfSplit SlotsInOrder LiveSaved
  UndefinedIfMappedNowhere GivenWhatIsCurrent
PROPERTIES
  Converges PassEnds
CHECK_DEADLOCK FALSE
