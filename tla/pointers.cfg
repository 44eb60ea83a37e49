SPECIFICATION FairSpec
CONSTANTS
  a = a
  b = b
  c = c
  p = p
  q = q
  r = r
  Elsewhere = Elsewhere
  Pointers <- MCPointers
  Blocks <- MCBlocks
  Programs <- MCPrograms
INVARIANTS
  TypeOK TargetsFoundUnlessToldApart PhisResolved SizesFollow
  RecursesForEverOnlyIfChanged DoneOnlyIfRooted
PROPERTIES
  EndsIfRooted
CHECK_DEADLOCK FALSE
