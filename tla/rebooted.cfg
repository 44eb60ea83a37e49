SPECIFICATION RebootSpec
CONSTANTS
  Labels = {0, 1}
  MaxVisit = 3
  MaxVars = 3
  LabelAt <- MCLabelAt
  Size <- MCSize
  AliasVars <- MCAliasVars
  Candidates <- MCCandidates
  Points <- MCPoints
  EnvIntervals = {0, 1}
  DefaultInterval = 2
  MaxTime = 2
  MaxLaunches = 3
  WriteSucceeds = {TRUE}
  MkdirSucceeds = {TRUE}
  ClockSucceeds = {TRUE}
INVARIANTS
  NewestIsFurthest
CHECK_DEADLOCK FALSE
