SPECIFICATION Spec
CONSTANTS
  Labels = {0, 1}
  MaxVisit = 3
  MaxVars = 2
  LabelAt <- SmallLabelAt
  Size <- SmallSize
  AliasVars <- SmallAliasVars
  Candidates <- SmallCandidates
  Points <- SmallPoints
  EnvIntervals = {0}
  DefaultInterval = 2
  MaxTime = 1
  MaxLaunches = 3
  WriteSucceeds = {TRUE}
  MkdirSucceeds = {TRUE}
  ClockSucceeds = {TRUE}
PROPERTIES
  DueIsTaken
CHECK_DEADLOCK FALSE
