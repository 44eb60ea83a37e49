SPECIFICATION Spec
CONSTANTS
  Labels = {0, 1}
  MaxVisit = 3
  MaxVars = 3
  LabelAt <- MCLabelAt
  Size <- MCSize
  AliasVars <- MCAliasVars
  Candidates <- MCCandidates
  Points <- MCLostLast
  EnvIntervals = {0}
  DefaultInterval = 2
  MaxTime = 1
  MaxLaunches = 3
  WriteSucceeds = {TRUE}
  MkdirSucceeds = {TRUE}
  ClockSucceeds = {TRUE}
PROPERTIES
  GivenUpNotUsed
CHECK_DEADLOCK FALSE
