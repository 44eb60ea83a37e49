SPECIFICATION FairSpec
CONSTANTS
  Labels = {0, 1}
  MaxVisit = 3
  MaxVars = 3
  LabelAt <- MCLabelAt
  Size <- MCSize
  AliasVars <- MCAliasVars
  Candidates <- MCCandidates
  Points <- MCPoints
  EnvIntervals <- MCEnvIntervals
  DefaultInterval = 2
  MaxTime = 3
  MaxLaunches = 3
  WriteSucceeds = {TRUE}
  MkdirSucceeds = {TRUE}
  ClockSucceeds = {TRUE}
INVARIANTS
  TypeOK
  NewestIsFurthest
  MemoryIntact
  NeverAborts
  NothingLostWhenAlwaysDue
PROPERTIES
  Completes
  CompletedUntouched
  DueIsTaken
  Resumes
CHECK_DEADLOCK FALSE
