CONSTANTS
  OnTopic <- Restorable
  PerEvent <- Either
  Awaited <- Either
  MaxLog = 3
  MaxLive = 0
  MaxBehind = 1
  MaxIgnored = 0
  MayFail = FALSE
SPECIFICATION Spec
INVARIANTS RestoreTypeOK CreatedReplayed ReplaysBounded
PROPERTIES RestoreAnswers
CHECK_DEADLOCK FALSE
