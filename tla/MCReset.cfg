CONSTANTS
  d1 = d1
  d2 = d2
  c1 = c1
  c2 = c2
  w1 = w1
  w2 = w2
  Db <- MCDb
  Coll <- MCColl
  Writer <- MCWriter
  Target <- MCTarget
  Configured <- MCConfigured
  Errors = {"other", "empty"}
  AutoCreate = TRUE
  Attempts = 2
  SleepYields = {TRUE, FALSE}
SPECIFICATION Spec
INVARIANTS ResetTypeOK AppliedOnce FailsOnlyWhenRaced OldGone
PROPERTIES ResetEnds
CHECK_DEADLOCK FALSE
