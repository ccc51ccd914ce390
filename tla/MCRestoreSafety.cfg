CONSTANTS
  OnTopic <- FirstAndLast
  PerEvent <- Either
  Awaited <- Waits
  MaxLog = 2
  MaxLive = 1
  MaxBehind = 2
  MaxIgnored = 1
  MayFail = TRUE
SPECIFICATION Spec
INVARIANTS OnlyAskedFor ReplaysBounded ResponseIsLast
CHECK_DEADLOCK FALSE
