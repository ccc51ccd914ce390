CONSTANTS
  OnTopic <- AllEvents
  PerEvent <- OnlyOne
  Awaited <- Waits
  MaxLog = 3
  MaxLive = 0
  MaxBehind = 0
  MaxIgnored = 0
  MayFail = FALSE
SPECIFICATION Spec
INVARIANTS AllReplayed
CHECK_DEADLOCK FALSE
