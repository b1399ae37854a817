SPECIFICATION FairSpec
CONSTANTS
  Durations <- MCDurations
  FocusLen = 2
  BreakLen = 1
  DoneLen = 1
  Cycles = 2
  UnlockDelay = 2
  KeepLock = FALSE
  Types <- Both
  PrayerLen = 2
  Horizon = 8
  MaxTime = 22
  MaxCrashes = 2
  MaxPrayers = 1
  MaxFailures = 1
  Prompt = TRUE
INVARIANTS
  DurableUnlessFailed
  FocusIsBlocked
PROPERTIES
  KeepsPromise
  SessionIsLeft
CHECK_DEADLOCK FALSE
