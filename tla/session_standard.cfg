SPECIFICATION Spec
CONSTANTS
  Durations <- MCDurations
  FocusLen = 2
  BreakLen = 1
  DoneLen = 1
  Cycles = 2
  UnlockDelay = 2
  KeepLock = TRUE
  Types <- Standard
  PrayerLen = 2
  Horizon = 7
  MaxTime = 9
  MaxCrashes = 2
  MaxPrayers = 1
  MaxFailures = 1
  Prompt = FALSE
INVARIANTS
  TypeOK
  DeadlinesAgree
  PrayerFreezes
  DurableUnlessFailed
  FocusIsBlocked
PROPERTY
  KeepsPromise
CHECK_DEADLOCK FALSE
