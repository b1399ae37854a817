SPECIFICATION Spec
CONSTANTS
  Durations <- MCDurations
  FocusLen = 2
  BreakLen = 1
  DoneLen = 1
  Cycles = 2
  UnlockDelay = 2
  KeepLock = FALSE
  Types <- Pomodoro
  PrayerLen = 2
  Horizon = 8
  MaxTime = 11
  MaxCrashes = 1
  MaxPrayers = 0
  MaxFailures = 0
  Prompt = TRUE
INVARIANT
  PhaseLeadsOn
CHECK_DEADLOCK FALSE
