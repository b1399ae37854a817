SPECIFICATION FairSpec
CONSTANTS
  r1 = r1
  Day = 4
  Lengths = {2}
  Ids <- MCIds
  Shapes <- MCShapes
  SleepConfigs <- MCSleepConfigs
  Ahead = 2
  Lockout = 1
  Grace = 0
  UnlockDelay = 1
  MaxTime = 8
  MaxPlans = 1
  MaxFaults = 1
INVARIANTS
  TypeOK
  NoDoubleBooking
  StaysStopped
  Restorable
PROPERTIES
  LockedIn
  EditsApply
CHECK_DEADLOCK FALSE
