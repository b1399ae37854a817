SPECIFICATION FairSpec
CONSTANTS
  d1 = d1
  d2 = d2
  Domains <- MCDomains
  Delay = 2
  MaxTime = 6
  MaxCrashes = 2
  MaxFailures = 2
INVARIANTS
  TypeOK
  OnlyBlockedWait
  DurableUnlessFailed
  ListIsWatched
PROPERTIES
  KeepsDelay
  RequestsEnd
CHECK_DEADLOCK FALSE
