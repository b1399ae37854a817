SPECIFICATION FairSpec
CONSTANTS
  d1 = d1
  Modes <- MCModes
  Domains <- MCDomains
  MaxThreads = 2
  MaxFaults = 2
INVARIANTS
  TypeOK
  PermaKept
  IdleIsClean
  BanHolds
PROPERTIES
  FocusGetsBlocked
  PermaGetsBlocked
CHECK_DEADLOCK FALSE
