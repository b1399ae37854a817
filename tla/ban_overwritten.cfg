SPECIFICATION Spec
CONSTANTS
  d1 = d1
  Modes <- MCModes
  Domains <- MCDomains
  MaxThreads = 2
  MaxFaults = 0
INVARIANTS
  BanIsAbsolute
CHECK_DEADLOCK FALSE
