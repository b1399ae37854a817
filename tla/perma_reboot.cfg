SPECIFICATION FairSpec
CONSTANTS
  d1 = d1
  d2 = d2
  Domains <- MCDomains
  Delay = 2
  MaxTime = 6
  MaxCrashes = 1
  MaxFailures = 0
PROPERTIES
  SurvivesReboot
CHECK_DEADLOCK FALSE
