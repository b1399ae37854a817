SPECIFICATION Spec
CONSTANTS
  d1 = d1
  d2 = d2
  Domains <- MCDomains
  Plans <- MCPlans
  Beginnings <- MCBeginnings
  RuleLimit = 8
  MaxEvents = 3
INVARIANT TypeOK
INVARIANT RecordTrue
INVARIANT FallbackAgrees
PROPERTY PermaKeptByTheInformed
PROPERTY Settles
CHECK_DEADLOCK FALSE
