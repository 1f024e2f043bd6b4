SPECIFICATION FairSpec
CONSTANTS
  Hooks = {h1, h2}
  Events = {e1}
  Sweepers = {s1, s2}
  Requests = {q1}
  MaxRetries = 2
  MaxFaults = 1
CHECK_DEADLOCK FALSE
INVARIANTS TypeOK SendsLaw
PROPERTY FailedIsRetried
