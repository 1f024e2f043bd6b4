SPECIFICATION FairSpec
CONSTANTS
  Rules = {1}
  Tickets = {t1}
  Sweepers = {s1, s2}
  Bodies <- OneOfEach
  MaxTime = 2
  MaxEdits = 1
  MaxFaults = 1
CHECK_DEADLOCK FALSE
INVARIANTS TypeOK 
PROPERTY MatchedIsActedOn
