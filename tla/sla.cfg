SPECIFICATION Spec
CONSTANTS
  Tickets = {t1}
  Sweepers = {s1, s2}
  Wakers = {}
  Requests = {r1, r2}
  Updates <- SlaUpdates
  Minutes <- MCMinutes
  Window = 1
  MaxTime = 3
  MaxCrashes = 1
INVARIANTS
  TypeOK
  NoticeLaw
  
SYMMETRY Symmetry
