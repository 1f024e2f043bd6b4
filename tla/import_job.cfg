SPECIFICATION FairSpec
CONSTANTS
  tag = tag
  first = first
  last = last
  broken = broken
  rating = rating
  NoParent = NoParent
  Records = {tag, broken, first, last, rating}
  Pages <- MCPages
  Parent <- MCParent
  Invalid = {broken}
  Found = {tag}
  Single = {rating}
  Runs = {w1, w2}
  Requests = {q1, q2, q3}
  MaxFaults = 1
CHECK_DEADLOCK FALSE
INVARIANTS TypeOK RecordsImported
PROPERTIES  EveryImportSettles
