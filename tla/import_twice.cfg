SPECIFICATION Spec
CONSTANTS
  tag = tag
  first = first
  last = last
  broken = broken
  rating = rating
  NoParent = NoParent
  Records = {first}
  Pages <- OnePage
  Parent <- MCParent
  Invalid = {}
  Found = {}
  Single = {}
  Runs = {w1, w2}
  Requests = {q1, q2, q3}
  MaxFaults = 0
CHECK_DEADLOCK FALSE
INVARIANT NothingTwice
