SPECIFICATION Spec
CONSTANTS
  Off = Off
  None = None
  r1 = r1
  r2 = r2
  ada = ada
  d1 = d1
  acme = acme
  beta = beta
  s1 = s1
  s2 = s2
  x = x
  y = y
  pending = pending
  closed = closed
  gold = gold
SYMMETRY Alike
CHECK_DEADLOCK FALSE
INVARIANTS TypeOK RecordsLaw 
PROPERTY StepsLaw
