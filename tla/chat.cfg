SPECIFICATION FairSpec
CONSTANTS
  a1 = a1
  sales = sales
  Chats = {c1}
  Agents = {a1}
  Departments = {sales}
  Rules <- MCRules
  Requests = {r1, r2, r3}
  Cleaners = {k1}
  MaxTime = 3
  IdleAfter = 1
  TokenLife = 1
CHECK_DEADLOCK FALSE
INVARIANTS TypeOK 
PROPERTIES RevivedOnlyByRace IdleChatEnds
