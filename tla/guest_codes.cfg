SPECIFICATION Spec
CONSTANTS
  Codes = {c1}
  Requests = {r1, r2, r3, r4}
  Clients = {k1, k2}
  Mailboxes = {b1}
  MaxAttempts = 2
  Lifetime = 1
  KeepFor = 0
  PerClient = 1
  PerMailbox = 3
  MaxTime = 2
CHECK_DEADLOCK FALSE
INVARIANTS TypeOK SpentOnce GuessesBounded OwnerNotLockedOut
PROPERTY KeepsPromise
