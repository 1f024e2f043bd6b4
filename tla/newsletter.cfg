SPECIFICATION FairSpec
CONSTANTS
  Processes = {p1, p2}
  Requests = {r1}
  Contacts = {c1}
  BatchSize = 1
  RateLimit = 1
  MaxAttempts = 2
  Threshold = 1
  PauseAt = 1
  MaxRows = 1
  Reports = {"bounced"}
  MaxFaults = 1
CHECK_DEADLOCK FALSE
INVARIANTS TypeOK MailedOnlyWhenOwed
PROPERTIES ReportUndoneOnlyInHand EveryDeliverySettles
