SPECIFICATION Spec
CONSTANTS
  Off = Off
  Nil = Nil
  r1 = r1
  r2 = r2
  e1 = e1
  e2 = e2
  ada = ada
  ben = ben
  customer = customer
  x = x
  y = y
  Requests = {r1, r2}
  Emails = {e1, e2}
  MaxFaults = 1
  MaxChanges = 1
  Customers <- MCCustomers
  NoCustomer = "none"
  SharedGuest = "guest"
  StaffUsers = {"eve"}
  OnlineWindow = 2
  Throttle = 1
  MaxTime = 3
  HostUsers = {"ada", "cleo"}
  Requester = "cleo"
  Sockets = {1, 2, 3}
  UserOf <- MCUserOf
  Guests = {1, 3}
  Visitors = {3}
  Restricted = TRUE
  Assignee = "ada"
  Deliveries = {1}
  MaxJoined = 2
  Tickets = {1}
  Accounts = {7}
  GuestUser = 5
  Answerer = 9
  SecretConfigured = FALSE
  Ttl = 1
  MaxClock = 1
  MaxReplies = 1
  MaxGrants = 2
  MaxMails = 2
SYMMETRY Alike
CHECK_DEADLOCK FALSE
INVARIANTS TypeOK ScreenLaw AudienceLaw MailLaw AccessLaw
PROPERTY SeenOnlyForward
