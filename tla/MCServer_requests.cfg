SPECIFICATION Spec
CONSTANTS
  Nobody = Nobody
  Clients = {c1, c2}
  Requests <- AllRequests
  Password = TRUE
  MaxFds = 2
  ScrapeFds = 1
  MaxRequests = 2
CHECK_DEADLOCK FALSE
INVARIANTS
  NoResponseLost
PROPERTIES
  Implements
  OnlyOwnFaultCloses
