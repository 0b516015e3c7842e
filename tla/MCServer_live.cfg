SPECIFICATION FairSpec
CONSTANTS
  Nobody = Nobody
  Clients = {c1, c2, c3}
  Requests <- FewRequests
  Password = FALSE
  MaxFds = 2
  ScrapeFds = 1
  MaxRequests = 1
CHECK_DEADLOCK FALSE
INVARIANTS
  TypeOK
  FdsAccounted
PROPERTIES
  EveryRequestSettled
  WaitingIsAccepted
  HungUpIsClosed
