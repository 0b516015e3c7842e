SPECIFICATION FairSpec
CONSTANTS
  a = a
  f = f
  Empty = Empty
  NoPeer = NoPeer
  Unset = Unset
  Unreadable = Unreadable
  Nobody = Nobody
  Names = {}
  Ips = {"net"}
  Keys = {a}
  Interfaces = {1}
  FileNames = {f}
  Texts <- SomeTexts
  OptionSet <- LiveOptions
  Starts <- LiveStarts
  Clients = {c1, c2}
  Requests <- ScrapeOrNot
  Password = FALSE
  MaxFds = 3
  ScrapeFds = 1
  MaxRequests = 1
  Disturbances <- LiveKinds
  MaxEvents <- LiveEvents
  MaxBytes = 2
  MaxNow = 2
CHECK_DEADLOCK FALSE
PROPERTIES
  Served
  FreshSinceSent
