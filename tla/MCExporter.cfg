SPECIFICATION Spec
CONSTANTS
  a = a
  f = f
  Empty = Empty
  NoPeer = NoPeer
  Unset = Unset
  Unreadable = Unreadable
  Nobody = Nobody
  Names = {}
  Ips = {"net"}
  Keys = {a}
  Interfaces = {1}
  FileNames = {f}
  Texts <- SomeTexts
  OptionSet <- SafeOptions
  Starts <- SafeStarts
  Clients = {c1, c2}
  Requests <- Scrapes
  Password = FALSE
  MaxFds = 2
  ScrapeFds = 1
  MaxRequests = 2
  Disturbances <- SafeKinds
  MaxEvents <- SafeEvents
  MaxBytes = 2
  MaxNow = 1
CHECK_DEADLOCK FALSE
INVARIANTS
  ScrapesOneByOne
PROPERTIES
  ImplementsServer
  CountersNeverGoBack
