SPECIFICATION Spec
CONSTANTS
  a = a
  b = b
  f = f
  g = g
  phone = phone
  Empty = Empty
  NoPeer = NoPeer
  Unset = Unset
  Unreadable = Unreadable
  Names = {phone}
  Ips = {"net"}
  Keys = {a}
  Interfaces = {1}
  FileNames = {}
  Texts <- NoTexts
  OptionSet <- WithSudo
  Starts <- NoWg
  Disturbances <- Nothing
  MaxEvents <- NoEvents
  MaxBytes = 1
  MaxNow = 1
INVARIANTS
  FailsWithoutWg
