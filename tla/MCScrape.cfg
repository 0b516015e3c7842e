SPECIFICATION Spec
CONSTANTS
  a = a
  b = b
  f = f
  g = g
  phone = phone
  Empty = Empty
  NoPeer = NoPeer
  Unset = Unset
  Unreadable = Unreadable
  Names = {phone}
  Ips = {"net"}
  Keys = {a, b}
  Interfaces = {1, 2}
  FileNames = {f, g}
  Texts <- ConfigTexts
  OptionSet <- EveryOption
  Starts <- EveryStart
  Disturbances <- EveryDisturbance
  MaxEvents <- TwoOrThree
  MaxBytes = 2
  MaxNow = 4
INVARIANTS
  TypeOK
  CountersInWindow
  EveryPeerOnce
  NoGhosts
  NamesMatchFiles
  RowsGrouped
  DelayInWindow
  FailureHasCause
