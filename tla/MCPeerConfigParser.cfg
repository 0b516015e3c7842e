SPECIFICATION Spec
CONSTANTS
  a = a
  b = b
  phone = phone
  tablet = tablet
  net = net
  Empty = Empty
  Keys = {a, b}
  Names = {phone, tablet}
  Ips = {net}
  Texts <- MCTexts
CHECK_DEADLOCK FALSE
INVARIANTS
  TypeOK
  BlocksAreCut
  ParsesAsSpecified
