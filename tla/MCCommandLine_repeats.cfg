SPECIFICATION Spec
CONSTANTS
  Unset = Unset
  PortNumbers <- Ports
  Addresses <- SomeAddresses
  Values <- MoreValues
  ArgVectors <- TwoInterfaces
  Environments <- JustNoEnv
  Sockets <- Free
CHECK_DEADLOCK FALSE
INVARIANTS
  RepeatsAccepted
