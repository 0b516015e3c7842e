SPECIFICATION FairSpec
CONSTANTS
  Unset = Unset
  PortNumbers <- Ports
  Addresses <- SomeAddresses
  Values <- SomeValues
  ArgVectors <- TokensUpTo4
  Environments <- SomeEnvironments
  Sockets <- FreeOrTaken
CHECK_DEADLOCK FALSE
INVARIANTS
  OptionsAsGiven
PROPERTIES
  StartsUnlessMisused
