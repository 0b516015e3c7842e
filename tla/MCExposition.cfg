SPECIFICATION Spec
CONSTANTS
  Interfaces <- TwoInterfaces
  JsonKeys <- Names
  Nested = Nested
  MaxNumber = 9
  Now = 5
  Worlds <- ManyWorlds
  OptionSet <- AnyOptions
  Targets <- AllAndOne
CHECK_DEADLOCK FALSE
INVARIANTS
  ReadsBack
  NothingForged
  PanicsOnUnprintable
