SPECIFICATION Spec
CONSTANTS
  Interfaces <- TwoInterfaces
  JsonKeys <- Names
  Nested = Nested
  MaxNumber = 9
  Now = 5
  Worlds <- ShortNames
  OptionSet <- Defaults
  Targets <- JustAll
CHECK_DEADLOCK FALSE
INVARIANTS
  QuotesEscaped
