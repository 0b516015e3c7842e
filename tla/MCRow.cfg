SPECIFICATION Spec
CONSTANTS
  Tokens <- SomeTokens
  LabelLists <- SomeLists
  MetricName = "total"
  Number = "1"
CHECK_DEADLOCK FALSE
INVARIANTS
  TypeOK
  PlainRowReadsBack
  NothingForgedInRow
