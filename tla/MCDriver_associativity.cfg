CONSTANTS
  spelled <- MCSpelled
  Jobs <- MCJobs
  Parse <- MCParse
  Symbolize <- MCSymbolize
  FileSlots = 4
  Digits = {"1", "2"}
  LeftAssociative = TRUE
SPECIFICATION Spec
INVARIANT TreesAsWritten
CHECK_DEADLOCK FALSE
