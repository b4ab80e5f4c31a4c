CONSTANTS
  spelled <- MCSpelled
  Jobs <- MCJobs
  Parse <- MCParse
  Symbolize <- MCSymbolize
  FileSlots = 4
  Digits = {"1", "2"}
  LeftAssociative = FALSE
SPECIFICATION Spec
INVARIANTS TypeOK TreesAsWritten NamesResolve DeferredNamesStay ImportsResolve LoadedOnce LinksEveryFile
PROPERTIES StopsOnErrors Ends
CHECK_DEADLOCK FALSE
