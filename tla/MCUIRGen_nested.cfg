SPECIFICATION ExecutionSpec
CONSTANTS
  Name <- MCName
  Stmt <- NestedStmt
  Program <- NestedProgram
  DeferSlots = 8
  MaxOutcomes = 3
INVARIANT FollowsTheSource
CHECK_DEADLOCK FALSE
