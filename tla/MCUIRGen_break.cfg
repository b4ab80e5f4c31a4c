SPECIFICATION ExecutionSpec
CONSTANTS
  Name <- MCName
  Stmt <- BreakStmt
  Program <- BreakProgram
  DeferSlots = 8
  MaxOutcomes = 3
INVARIANT FollowsTheSource
CHECK_DEADLOCK FALSE
