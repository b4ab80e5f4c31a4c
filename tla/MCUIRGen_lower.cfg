SPECIFICATION ExecutionSpec
CONSTANTS
  Name <- MCName
  Stmt <- MCStmt
  Program <- MCProgram
  DeferSlots = 8
  MaxOutcomes = 3
INVARIANTS TypeOK BranchesStay ScopesNest FollowsTheSource OneTerminator RunsInItsBlocks
PROPERTY EveryRunReturns
CHECK_DEADLOCK FALSE
