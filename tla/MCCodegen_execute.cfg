CONSTANTS
  Jobs <- MCJobs
  MaxStatements = 4
  UsizeBits = 4
SPECIFICATION Spec
INVARIANTS MemoryMeans StopsWhenMeant RegistersFollowABI
CHECK_DEADLOCK FALSE
