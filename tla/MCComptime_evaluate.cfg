SPECIFICATION FairSpec
CONSTANTS
  Program <- Programs
  InitialCapacity <- Capacity
  Outer <- OuterFrames
INVARIANTS TypeOK ResultIsMeaning DefinedIfShallow FramesNest
PROPERTIES Completes StaleOnlyIfMoved
CHECK_DEADLOCK FALSE
