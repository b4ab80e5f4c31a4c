CONSTANTS
  f = f
  m = m
  S = S
  g = g
  m1 = m1
  m2 = m2
  NoFunction = NoFunction
  Decl <- MCDecl
  Module <- MCModule
  NoDecl = NoFunction
  Programs <- CoreFamily
SPECIFICATION Spec
INVARIANTS TypeOK EmittedOnce CyclesRejected
PROPERTIES ImplementsResolution Termination
CHECK_DEADLOCK FALSE
