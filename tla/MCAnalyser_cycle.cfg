CONSTANTS
  f = f
  m = m
  S = S
  g = g
  m1 = m1
  m2 = m2
  NoFunction = NoFunction
  Decl <- MCDecl
  Module <- MCModule
  NoDecl = NoFunction
  Programs <- CoreFamily
SPECIFICATION Spec
INVARIANT CycleErrorsAreReal
CHECK_DEADLOCK FALSE
