CONSTANTS
  k1 = k1
  k2 = k2
  k3 = k3
  k4 = k4
  v1 = v1
  v2 = v2
  Key <- FourKeys
  Value <- MCValue
  hash <- MCHash
  InitialCapacity = 1
  Removals = FALSE
  Absent = Absent
SPECIFICATION MCSpec
INVARIANTS TypeOK AllocatesSlot HeldPointerGood Chained
PROPERTIES ImplementsDictionary RemovalsImplementDictionary InsertReturns
