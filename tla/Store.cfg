SPECIFICATION Spec
CONSTANTS
  i1 = i1
  i2 = i2
  p1 = p1
  p2 = p2
  p3 = p3
  o1 = o1
  o2 = o2
  x1 = x1
  Null = Null
  Bad = Bad
  None = None
  Ids = {i1, i2}
  Keys = {p1, p2}
  Origins = {o1, o2}
  Lists <- OneList
  Patches <- MixedPatches
  Addrs = {1, 2, 3}
  MaxCap = 2
  Exchanges = {x1}
SYMMETRY IdsAndKeysAlike
INVARIANTS
  StoreWellFormed
  IndexConsistent
  RetiredKeysStayDead
  ListsNotShared
  ExchangeKeepsItsList
PROPERTIES
  AcceptedListIsStored
CHECK_DEADLOCK FALSE
