SPECIFICATION Spec
CONSTANTS
  h1 = h1
  h2 = h2
  Agents <- SameName
  Handlers = {h1, h2}
  TTL = 2
  FetchMax = 1
  MaxClock = 6
  MaxRotations = 1
SYMMETRY HandlersAlike
INVARIANTS
  KubeTypeOK
  StalenessBounded
  OwnToken
