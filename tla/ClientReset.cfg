SPECIFICATION Spec
CHECK_DEADLOCK FALSE
CONSTANTS
  c1 = c1
  c2 = c2
  c3 = c3
  Callers = {c1, c2}
  MaxExchanges = 4
  MaxResets = 1
INVARIANTS
  ResetDrops
