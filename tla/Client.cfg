SPECIFICATION Spec
CHECK_DEADLOCK FALSE
CONSTANTS
  c1 = c1
  c2 = c2
  c3 = c3
  Callers = {c1, c2, c3}
  MaxExchanges = 6
  MaxResets = 1
SYMMETRY CallersAlike
INVARIANTS
  ClientTypeOK
  NeverSentTwice
  OneFreshRetry
  OneExchange
  ExpiredMeansRefused
