SPECIFICATION Spec
CONSTANTS
  k1 = k1
  Keys = {k1}
  Limits <- SomeLimits
  DefaultLimit = 2
  MaxLimit = 2
  Minute = 2
  MaxNow = 7
INVARIANTS
  LimiterInv
  RefusedOnlyWhenBusy
  TwiceTheLimit
