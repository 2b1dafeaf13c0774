SPECIFICATION Spec
CONSTANTS
  r1 = r1
  r2 = r2
  v1 = v1
  v2 = v2
  Visitors = {v1}
  Requests = {r1, r2}
  Cap = 4
  MaxTurns = 4
SYMMETRY HandlersAlike
INVARIANTS
  HistoryTypeOK
  LastTurnsRemembered
  AnsweredTurnsSent
