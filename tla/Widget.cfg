SPECIFICATION Spec
CHECK_DEADLOCK FALSE
CONSTANTS
  t1 = t1
  t2 = t2
  p1 = p1
  p2 = p2
  Turns = {t1, t2}
  HostTexts = {t2}
  Opens = {p1}
  Resets = {p2}
  MaxDeltas = 1
  MaxErrors = 1
  Mode = "popup"
INVARIANTS
  ElementTypeOK
  ClearedStaysCleared
  ScreenIsCurrent
PROPERTIES
  QuestionsStay
  SubmittedIsSent
  NodesKept
  InputComesBack
