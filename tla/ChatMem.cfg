SPECIFICATION Spec
CONSTANTS
  r1 = r1
  r2 = r2
  j1 = j1
  j2 = j2
  e1 = e1
  c1 = c1
  Requests = {r1, r2}
  Embeds = {e1}
  Jtis = {j1, j2}
  EmbedOf <- OneEmbed
  MsgBudget <- TwoMessages
  TokBudget <- TightAndLoose
  DailyBudgets = {3}
  MaxDaily = 3
  Prompts = {0, 5}
  MaxPromptBytes = 5
  Deltas = {3}
  MaxDeltaBytes = 3
  MaxText = 9
  MaxDay = 1
  Connections = {}
  Durable = FALSE
SYMMETRY HandlersAlike
INVARIANTS
  WellFormed
  MessagesConserved
  DeltasChargedOnce
  LedgersAgree
  DailyOvershootBounded
  SessionOvershootBounded
