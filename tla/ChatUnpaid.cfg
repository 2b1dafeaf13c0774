SPECIFICATION Spec
CONSTANTS
  r1 = r1
  r2 = r2
  j1 = j1
  j2 = j2
  e1 = e1
  c1 = c1
  Requests = {r1, r2}
  Embeds = {e1}
  Jtis = {j1}
  EmbedOf <- OneEmbed
  MsgBudget <- TwoMessages
  TokBudget <- TightAndLoose
  DailyBudgets = {1, 2}
  MaxDaily = 2
  Prompts = {5}
  MaxPromptBytes = 5
  Deltas = {5}
  MaxDeltaBytes = 5
  MaxText = 10
  MaxDay = 1
  Connections = {c1}
  Durable = TRUE
INVARIANTS
  NoUnaccountedService
