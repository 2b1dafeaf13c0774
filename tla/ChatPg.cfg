SPECIFICATION FairSpec
CONSTANTS
  r1 = r1
  r2 = r2
  j1 = j1
  j2 = j2
  e1 = e1
  c1 = c1
  Requests = {r1, r2}
  Embeds = {e1}
  Jtis = {j1}
  EmbedOf <- OneEmbed
  MsgBudget <- TwoMessages
  TokBudget <- TwoTokens
  DailyBudgets <- NegativeOrTwo
  MaxDaily = 2
  Prompts = {4}
  MaxPromptBytes = 5
  Deltas = {4}
  MaxDeltaBytes = 5
  MaxText = 8
  MaxDay = 0
  Connections = {c1}
  Durable = TRUE
PROPERTIES
  ImplementsDailyMeter
  ImplementsSessionMeter
  SpendSurvives
  HandlersReturn
