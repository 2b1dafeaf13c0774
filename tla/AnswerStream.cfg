SPECIFICATION AnswerSpec
CONSTANTS
  Pieces = {"delta", "done", "error", "event", "id", "retry", "comment"}
  MaxInput = 5
INVARIANTS
  EventsInOrder
  AnswerIsShown
PROPERTIES
  AnswerAsSent
