SPECIFICATION MCSpec
CONSTANTS
  Approval = {p}
  Question = {q}
  Foreign = {f}
  Client = {c}
  MaxIds = 2
  MaxRestarts = 1
  MaxQueued = 4
  None = None
  Absent = Absent
  Text <- SmallTexts
PROPERTIES NobodyWaitsForever AmbiguityReported
INVARIANTS AnsweredOnce DeliveredWasWritten
CHECK_DEADLOCK FALSE
