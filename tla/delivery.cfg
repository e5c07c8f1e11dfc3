SPECIFICATION Spec
CONSTANTS
  MaxPush = 2
  MaxEdits = 1
  MaxCopies = 1
  Handlers = {h1, h2}
  MaxAttempts = 2
INVARIANTS TypeOK NoPushForgotten
PROPERTIES NothingTakenBack PushSynced
CHECK_DEADLOCK FALSE
