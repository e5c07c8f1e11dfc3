SPECIFICATION Spec
CONSTANTS
  MaxRuns = 2
  Refusals = {"invalid"}
  Retries = FALSE
  Completions = TRUE
  Foreign = TRUE
  Expiry = FALSE
  Lag = TRUE
INVARIANTS RunBeforeJob NothingUnreported
PROPERTIES VerdictStands
CHECK_DEADLOCK FALSE
