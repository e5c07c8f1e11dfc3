SPECIFICATION LiveSpec
CONSTANTS
  MaxRuns = 2
  Refusals = {"transient"}
  Retries = TRUE
  Completions = FALSE
  Foreign = FALSE
  Expiry = TRUE
  Lag = FALSE
INVARIANTS TypeOK SuccessIsEarned
PROPERTIES CancelledBeforeGone RunNeverReplaced GitHubHearsFirst VerdictReported JobStarts DeletionEnds
CHECK_DEADLOCK FALSE
