SPECIFICATION LiveSpec
CONSTANTS
  MaxCommit = 4
  PageSize = 1
  MaxResets = 0
  Merges = TRUE
  Rewrites = FALSE
  StaleCache = FALSE
PROPERTIES CatchesUp
CHECK_DEADLOCK FALSE
