SPECIFICATION Spec
CONSTANTS
  MaxCommit = 2
  PageSize = 1
  MaxResets = 0
  Merges = FALSE
  Rewrites = FALSE
  StaleCache = FALSE
PROPERTIES NoReplay
CHECK_DEADLOCK FALSE
