SPECIFICATION Spec
CONSTANTS
  MaxCommit = 2
  PageSize = 1
  MaxResets = 1
  Merges = FALSE
  Rewrites = TRUE
  StaleCache = TRUE
PROPERTIES FeedImplemented AppliedOnce
CHECK_DEADLOCK FALSE
