SPECIFICATION LiveSpec
CONSTANTS
  MaxCommit = 3
  PageSize = 1
  MaxResets = 1
  Merges = FALSE
  Rewrites = FALSE
  StaleCache = FALSE
INVARIANTS TypeOK RepoOutlivesBranches
PROPERTIES AckOnlyIfApplied CursorMarksProgress CatchesUp FinalizesDeletion
CHECK_DEADLOCK FALSE
