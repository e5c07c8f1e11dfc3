SPECIFICATION LiveSpec
CONSTANTS
  Repository = repo
  b1 = b1
  w1 = w1
  w2 = w2
  Branches = {b1}
  Workflows = {w1, w2}
  BranchOf <- MCBranchOf
INVARIANTS TypeOK NoOrphans
PROPERTIES CancelledInTime NothingStranded
CHECK_DEADLOCK FALSE
