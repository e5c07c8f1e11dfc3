SPECIFICATION Spec
CONSTANTS
  Files <- MCFiles
  FolderOf <- MCFolderOf
  Templates <- MCTemplates
  Changes <- MCChanges
  Pulls <- MCPulls
  TemplateLists <- MCTemplateLists
  MaxSHA = 2
  MaxWorkflows = 2
  Lag = FALSE
INVARIANTS TypeOK FannedOut BranchOutlivesWorkflows
PROPERTIES DeletedWhenDone MarkedRunsReplaced
CHECK_DEADLOCK FALSE
