SPECIFICATION Spec
CONSTANTS
  Files <- MCFiles
  FolderOf <- MCFolderOf
  Templates <- MCTemplates
  Changes <- OneChange
  Pulls <- MCPulls
  TemplateLists <- OneTemplateList
  MaxSHA = 2
  MaxWorkflows = 2
  Lag = TRUE
INVARIANTS NothingForgotten
CHECK_DEADLOCK FALSE
