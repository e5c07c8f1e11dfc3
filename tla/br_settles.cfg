SPECIFICATION LiveSpec
CONSTANTS
  Files <- MCFiles
  FolderOf <- MCFolderOf
  Templates <- MCTemplates
  Changes <- MCChanges
  Pulls <- MCPulls
  TemplateLists <- OneTemplateList
  MaxSHA = 2
  MaxWorkflows = 3
  MaxFanOut = 1
  Lag = FALSE
PROPERTIES BranchSettles
CHECK_DEADLOCK FALSE
