SPECIFICATION Spec
CONSTANTS
  Paths <- MCPaths
  Inodes = {1, 2, 3}
  Settings <- MCSettings
  MaxErrors = 1
INVARIANTS CompleteWhenSuccessful NothingLost WarnsRightly
CHECK_DEADLOCK FALSE
