SPECIFICATION Spec
CONSTANTS
  Paths <- MCPaths
  Inodes = {1, 2, 3}
  Settings <- MCSettings
  MaxErrors = 1
INVARIANTS NeverAborts
CHECK_DEADLOCK FALSE
