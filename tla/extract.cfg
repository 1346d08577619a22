CONSTANTS
  Names <- MCNames
  Paths <- MCPaths
  BackupName <- MCBackupName
  Archives <- MCArchives
  Trees <- MCTrees
  Options <- MCOptions
SPECIFICATION Spec
INVARIANT TypeOK DirectoriesRestored DelayedOrder OldFilesKept SuccessfulExtraction
CHECK_DEADLOCK FALSE
