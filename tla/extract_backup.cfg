CONSTANTS
  Names <- MCNames
  Paths <- MCPaths
  BackupName <- MCBackupName
  Archives <- MCArchives
  Trees <- MCTrees
  Options <- MCOptions
SPECIFICATION Spec
INVARIANT ExtractedFileStays
CHECK_DEADLOCK FALSE
