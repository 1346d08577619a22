CONSTANTS
  Names = {1, 2}
  Depth = 2
  TempName = 9
  NULL = NULL
  Inodes = {0, 1, 2, 3}
  Trees <- MCTrees
  Levels = 3
  Budgets <- MCBudgets
SPECIFICATION Spec
INVARIANT RestoresTree EasyRestored RenamesEnd
