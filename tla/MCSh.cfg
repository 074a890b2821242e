SPECIFICATION Spec
CONSTANTS
  Proc = {1, 2, 3, 4, 5}
  Ancestor = 0
  NOFILE = 5
  NFILE = 4
  NPIPE = 2
  Inode = {"console", "file"}
  MAXARGS = 3
  AnyCalls = 3
  Lines <- MCLines
INVARIANTS RefsExact PipesExact PlumbedRight
PROPERTY PromptReturns
CHECK_DEADLOCK FALSE
