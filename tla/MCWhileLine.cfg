SPECIFICATION Spec
CONSTANTS
  MaxFunctions = 1
  MaxBlocks = 4
  MaxLines = 4
  MaxCode = 1
  MaxDepth = 3
  Liberties = {}
INVARIANTS
  BranchShowsItsStatement
CHECK_DEADLOCK FALSE
