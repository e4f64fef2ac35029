SPECIFICATION Spec
CONSTANTS
  MaxFunctions = 2
  MaxBlocks = 4
  MaxLines = 5
  MaxCode = 1
  MaxDepth = 3
  Liberties = {"nested_function"}
PROPERTIES
  CompletedFunctionsFrozen
CHECK_DEADLOCK FALSE
