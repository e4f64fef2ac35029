SPECIFICATION ThrowingSpec
CONSTANTS
  MaxFunctions = 2
  MaxBlocks = 6
  MaxLines = 5
  MaxCode = 1
  MaxDepth = 4
  Liberties = {}
  Escapes = {"loop"}
PROPERTY StrayExitIsCaught
CHECK_DEADLOCK FALSE
