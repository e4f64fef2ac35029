SPECIFICATION RepeatingSpec
CONSTANTS
  MaxFunctions = 1
  MaxBlocks = 5
  MaxLines = 5
  MaxCode = 1
  MaxReads = 1
  MaxDepth = 4
  Liberties = {}
PROPERTY RunsAsTheTextSays
CHECK_DEADLOCK FALSE
