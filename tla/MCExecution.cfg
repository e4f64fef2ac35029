SPECIFICATION BoundedSpec
CONSTANTS
  MaxFunctions = 1
  MaxBlocks = 8
  MaxLines = 5
  MaxCode = 2
  MaxReads = 2
  MaxDepth = 4
  Liberties = {"exit_in_condition", "dead_code"}
PROPERTY PureConditionsReadRight
PROPERTY ImplementsTheCalls
PROPERTY ExecutesTheCalls
PROPERTY LoopFreeFunctionsFinish
CHECK_DEADLOCK FALSE
