SPECIFICATION Spec
CONSTANTS
  MaxFunctions = 2
  MaxBlocks = 8
  MaxLines = 8
  MaxCode = 0
  MaxDepth = 4
  Liberties = {"dead_code", "nested_function", "exit_in_condition"}
INVARIANT IInv
INVARIANT LoopIsInnermost
INVARIANT TextNeverHidesLiveCode
CHECK_DEADLOCK FALSE
