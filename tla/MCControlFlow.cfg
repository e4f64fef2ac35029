SPECIFICATION Spec
CONSTANTS
  MaxFunctions = 1
  MaxBlocks = 11
  MaxLines = 9
  MaxCode = 0
  MaxDepth = 5
  Liberties = {}
INVARIANTS
  ExitFlagTracksTerminator
  OnlyInsertionBlockOpen
  BranchTargetsPlaced
  LoopIsInnermost
  TextAgreesOnReachability
  NothingFallsOffTheEnd
CHECK_DEADLOCK FALSE
