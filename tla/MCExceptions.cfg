SPECIFICATION ThrowingSpec
CONSTANTS
  MaxFunctions = 2
  MaxBlocks = 7
  MaxLines = 5
  MaxCode = 1
  MaxDepth = 4
  Liberties = {}
  Escapes = {"statement"}
INVARIANT TypeOK
INVARIANT OneFunctionAtATime
INVARIANT NoCodeAfterTerminator
INVARIANT LoopIsInnermost
INVARIANT LocationInOwnFunction
PROPERTY CompletedFunctionsFrozen
CHECK_DEADLOCK FALSE
