SPECIFICATION Spec
CONSTANTS
  Thread = {t1, t2}
  Builder = {b1, b2, b3}
  None = None
  MaxFunctions = 3
  MaxDepth = 3
  Liberties = {"other_builder", "throw"}
INVARIANT LambdaFindsItsBuilder
INVARIANT LambdaWritesOwnFunction
INVARIANT IdleThreadHasNone
INVARIANT AssertStopsOnlyMixing
SYMMETRY Symmetry
CHECK_DEADLOCK FALSE
