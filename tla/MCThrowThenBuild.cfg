SPECIFICATION Spec
CONSTANTS
  Thread = {t1, t2}
  Builder = {b1, b2, b3}
  None = None
  MaxFunctions = 2
  MaxDepth = 3
  Liberties = {"throw"}
INVARIANT AssertionsHold
SYMMETRY Symmetry
CHECK_DEADLOCK FALSE
