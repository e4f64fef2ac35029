SPECIFICATION Spec
CONSTANTS
  Byte = 2
  Word = 2
  Halves <- MCHalves
  Length = 5
  MaxOperands = 2
  Liberties = {"bool_sum"}
INVARIANT ValueIsTheCppValue
CHECK_DEADLOCK FALSE
