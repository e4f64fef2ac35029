SPECIFICATION Spec
CONSTANTS
  Byte = 2
  Word = 2
  Halves <- MCHalves
  Length = 5
  MaxOperands = 2
  Liberties = {}
INVARIANT TypeOK
INVARIANT ValueIsTheCppValue
INVARIANT DivModRestores
CHECK_DEADLOCK FALSE
