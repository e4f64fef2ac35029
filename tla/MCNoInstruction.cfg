SPECIFICATION Spec
CONSTANTS
  Byte = 2
  Word = 2
  Halves <- MCHalves
  Length = 5
  MaxOperands = 2
  Liberties = {"no_instruction"}
INVARIANT AcceptedIsWellFormed
CHECK_DEADLOCK FALSE
