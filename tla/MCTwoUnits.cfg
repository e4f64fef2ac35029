SPECIFICATION Spec
CONSTANTS
  Variable = {y, z}
  Callee = {f}
  Unit = {u1, u2}
  Data = {d1, d2}
  None = None
  MaxLoads = 2
  Liberties = {"two_units"}
INVARIANT VariablesReadAsWritten
CHECK_DEADLOCK FALSE
