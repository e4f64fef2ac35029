SPECIFICATION Spec
CONSTANTS
  Compiler = {c1, c2, c3}
  Module = {m1, m2, m3}
  None = None
INVARIANT GdbKnowsCallableCode
CHECK_DEADLOCK FALSE
