SPECIFICATION Spec
CONSTANTS
  memcmp = memcmp
  strlen = strlen
  libc = libc
  None = None
  Name = {n1, strlen, memcmp}
  Memcmp = memcmp
  Address = {a1, a2}
  Process <- MCProcess
  Builder = {b1, b2, b3}
  File = {f1, f2, f3}
  MaxEntities = 3
  Liberties = {}
SYMMETRY MCSymmetry
INVARIANT RefYieldsItsFunction
INVARIANT ExternalCallsReachDeclaration
INVARIANT MemcmpLinks
PROPERTY PointersStayValid
CHECK_DEADLOCK FALSE
