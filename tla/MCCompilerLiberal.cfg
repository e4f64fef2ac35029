SPECIFICATION Spec
CONSTANTS
  memcmp = memcmp
  strlen = strlen
  libc = libc
  None = None
  Name = {n1, memcmp}
  Memcmp = memcmp
  Address = {a1}
  Process <- MCProcess
  Builder = {b1, b2, b3}
  File = {f1}
  MaxEntities = 2
  Liberties = {"same_function", "redeclare", "same_file", "memcmp_twice"}
SYMMETRY MCSymmetry
INVARIANT TypeOK
INVARIANT CallsStayLinked
PROPERTY PointersStayValid
CHECK_DEADLOCK FALSE
