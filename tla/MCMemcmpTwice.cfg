SPECIFICATION Spec
CONSTANTS
  memcmp = memcmp
  strlen = strlen
  libc = libc
  None = None
  Name = {n1, memcmp}
  Memcmp = memcmp
  Address = {a1}
  Process <- MCProcess
  Builder = {b1, b2}
  File = {f1, f2}
  MaxEntities = 3
  Liberties = {"memcmp_twice"}
SYMMETRY MCSymmetry
INVARIANT MemcmpLinks
CHECK_DEADLOCK FALSE
