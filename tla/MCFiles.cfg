SPECIFICATION MCSpec
CONSTANTS
  a = a
  b = b
  p = p
  q = q
  x = x
  y = y
  z = z
  None = None
  Process <- MCProcess
  Plugin <- MCPlugin
  Kinds <- MCKinds
  MaxVersion = 2
  Client <- MCClient
  Inode = {1, 2, 3, 4}
SYMMETRY Sym
INVARIANTS
  CacheWhole
  LockExcludes
