CONSTANTS
  PAGE_SIZE = 2
  MaxAddr = 9
  DEFAULT_PREALLOC_PAGES = 1
  None = None
  Procs = {p1, p2}
  Kinds <- MCKinds
  Ops <- MCOps
  Perms <- MCPerms
  InitMem <- MCInitMem
  MaxOps = 2

SPECIFICATION Spec
SYMMETRY Symmetry
INVARIANTS
  NothingLeaks
  CryptsWholeBuffer
  DigestOfStream
  
  RoundTrip
  
