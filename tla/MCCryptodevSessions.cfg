CONSTANTS
  Procs = {p1, p2}
  Worker = w
  Structs = {o1, o2}
  Sids = {s1, s2}
  None = None

SPECIFICATION FairSpec
INVARIANTS
  IdsUnique
  OneCallAtATime
  NoUseAfterFree
PROPERTIES
  CallsReturn
CHECK_DEADLOCK FALSE
