CONSTANTS
  Procs = {p1, p2, p3}
  DEF_COP_RINGSIZE = 1
  MAX_COP_RINGSIZE = 2
  MaxJobs = 3

SPECIFICATION FairSpec
INVARIANTS
  ItemsAccounted
  OnceAndInOrder
  NoLostWakeup
  NothingOutlivesFile
PROPERTIES
  JobsFinish
