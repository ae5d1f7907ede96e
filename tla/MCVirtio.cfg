CONSTANTS
  Procs = {p1, p2}
  Minors = {d1, m2}
  Devices = {d1}
  Files = {f1, f2}
  Fds = {fd1, fd2}
  Sids = {s1}
  QUEUE_SIZE = 1
  None = None

SPECIFICATION FairSpec
INVARIANTS
  TypeOK
  RingHasHolderOnly
  AnswerIsOwn
  HostFilesOwned
PROPERTIES
 LocalCryptodev
