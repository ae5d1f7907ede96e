CONSTANTS
  Procs = {p1, p2}
  Files = {f1}
  Writer = Writer
  NoOne = NoOne
  MaxClock = 2
  MaxUpdates = 2
  MaxPos = 4
  TextLen <- MCTextLen
  Counts = {2}
  PosCopied = TRUE

SPECIFICATION FairSpec

INVARIANTS
  TypeOK
  SemaphoreExclusive
  PairsGoTogether
  NoLostWakeup
  TextNotTorn

PROPERTIES
  NeverBackwards
  BlockedReaderServed
