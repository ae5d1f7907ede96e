CONSTANTS
  Procs = {p1, p2}
  Files = {f1}
  Writer = Writer
  NoOne = NoOne
  MaxClock = 2
  MaxUpdates = 2
  MaxPos = 4
  TextLen <- MCTextLen
  Counts = {1, 2, 3}
  PosCopied = FALSE

SPECIFICATION Spec

INVARIANTS
  SharedTextNotTorn

SYMMETRY MCSymmetry
