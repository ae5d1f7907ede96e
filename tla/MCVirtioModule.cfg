CONSTANTS
  Procs = {p1, p2}
  Devs = {d1, d2}
  Structs = {c1, c2, c3}
  CRYPTO_NR_DEVICES = 2
  MaxLoads = 2
  None = None

SPECIFICATION Spec
INVARIANTS
  FileHasDevice
  GoneWithoutTrace
  CrashOnlyDuringInit
PROPERTIES
  MinorsNeverReused
