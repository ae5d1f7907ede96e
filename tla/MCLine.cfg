CONSTANTS
  Buffers = {}
  MaxBytes = 1000
  MAX_PACKET_LEN = 300
  LUNIX_DEBUG = TRUE
  IterLimit = 50
  lunix_sensor_cnt = 2
  TTYs = {t1, t2}
  Packets <- MCPackets
  MaxPackets = 3
  Chunks = {1, 40}
  Aligned = TRUE

SPECIFICATION FairSpec

INVARIANTS
  Framing
  NeverOverflows
  OneTerminal


  

CHECK_DEADLOCK FALSE
