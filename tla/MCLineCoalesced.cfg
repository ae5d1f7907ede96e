CONSTANTS
  Buffers = {}
  MaxBytes = 1000
  MAX_PACKET_LEN = 300
  LUNIX_DEBUG = TRUE
  IterLimit = 50
  lunix_sensor_cnt = 2
  TTYs = {t1}
  Packets <- MCTwo
  MaxPackets = 2
  Chunks = {20}
  Aligned = FALSE

SPECIFICATION Spec

INVARIANTS
  StartsWithStartByte

CHECK_DEADLOCK FALSE
