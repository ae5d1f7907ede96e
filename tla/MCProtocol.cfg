CONSTANTS
  Buffers <- MCBuffers
  MaxBytes = 50
  MAX_PACKET_LEN = 24
  LUNIX_DEBUG = TRUE
  IterLimit = 9
  lunix_sensor_cnt = 2

SPECIFICATION ProtocolSpec

INVARIANTS
  ProtocolTypeOK
  

CHECK_DEADLOCK FALSE
