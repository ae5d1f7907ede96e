CONSTANTS
  lunix_sensor_cnt = 3
  N_LUNIX_MSR = 3
  MaxLoads = 3
  MaxOpen = 2
  AttachPhases = {"live"}

SPECIFICATION Spec

INVARIANTS
  
  LosesOneSensorAtMost
  

CHECK_DEADLOCK FALSE
