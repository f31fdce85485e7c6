SPECIFICATION Spec
CONSTANTS
  P_Factor = 2500
  I_Factor = 5
  D_Factor = 0
  SCALING_FACTOR = 1000
  MAX_I_TERM = 1073741823
  MAX_OUT = 450
  MIN_TEMPERATURE = 50
  MAX_TEMPERATURE = 300
  OVRHT_TEMPERATURE = 350
  HEATER_OFF_TIME = 900
  BT_PRESS_DELAY_TIME = 30
  PidPeriod = 1
  SavePeriod = 450
  WatchdogPeriod = 2
  SemaphoreMax = 0
  Samples <- OneSample
  BlankFlash = 65535
  TornValues <- NoTornValues
  Faults <- NoFaults
PROPERTIES
  OffMeansOff
