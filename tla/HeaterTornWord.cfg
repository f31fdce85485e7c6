SPECIFICATION Spec
CONSTANTS
  P_Factor = 2
  I_Factor = 5
  D_Factor = 0
  SCALING_FACTOR = 2
  MAX_I_TERM = 120
  MAX_OUT = 100
  MIN_TEMPERATURE = 50
  MAX_TEMPERATURE = 300
  OVRHT_TEMPERATURE = 350
  HEATER_OFF_TIME = 1
  BT_PRESS_DELAY_TIME = 1
  PidPeriod = 2
  SavePeriod = 3
  WatchdogPeriod = 5
  SemaphoreMax = 1
  Samples <- TwoSamples
  BlankFlash = 65535
  TornValues <- AcceptedTornValue
  Faults <- PowerOnly
INVARIANTS
  SettingWithinLimits
