SPECIFICATION Spec
CONSTANTS
  P_Factor = 2
  I_Factor = 5
  D_Factor = 0
  SCALING_FACTOR = 2
  MAX_I_TERM = 120
  MAX_OUT = 100
  MIN_TEMPERATURE = 50
  MAX_TEMPERATURE = 55
  OVRHT_TEMPERATURE = 105
  HEATER_OFF_TIME = 1
  BT_PRESS_DELAY_TIME = 1
  PidPeriod = 2
  SavePeriod = 2
  WatchdogPeriod = 3
  SemaphoreMax = 1
  Samples <- ThreeSamples
  BlankFlash = 65535
  TornValues <- TwoTornValues
  Faults <- AllFaults
INVARIANTS
  SettingValid
  BadSampleNoHeat
  StaleDriveBounded
  
  UnsavedBounded
PROPERTIES
  ImplementsThermostat
