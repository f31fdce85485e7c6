SPECIFICATION Spec
CONSTANTS
  BUTTN_NUM = 2
  FirstGive = 2
  RepeatAfter = 8
  RepeatFrom = 5
  SemaphoreMax = 10
  DrainEvery = 10
  MaxHold = 17
INVARIANTS
  TypeOK
  GivesFollowHold
  NoPressLost
  PressServed
