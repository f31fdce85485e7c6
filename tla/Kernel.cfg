SPECIFICATION Spec
CONSTANTS
  refresh = refresh
  save = save
  sample = sample
  idle = idle
  Task <- MCTask
  Idle = idle
  Priority <- MCPriority
  Wrap = 4
  Until <- MCUntil
  For <- MCFor
  Waits <- MCWaits
  MaxPended = 2
INVARIANTS
  TypeOK
  OnTime
  HighestRuns
PROPERTIES
  EmptyWhenSwitched
