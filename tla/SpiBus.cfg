SPECIFICATION FairSpec
CONSTANTS
  Words <- TwoWords
  Numbers <- TwoNumbers
  NumDigits = 3
  FifoSize = 2
INVARIANTS
  TypeOK
  SampleIsAnswer
  BusExclusive
  LitDigitShowsItself
  ScanCatchesUp
  PrioritiesRestored
PROPERTIES
  NoInversion
  RefreshCompletes
  SampleCompletes
