SPECIFICATION Spec
CONSTANTS
  Requests <- MCRequests
  NRegs = 2
  Size = 2
  RxSize = 3
  TxSize = 3
INVARIANTS
  TypeOK
  OneAnswer
  WholeAnswers
  QueuedIsArmed
