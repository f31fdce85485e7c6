SPECIFICATION Spec
CONSTANTS
  zero = zero
  one = one
  NoByte = NoByte
  Byte <- MCByte
  Zero = zero
  Strings <- MCStrings
  RxSize = 2
  TxSize = 2
INVARIANTS
  TypeOK
  OkMeansArmed
  TestedByteIsThere
PROPERTIES
  BuffersAreFifos
  WaitingIsSent
