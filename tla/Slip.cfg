SPECIFICATION Spec
CONSTANTS
  Plain = {"x"}
  END = "END"
  ESC = "ESC"
  ESC_END = "ESC_END"
  ESC_ESC = "ESC_ESC"
  Payloads <- MCPayloads
  MaxPackets = 2
  MaxNoise = 2
  TxSize = 2
  RxSize = 2
  max_packet_size = 2
INVARIANTS
  TypeOK
  Confined
