CONSTANTS
  Reg <- MCReg
  Sensor = {"IBCVIN"}
  Size <- MCSize
  Script <- MCScript
  Buffer <- MCBuffer
  RxDepth = 5
  TxDepth = 3
  HwDepth = 1
  MaxPolls = 1
  None = None
  Dummy = Dummy
  Filler = Filler
  Underrun = Underrun
  CS = CS
SPECIFICATION Spec
INVARIANTS TypeOK NoOverflow NoResidue CommandsFramed
PROPERTIES ServerCatchesUp ReadsAreAtomic
CHECK_DEADLOCK FALSE
