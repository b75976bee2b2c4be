CONSTANTS
  NChan = 2
  RxLines = 1
  MaxResets = 1
SPECIFICATION Spec
INVARIANTS TypeOK OneCoil IdleAgrees
PROPERTIES PulseEnds OnlyAsTold
CHECK_DEADLOCK FALSE
