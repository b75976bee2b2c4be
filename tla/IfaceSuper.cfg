CONSTANTS
  PowerSequence <- IfacePowerSequence
  ResetSequence <- IfaceResetSequence
  MaxGlitches = 1
  LogTimerMax = 5
  BlinkDelay = 2
  Slack = 1
SPECIFICATION Spec
INVARIANTS TypeOK RailOrder FaultIsDark
PROPERTIES PgoodLedTruth
CHECK_DEADLOCK FALSE
