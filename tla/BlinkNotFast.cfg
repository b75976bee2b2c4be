CONSTANTS
  PowerSequence <- IfacePowerSequence
  ResetSequence <- IfaceResetSequence
  MaxGlitches = 0
  LogTimerMax = 5
  BlinkDelay = 2
  Slack = 1
SPECIFICATION Spec
PROPERTIES BlinkNotFast
CHECK_DEADLOCK FALSE
