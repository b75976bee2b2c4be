CONSTANTS
  PowerSequence <- ShortPowerSequence
  ResetSequence <- KupResetSequence
  MaxGlitches = 2
  MaxPresses = 2
SPECIFICATION Spec
INVARIANTS TypeOK RailOrder ResetsNeedPower FaultIsSafe OneTogglePerPress
PROPERTIES ResetOrder BootSettles LedShowsState
CHECK_DEADLOCK FALSE
