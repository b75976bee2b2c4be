CONSTANTS
  W = 11
  LogTimerMax = 6
  Period1 = 3
  Period10 = 2
  PhyPeriod = 2
  MaxLap = 1
  Speeds = {1, 2}
  MaxResets = 1
SPECIFICATION Spec
CHECK_DEADLOCK FALSE
INVARIANTS TypeOK OnTimeUnlessSlipped SpeedIsTrue
PROPERTIES NeverEarly Boots
