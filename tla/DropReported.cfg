CONSTANTS
  W = 11
  LogTimerMax = 6
  Period1 = 3
  Period10 = 2
  PhyPeriod = 2
  MaxLap = 1
  Speeds = {2}
  MaxResets = 0
SPECIFICATION Spec
PROPERTIES DropReported
