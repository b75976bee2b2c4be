SPECIFICATION BusSpec
CONSTANTS
  AddrBits = 2
  DataBits = 2
  Preamble = 2
  PhyAddr <- MCPhyAddr
  MmdCtrl <- MCMmdCtrl
  MmdData <- MCMmdData
  DataNoInc = 1
  Target <- MCTarget
  Status <- MCStatus
INVARIANTS
  BusTypeOK
  NoContention
PROPERTY
  CallsAreAtomic
