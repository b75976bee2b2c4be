SPECIFICATION Spec
CONSTANT
  MaxResets = 1
INVARIANTS
  TypeOK
  PhysAlive
  RatesMatch
PROPERTIES
  NoMissedDrop
  Boots
CHECK_DEADLOCK FALSE
