CONSTANTS
  Size = 3
  MaxWrites = 7
  ChecksSize = TRUE
  Torn = Torn
SPECIFICATION Spec
INVARIANT NoSlotRace
CHECK_DEADLOCK FALSE
