CONSTANTS
  Size = 3
  MaxWrites = 7
  ChecksSize = FALSE
  Torn = Torn
SPECIFICATION Spec
INVARIANT NeverInvalid
CHECK_DEADLOCK FALSE
