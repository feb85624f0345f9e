CONSTANTS
  Size = 3
  MaxWrites = 4
  ChecksSize = TRUE
  Torn = Torn
SPECIFICATION ShutdownSpec
INVARIANTS
  ShutdownTypeOK
  OnlyLateOrTwice
  OneWriter
  ExitKeepsLogs
  TypeOK
  NeverInvalid
  SizeCounts
  InOrder
PROPERTIES
  LoggedIsFlushed
  SignalEndsProcess
CHECK_DEADLOCK FALSE
