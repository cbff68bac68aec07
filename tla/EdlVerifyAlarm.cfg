SPECIFICATION Spec
CONSTANTS
  Chunk = 2
  MaxLen = 6
INVARIANT NoFalseAlarm
CHECK_DEADLOCK FALSE
