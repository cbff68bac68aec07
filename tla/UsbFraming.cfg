SPECIFICATION Spec
CONSTANTS
  HeaderLen = 2
  HeaderCap = 3
  ChunkCap = 2
  MaxMsgs = 3
  MaxPayload = 3
INVARIANTS TypeOK RoutedWhole  Resynchronises
PROPERTIES KeepsDraining ImplementsPipe
CHECK_DEADLOCK FALSE
