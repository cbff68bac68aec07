SPECIFICATION Spec
CONSTANTS
  s1 = s1
  s2 = s2
  Streams <- MCStreams
  NoOne = NoOne
  LinkLoses = TRUE
  MaxData <- MCMaxData
  MaxWrites <- MCMaxWrites
INVARIANTS TypeOK FramesIntact RegistryExact StreamIntact AckIsOwn CloseReachesDevice
CHECK_DEADLOCK FALSE
