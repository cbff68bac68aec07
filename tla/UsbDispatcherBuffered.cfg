SPECIFICATION Spec
CONSTANTS
  s1 = s1
  s2 = s2
  Streams <- MCStreams
  NoOne = NoOne
  LinkLoses = FALSE
  MaxData <- MCMaxData
  MaxWrites <- MCMaxWrites
INVARIANT BufferedDataIsReadable
CHECK_DEADLOCK FALSE
