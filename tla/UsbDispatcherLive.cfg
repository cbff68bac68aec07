SPECIFICATION Spec
CONSTANTS
  s1 = s1
  s2 = s2
  Streams <- MCStreams
  NoOne = NoOne
  LinkLoses = FALSE
  MaxData <- MCOneDatum
  MaxWrites <- MCMaxWrites
PROPERTIES AckFlows UnplugWakes
CHECK_DEADLOCK FALSE
