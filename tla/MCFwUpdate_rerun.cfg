CONSTANTS
  WordsPerPacket = 2
  Files <- SmallImages
  RomWords = 8
  Attempts = 2
  Faults = 1
  PulsesPin = FALSE
SPECIFICATION Spec
INVARIANTS SuccessMeansImage
CHECK_DEADLOCK FALSE
