CONSTANTS
  Frames <- Texts
  BufSize = 3
  MaxFrames = 3
SPECIFICATION Spec
PROPERTIES BatchesWhole
CHECK_DEADLOCK FALSE
