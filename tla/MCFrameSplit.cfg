CONSTANTS
  Frames <- Texts
  BufSize = 3
  MaxFrames = 3
SPECIFICATION Spec
INVARIANTS CharactersWhole
CHECK_DEADLOCK FALSE
