CONSTANTS
  s = s  u = u  v = v  None = None
  Streams <- OneStream
  Unaries <- OneUnary
  Oversized <- NoneTooLong
  MaxFrames = 1
SPECIFICATION LiveSpec
PROPERTIES BrokenAnswered
CHECK_DEADLOCK FALSE
