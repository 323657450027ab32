CONSTANTS
  s = s  u = u  v = v  None = None
  Streams <- OneStream
  Unaries <- TwoUnaries
  Oversized <- VTooLong
  MaxFrames = 2
SPECIFICATION LiveSpec
INVARIANTS BridgeTypeOK OneCore OwnReply HeadAwaitsVerdict NoLostCall
PROPERTIES EndedStaysEnded UnbrokenAnswered
CHECK_DEADLOCK FALSE
