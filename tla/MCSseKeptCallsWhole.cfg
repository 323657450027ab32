CONSTANTS
  ToolText = {"one", "two", "read", "other"}
  Digest <- MCDigest
  OfficialTool <- MCOfficialTool
  Index = {0, 1}
  Request <- MCRequest
  Frame <- MCFrame
  MaxFrames = 4
SPECIFICATION Spec
INVARIANT KeptCallsWhole
CHECK_DEADLOCK FALSE
