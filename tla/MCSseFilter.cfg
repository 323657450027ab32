CONSTANTS
  ToolText = {"one", "two", "read", "other"}
  Digest <- MCDigest
  OfficialTool <- MCOfficialTool
  Index = {0, 1}
  Request <- MCRequest
  Frame <- MCFrame
  MaxFrames = 4
SPECIFICATION Spec
INVARIANTS TypeOK InOrder FinishTruthful NoBuiltinCalls NamesRestored AggregateWithinStream
CHECK_DEADLOCK FALSE
