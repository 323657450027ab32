CONSTANTS
  a = a
  b = b
  Node = {a, b}
  Caller = {u}
  Main = Main
  NoNode = NoNode
  NoProc = NoProc
  Subscription <- Two
  Sticky = TRUE
  HealthChecks = FALSE
  Refreshes = FALSE
  QuotaCooldown = 1
  FailureCooldown = 2
  Attempts = 2
SPECIFICATION HttpSpec
INVARIANTS HttpTypeOK
PROPERTIES ImplementsContract RetryLeavesNode FirstAnswerKept Answered
