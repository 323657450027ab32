CONSTANTS
  a = a
  b = b
  u = u
  v = v
  Node = {a, b}
  Caller = {u}
  Main = Main
  NoNode = NoNode
  NoProc = NoProc
  Subscription <- Swapping
  Sticky = FALSE
  HealthChecks = TRUE
  Refreshes = TRUE
  QuotaCooldown = 1
  FailureCooldown = 2
SPECIFICATION Spec
PROPERTIES DeadProbedAgain TakeReturns RefreshEnds
