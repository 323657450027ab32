CONSTANTS
  a = a
  b = b
  u = u
  v = v
  Node = {a, b}
  Caller = {u, v}
  Main = Main
  NoNode = NoNode
  NoProc = NoProc
  Subscription <- Changing
  Sticky = TRUE
  HealthChecks = TRUE
  Refreshes = TRUE
  QuotaCooldown = 1
  FailureCooldown = 2
SPECIFICATION SafetySpec
SYMMETRY CallerSymmetry
INVARIANTS TypeOK PoolIndexed LoadsOnce OneBatch OpenMeansProbing
PROPERTIES SwitchesToHealthy VerdictsKept CooldownsHonoured StickyStays ServesBest
