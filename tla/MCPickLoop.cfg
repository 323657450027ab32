CONSTANTS
  a = a
  b = b
  c = c
  Node = {a, b, c}
  NoNode = NoNode
  Lists <- MCLists
  MaxCooling = 2
SPECIFICATION Spec
INVARIANTS TypeOK PicksAsSpecified RotationEven
PROPERTY AlwaysAnswers
CHECK_DEADLOCK FALSE
