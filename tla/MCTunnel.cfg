CONSTANTS
  Script <- MCScript
SPECIFICATION Spec
INVARIANTS TunnelTypeOK TunnelIntact ConnOwned
PROPERTIES DialReturns
CHECK_DEADLOCK FALSE
