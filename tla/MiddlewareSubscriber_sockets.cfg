CONSTANTS
  Subs = {"blocks1", "blocks2", "account"}
  TargetOf <- MCTargetOf
  Invalid = {"ak_1"}
  MaxSockets = 2
  MaxRequests = 3
  None = None
SPECIFICATION FairSpec
INVARIANTS
  SocketInStep
  NobodyLeftBehind
PROPERTIES
  ServedOrTold
CHECK_DEADLOCK FALSE
