CONSTANTS
  Calls = {state, poi}
  PingTimeout = 2
  PongTimeout = 3
  SendThrows = TRUE
SPECIFICATION FairSpec
INVARIANTS
  NoticedInTime
  NeverDroppedEarly
  FirstAnswerCounts
PROPERTIES
  HeardOrDropped
CHECK_DEADLOCK FALSE
