CONSTANTS
  Ops = {"update1", "leave", "shutdown"}
  Kind <- MCKind
  Messages <- ClosingMessages
  States = {"offchain"}
  OffChainStates = {"offchain"}
  Start = "awaitingReconnection"
  Role = "responder"
  SendThrows = TRUE
  ErrorListener = TRUE
  Reentrant = FALSE
  MaxQueue = 1
  MaxChats = 0
  NoOp = NoOp
  NoState = NoState
SPECIFICATION Spec
PROPERTIES
  ClosedForGood
CHECK_DEADLOCK FALSE
