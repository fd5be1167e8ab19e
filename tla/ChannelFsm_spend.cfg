CONSTANTS
  Ops = {"update1", "deposit", "withdraw"}
  Kind <- MCKind
  Messages <- SpendMessages
  States = {"offchain"}
  OffChainStates = {"offchain"}
  Start = "awaitingReconnection"
  Role = "initiator"
  SendThrows = TRUE
  ErrorListener = TRUE
  Reentrant = TRUE
  MaxQueue = 1
  MaxChats = 0
  NoOp = NoOp
  NoState = NoState
SPECIFICATION Spec
PROPERTIES
  DroppedOnlyByStaleResult
  AcceptedUpdateWasSigned
  InOrder
CHECK_DEADLOCK FALSE
