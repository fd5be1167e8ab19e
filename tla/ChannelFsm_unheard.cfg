CONSTANTS
  Ops = {"update1"}
  Kind <- MCKind
  Messages <- OpeningMessages
  States = {"offchain"}
  OffChainStates = {"offchain"}
  Start = "awaitingConnection"
  Role = "initiator"
  SendThrows = TRUE
  ErrorListener = FALSE
  Reentrant = FALSE
  MaxQueue = 1
  MaxChats = 0
  NoOp = NoOp
  NoState = NoState
SPECIFICATION Spec
CHECK_DEADLOCK FALSE
INVARIANTS
  BadMessageIsSkipped
