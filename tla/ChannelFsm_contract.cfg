CONSTANTS
  Ops = {"update1", "create", "force", "clean"}
  Kind <- MCKind
  Messages <- ContractMessages
  States = {"offchain", "deposit"}
  OffChainStates = {"offchain"}
  Start = "awaitingReestablish"
  Role = "responder"
  SendThrows = TRUE
  ErrorListener = FALSE
  Reentrant = FALSE
  MaxQueue = 1
  MaxChats = 0
  NoOp = NoOp
  NoState = NoState
SPECIFICATION Spec
INVARIANTS
  EveryRequestTracked
PROPERTIES
  OneAtATime
CHECK_DEADLOCK FALSE
