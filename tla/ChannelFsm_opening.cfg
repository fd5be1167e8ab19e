CONSTANTS
  Ops = {"update1", "update2"}
  Kind <- MCKind
  Messages <- OpeningMessages
  States = {"offchain"}
  OffChainStates = {"offchain"}
  Start = "awaitingConnection"
  Role = "initiator"
  SendThrows = TRUE
  ErrorListener = TRUE
  Reentrant = TRUE
  MaxQueue = 1
  MaxChats = 1
  NoOp = NoOp
  NoState = NoState
SPECIFICATION FairSpec
INVARIANTS
  TypeOK
  NoMessageForgotten
  NoActionForgotten
  NothingRequestedBeforeOpen
PROPERTIES
  QueuesServed
CHECK_DEADLOCK FALSE
