------------------------------ MODULE ChannelFsm ------------------------------
(***************************************************************************)
(* The client side of a state channel: the finite state machine that       *)
(* src/channel/internal.ts runs and whose states are the handlers of       *)
(* src/channel/handlers.ts, Spend.ts and Contract.ts.                      *)
(*                                                                         *)
(* The node sends messages over a WebSocket.  dequeueMessage takes them in *)
(* order, one at a time: the current handler runs, may wait for the user's *)
(* signature (or for an RPC reply), and returns the next handler, which    *)
(* enterState installs.  User operations (update, withdraw, leave, ...)    *)
(* wait in the action queue until the handler is channelOpen; then         *)
(* dequeueAction sends their request and installs their own handler.       *)
(*                                                                         *)
(* Both loops are async functions, so each of them yields to the event     *)
(* loop before it installs a handler.  `jobs' is the queue of those        *)
(* continuations; the socket's events and the RPC reply wait until it is   *)
(* empty, user code may run between any two of them.                       *)
(***************************************************************************)
EXTENDS Naturals, Sequences

CONSTANTS
  Ops,            \* the calls of user operations
  Kind,           \* which operation each of them is
  Messages,       \* the messages the node may send
  States,         \* the co-signed transactions `channels.update' may carry
  OffChainStates, \* those that are a ChannelOffChainTx
  Start,          \* the handler Channel._initialize passes to `initialize'
  Role,           \* "initiator" or "responder"
  SendThrows,     \* whether WebSocket.send throws on a socket that is not open
  ErrorListener,  \* whether the user listens to "error": emit throws otherwise
  Reentrant,      \* whether user code runs in listeners and between jobs
  MaxQueue,       \* bound: messages waiting in _messageQueue
  MaxChats,       \* bound: calls of sendMessage
  NoOp,           \* no operation: a state without `resolve' and `reject'
  NoState         \* the value '' of Channel._state

Kinds == {"update", "deposit", "withdraw", "createContract", "callContract",
          "forceProgress", "cleanContractCalls", "leave", "shutdown"}

StartHandlers ==
  {"awaitingConnection", "awaitingReestablish", "awaitingReconnection"}

\* The handler of each operation, in effect once its request is sent.
FirstHandler ==
  [update |-> "awaitingOffChainTx", deposit |-> "awaitingActionTx",
   withdraw |-> "awaitingActionTx", createContract |-> "awaitingContractTx",
   callContract |-> "awaitingContractTx",
   forceProgress |-> "awaitingForceProgressTx",
   cleanContractCalls |-> "awaitingCallsPruned", leave |-> "awaitingLeave",
   shutdown |-> "awaitingShutdownTx"]

OpHandlers ==
  {"awaitingOffChainTx", "awaitingUpdateCompletion", "awaitingActionTx",
   "awaitingActionCompletion", "awaitingContractTx",
   "awaitingContractCompletion", "awaitingForceProgressTx",
   "awaitingForceProgressOnChain", "awaitingCallsPruned", "awaitingLeave",
   "awaitingShutdownTx", "awaitingShutdownOnChain"}

Handlers ==
  StartHandlers \cup OpHandlers \cup
  {"awaitingChannelReestablished", "awaitingChannelCreateTx",
   "awaitingOnChainTx", "awaitingBlockInclusion", "awaitingOpenConfirmation",
   "awaitingChannelsUpdate", "channelOpen", "awaitingTxSignRequest",
   "awaitingUpdateConflict", "channelClosed"}

Statuses == {"connected", "accepted", "halfSigned", "signed", "open",
             "closing", "closed", "died", "disconnected"}

InfoEvents ==
  {"fsm_up", "channel_accept", "funding_created", "funding_signed",
   "own_funding_locked", "funding_locked", "open", "channel_reestablished",
   "update", "withdraw_created", "deposit_created", "own_withdraw_locked",
   "withdraw_locked", "own_deposit_locked", "deposit_locked",
   "peer_disconnected", "timeout", "close_mutual", "closing",
   "closed_confirmed", "died", "shutdown", "aborted_update"}

SignTags ==
  {"initiator_sign", "responder_sign", "update", "update_ack", "deposit_tx",
   "deposit_ack", "withdraw_tx", "withdraw_ack", "shutdown_sign",
   "shutdown_sign_ack", "force_progress_tx"}

OnChainInfos == {"funding_signed", "funding_created", "channel_closed", "other"}

\* A message is its method and the part of its data the handlers look at:
\* "reply_error" is the answer { error, id: null } to a refused request, which
\* has neither a method nor params.
AllMessages ==
  [m : {"info"}, d : InfoEvents] \cup [m : {"sign"}, d : SignTags] \cup
  [m : {"on_chain_tx"}, d : OnChainInfos] \cup [m : {"update"}, d : States] \cup
  [m : {"conflict", "error", "leave", "calls_pruned", "reply_error"}, d : {"-"}]

ASSUME ChannelAssumption ==
  /\ NoOp \notin Ops
  /\ NoState \notin States
  /\ OffChainStates \subseteq States
  /\ Kind \in [Ops -> Kinds]
  /\ Messages \subseteq AllMessages
  /\ Start \in StartHandlers
  /\ Role \in {"initiator", "responder"}
  /\ SendThrows \in BOOLEAN
  /\ ErrorListener \in BOOLEAN
  /\ Reentrant \in BOOLEAN
  /\ MaxQueue \in Nat
  /\ MaxChats \in Nat

VARIABLES
  fsm,        \* _fsm: the handler, and the operation its state belongs to
  status,     \* _status
  chanState,  \* _state
  ids,        \* which of _channelId and _fsmId are known
  ws,         \* readyState of _websocket
  msgQueue,   \* _messageQueue
  loop,       \* where dequeueMessage is: "idle" when _isMessageQueueLocked is
              \* false, "sign" and "rpc" inside a handler, "enter" when the
              \* handler is done, "next" when its message is, "stuck" when
              \* dequeueMessage itself threw and holds its lock for good
  cur,        \* the _fsm handleMessage read before it called the handler
  next,       \* what the handler returned
  actQueue,   \* _actionQueue
  act,        \* the action dequeueAction holds _isActionQueueLocked for
  phase,      \* the life of each operation and its promise
  jobs,       \* continuations due in the event loop
  chats,      \* messages sendMessage has sent
  told        \* what the node has told of the channel's opening, see Told: a
              \* history that no step reads

vars == <<fsm, status, chanState, ids, ws, msgQueue, loop, cur, next,
          actQueue, act, phase, jobs, chats, told>>

\* An operation's request is out and its promise is not settled: meanwhile
\* the user may have signed or refused its transaction, and a shutdown may have
\* seen the closing transaction (state.closeTx).
Outstanding == {"started", "signed", "refused", "txSeen"}

Settled == {"accepted", "declined", "rejected"}

\* "unsent": its request could not be sent because the socket threw.
Phases == {"idle", "queued", "unsent"} \cup Outstanding \cup Settled

FsmStates == [h : Handlers, op : Ops \cup {NoOp}]

\* A handler that threw or returned undefined gives no next state.
Nowhere == [h |-> "none", op |-> NoOp]

Init ==
  /\ fsm = [h |-> Start, op |-> NoOp]
  /\ status = "connected"
  /\ chanState = NoState
  /\ ids = {}
  /\ ws = "open"
  /\ msgQueue = <<>>
  /\ loop = "idle"
  /\ cur = Nowhere
  /\ next = Nowhere
  /\ actQueue = <<>>
  /\ act = NoOp
  /\ phase = [o \in Ops |-> "idle"]
  /\ jobs = <<>>
  /\ chats = 0
  /\ told = "nothing"

-----------------------------------------------------------------------------
(* The action queue *)

\* A notification on this socket throws (in a browser it is dropped instead).
SendFails == SendThrows /\ ws # "open"

\* mutant: the guard is ignored
DequeueActionAnytime(h, q, ph) ==
  IF act = NoOp /\ q # <<>>
  THEN /\ actQueue' = Tail(q)
       /\ act' = Head(q)
       /\ phase' = [ph EXCEPT ![Head(q)] = "started"]
  ELSE /\ actQueue' = q
       /\ phase' = ph
       /\ UNCHANGED act

\* dequeueAction, up to its await, when the handler is h, the queue q and the
\* operations are in phase ph.  Every guard is "the handler is channelOpen",
\* so findIndex picks the head.
DequeueAction(h, q, ph) ==
  IF act = NoOp /\ q # <<>> /\ h = "channelOpen"
  THEN /\ actQueue' = Tail(q)
       /\ act' = Head(q)
       /\ phase' = [ph EXCEPT ![Head(q)] =
                      IF SendFails THEN "unsent" ELSE "started"]
  ELSE /\ actQueue' = q
       /\ phase' = ph
       /\ UNCHANGED act

\* The continuation DequeueAction leaves: none when the action threw.
ActionJob ==
  IF act = NoOp /\ act' # NoOp /\ ~SendFails THEN <<"act">> ELSE <<>>

\* mutant: the operation waits for the next enterState
EnqueueOnly(o) ==
  /\ phase[o] = "idle"
  /\ actQueue' = Append(actQueue, o)
  /\ phase' = [phase EXCEPT ![o] = "queued"]
  /\ UNCHANGED act

\* mutant: unshift instead of push
EnqueueFirst(o) ==
  /\ phase[o] = "idle"
  /\ DequeueAction(fsm.h, <<o>> \o actQueue, [phase EXCEPT ![o] = "queued"])

EnqueueAction(o) ==
  /\ phase[o] = "idle"
  /\ DequeueAction(fsm.h, Append(actQueue, o), [phase EXCEPT ![o] = "queued"])

\* mutant: enterState does not look at the action queue
EnterStateOnly(n) ==
  /\ fsm' = n
  /\ status' = IF n.h = "channelOpen" THEN "open" ELSE status
  /\ UNCHANGED <<actQueue, act, phase>>

EnterState(n) ==
  /\ fsm' = n
  /\ status' = IF n.h = "channelOpen" THEN "open" ELSE status
  /\ DequeueAction(n.h, actQueue, phase)

-----------------------------------------------------------------------------
(* What a handler does with a message.  Each handler ends in one of: *)

GotoWithout(h, o) == \* mutant: the state is left out
  loop' = "enter" /\ next' = [h |-> h, op |-> NoOp]

\* It returns { handler: h, state }, the state being that of operation o.
GotoWith(h, o) == loop' = "enter" /\ next' = [h |-> h, op |-> o]

Goto(h) == GotoWith(h, NoOp)

FailUnchecked == \* mutant: enterState takes an undefined state
  loop' = "enter" /\ next' = [h |-> "undefined", op |-> NoOp]

\* It throws, or returns undefined, which enterState throws for: dequeueMessage
\* reports the error and the handler stays as it is.
Fail == loop' = "enter" /\ next' = Nowhere

\* It awaits the user's signature, in signAndNotify.
AskSign == loop' = "sign" /\ UNCHANGED next

\* Settling a promise again, or that of no operation, has no effect.
Settle(o, p) ==
  phase' = [x \in Ops |-> IF x = o /\ phase[x] \in Outstanding THEN p ELSE phase[x]]

\* mutant: the promise is not rejected
HandleUnexpectedQuietly(o) == UNCHANGED phase /\ Goto("channelOpen")

HandleUnexpectedMessage(o) == Settle(o, "rejected") /\ Goto("channelOpen")

Info(m, events) == m.m = "info" /\ m.d \in events

Sign(m, tag) == m.m = "sign" /\ m.d = tag

\* awaitingCompletion where the message is not an expected update.
AwaitingCompletion(m, o) ==
  /\ Settle(o, IF m.m = "conflict" \/ Info(m, {"aborted_update"})
               THEN "declined" ELSE "rejected")
  /\ Goto("channelOpen")

-----------------------------------------------------------------------------
(* Opening the channel *)

AwaitingConnection(m) ==
  /\ UNCHANGED <<chanState, ws, phase>>
  /\ \/ /\ Info(m, {"channel_accept", "funding_created"})
        /\ status' = IF m.d = "channel_accept" THEN "accepted" ELSE "halfSigned"
        /\ Goto("awaitingChannelCreateTx")
        /\ UNCHANGED ids
     \/ /\ Info(m, {"channel_reestablished"})
        /\ Goto("awaitingOpenConfirmation")
        /\ UNCHANGED <<status, ids>>
     \/ /\ Info(m, {"fsm_up"})
        /\ ids' = ids \cup {"fsm"}
        /\ Goto("awaitingConnection")
        /\ UNCHANGED status
     \/ /\ Info(m, InfoEvents \ {"channel_accept", "funding_created",
                                 "channel_reestablished", "fsm_up"})
        /\ Goto("awaitingConnection")
        /\ UNCHANGED <<status, ids>>
     \/ /\ m.m = "error"
        /\ IF ErrorListener THEN Goto("channelClosed") ELSE Fail
        /\ UNCHANGED <<status, ids>>
     \/ m.m \notin {"info", "error"} /\ Fail /\ UNCHANGED <<status, ids>>

AwaitingReestablish(m) ==
  /\ UNCHANGED <<status, chanState, ws>>
  /\ IF Info(m, {"fsm_up"})
     THEN /\ ids' = ids \cup {"fsm"}
          /\ Goto("awaitingChannelReestablished")
          /\ UNCHANGED phase
     ELSE HandleUnexpectedMessage(fsm.op) /\ UNCHANGED ids

AwaitingChannelReestablished(m) ==
  /\ UNCHANGED <<status, chanState, ids, ws>>
  /\ IF Info(m, {"channel_reestablished"})
     THEN Goto("awaitingOpenConfirmation") /\ UNCHANGED phase
     ELSE HandleUnexpectedMessage(fsm.op)

\* The RPC channels.get.offchain_state is sent while the handler waits.
AwaitingReconnection(m) ==
  /\ UNCHANGED <<status, chanState, ws>>
  /\ IF Info(m, {"fsm_up"})
     THEN /\ ids' = ids \cup {"fsm"}
          /\ UNCHANGED phase
          /\ IF SendFails THEN Fail ELSE loop' = "rpc" /\ UNCHANGED next
     ELSE HandleUnexpectedMessage(fsm.op) /\ UNCHANGED ids

AwaitingChannelCreateTx(m) ==
  /\ UNCHANGED <<status, chanState, ids, ws, phase>>
  /\ IF Sign(m, IF Role = "initiator" THEN "initiator_sign" ELSE "responder_sign")
     THEN AskSign
     ELSE Fail

AwaitingOnChainTx(m) ==
  /\ UNCHANGED <<chanState, ws, phase>>
  /\ LET included == [m |-> "on_chain_tx",
                      d |-> IF Role = "initiator"
                            THEN "funding_signed" ELSE "funding_created"]
         signed == Role = "initiator" /\ Info(m, {"funding_signed"})
     IN \/ m = included /\ Goto("awaitingBlockInclusion") /\ UNCHANGED <<status, ids>>
        \/ /\ signed
           /\ ids' = ids \cup {"channel"}
           /\ status' = "signed"
           /\ Goto("awaitingOnChainTx")
        \/ m # included /\ ~signed /\ Fail /\ UNCHANGED <<status, ids>>

\* mutant: a message it does not wait for is handled as in the other handlers
AwaitingBlockInclusionUnexpected(m) ==
  /\ UNCHANGED <<status, chanState, ids, ws>>
  /\ \/ /\ Info(m, {"funding_created", "own_funding_locked"}) \/ m.m = "on_chain_tx"
        /\ Goto("awaitingBlockInclusion")
        /\ UNCHANGED phase
     \/ Info(m, {"funding_locked"}) /\ Goto("awaitingOpenConfirmation") /\ UNCHANGED phase
     \/ /\ ~Info(m, {"funding_created", "own_funding_locked", "funding_locked"})
        /\ m.m # "on_chain_tx"
        /\ HandleUnexpectedMessage(fsm.op)

AwaitingBlockInclusion(m) ==
  /\ UNCHANGED <<status, chanState, ids, ws, phase>>
  /\ \/ /\ Info(m, {"funding_created", "own_funding_locked"}) \/ m.m = "on_chain_tx"
        /\ Goto("awaitingBlockInclusion")
     \/ Info(m, {"funding_locked"}) /\ Goto("awaitingOpenConfirmation")
     \/ /\ ~Info(m, {"funding_created", "own_funding_locked", "funding_locked"})
        /\ m.m # "on_chain_tx"
        /\ Fail

AwaitingOpenConfirmation(m) ==
  /\ UNCHANGED <<status, chanState, ws>>
  /\ IF Info(m, {"open"})
     THEN /\ ids' = ids \cup {"channel"}
          /\ Goto("awaitingChannelsUpdate")
          /\ UNCHANGED phase
     ELSE HandleUnexpectedMessage(fsm.op) /\ UNCHANGED ids

AwaitingChannelsUpdate(m) ==
  /\ UNCHANGED <<status, ids, ws>>
  /\ IF m.m = "update"
     THEN /\ chanState' = m.d
          /\ Goto("channelOpen")
          /\ UNCHANGED phase
     ELSE HandleUnexpectedMessage(fsm.op) /\ UNCHANGED chanState

-----------------------------------------------------------------------------
(* The open channel *)

\* Events channelOpen passes on to the user's listeners.
EmittedEvents ==
  {"own_withdraw_locked", "withdraw_locked", "own_deposit_locked",
   "deposit_locked", "peer_disconnected", "channel_reestablished", "open"}

\* channelOpen; `phase' and the action queue are left to its listeners.
ChannelOpen(m) ==
  /\ UNCHANGED ws
  /\ \/ /\ Info(m, {"update", "withdraw_created", "deposit_created"})
        /\ Goto("awaitingTxSignRequest")
        /\ UNCHANGED <<status, chanState, ids>>
     \/ /\ \/ Info(m, EmittedEvents \cup {"timeout", "close_mutual", "shutdown"})
           \/ m.m \in {"on_chain_tx", "leave"}
        /\ Goto("channelOpen")
        /\ UNCHANGED <<status, chanState, ids>>
     \/ /\ Info(m, {"fsm_up"})
        /\ ids' = ids \cup {"fsm"}
        /\ Goto("channelOpen")
        /\ UNCHANGED <<status, chanState>>
     \/ /\ Info(m, {"closing"})
        /\ status' = "closing"
        /\ Goto("channelOpen")
        /\ UNCHANGED <<chanState, ids>>
     \/ /\ Info(m, {"closed_confirmed", "died"})
        /\ status' = IF m.d = "died" THEN "died" ELSE "closed"
        /\ Goto("channelClosed")
        /\ UNCHANGED <<chanState, ids>>
     \/ /\ m.m = "update"
        /\ chanState' = m.d
        /\ Goto("channelOpen")
        /\ UNCHANGED <<status, ids>>
     \/ Sign(m, "shutdown_sign_ack") /\ AskSign /\ UNCHANGED <<status, chanState, ids>>
     \/ /\ \/ Info(m, {"channel_accept", "funding_created", "funding_signed",
                       "own_funding_locked", "funding_locked", "aborted_update"})
           \/ m.m = "sign" /\ m.d # "shutdown_sign_ack"
           \/ m.m \in {"conflict", "error", "calls_pruned", "reply_error"}
        /\ Fail
        /\ UNCHANGED <<status, chanState, ids>>

\* channelOpen emits an event (or its change of status or state emits one), so
\* the user's listeners run before it returns.
Emits(m) ==
  \/ Info(m, EmittedEvents \cup {"closing", "closed_confirmed", "died"})
  \/ m.m \in {"on_chain_tx", "update"}

\* message.method.match throws when the message has no method.
AwaitingTxSignRequest(m) ==
  /\ UNCHANGED <<status, chanState, ids, ws>>
  /\ \/ m.m = "sign" /\ AskSign /\ UNCHANGED phase
     \/ m.m = "reply_error" /\ Fail /\ UNCHANGED phase
     \/ m.m \notin {"sign", "reply_error"} /\ HandleUnexpectedMessage(fsm.op)

AwaitingUpdateConflict(m) ==
  /\ UNCHANGED <<status, chanState, ids, ws>>
  /\ \/ /\ m.m = "reply_error"
        /\ GotoWith("awaitingUpdateConflict", fsm.op)
        /\ UNCHANGED phase
     \/ m.m = "conflict" /\ Goto("channelOpen") /\ UNCHANGED phase
     \/ m.m \notin {"reply_error", "conflict"} /\ HandleUnexpectedMessage(fsm.op)

-----------------------------------------------------------------------------
(* The user's operations *)

\* An awaitingCompletion with an onSuccess: the update is that of the operation.
AwaitingSuccess(m) ==
  IF m.m = "update"
  THEN chanState' = m.d /\ Settle(fsm.op, "accepted") /\ Goto("channelOpen")
  ELSE AwaitingCompletion(m, fsm.op) /\ UNCHANGED chanState

AwaitingOffChainTx(m) ==
  /\ UNCHANGED <<status, chanState, ids, ws>>
  /\ \/ Sign(m, "update") /\ AskSign /\ UNCHANGED phase
     \/ m.m = "error" /\ Settle(fsm.op, "rejected") /\ Goto("channelOpen")
     \/ m.m # "error" /\ ~Sign(m, "update") /\ AwaitingCompletion(m, fsm.op)

AwaitingUpdateCompletion(m) == UNCHANGED <<status, ids, ws>> /\ AwaitingSuccess(m)

AwaitingActionTx(m) ==
  /\ UNCHANGED <<status, chanState, ids, ws>>
  /\ IF Sign(m, IF Kind[fsm.op] = "deposit" THEN "deposit_tx" ELSE "withdraw_tx")
     THEN AskSign /\ UNCHANGED phase
     ELSE HandleUnexpectedMessage(fsm.op)

AwaitingActionCompletion(m) ==
  /\ UNCHANGED <<status, ids, ws>>
  /\ LET locked == IF Kind[fsm.op] = "deposit"
                   THEN {"own_deposit_locked", "deposit_locked"}
                   ELSE {"own_withdraw_locked", "withdraw_locked"}
     IN IF m.m = "on_chain_tx" \/ Info(m, locked)
        THEN /\ GotoWith("awaitingActionCompletion", fsm.op)
             /\ UNCHANGED <<chanState, phase>>
        ELSE AwaitingSuccess(m)

\* createContract and callContract
AwaitingContractTx(m) ==
  /\ UNCHANGED <<status, chanState, ids, ws>>
  /\ IF Sign(m, "update")
     THEN AskSign /\ UNCHANGED phase
     ELSE HandleUnexpectedMessage(fsm.op)

\* createContract throws unless the update is an off-chain transaction.
AwaitingContractCompletion(m) ==
  /\ UNCHANGED <<status, ids, ws>>
  /\ IF /\ Kind[fsm.op] = "createContract"
        /\ m.m = "update"
        /\ m.d \notin OffChainStates
     THEN Fail /\ UNCHANGED <<chanState, phase>>
     ELSE AwaitingSuccess(m)

AwaitingForceProgressTx(m) ==
  /\ UNCHANGED <<status, chanState, ids, ws>>
  /\ IF Sign(m, "force_progress_tx")
     THEN AskSign /\ UNCHANGED phase
     ELSE HandleUnexpectedMessage(fsm.op)

\* The promise is resolved, then handleUnexpectedMessage rejects it in vain.
AwaitingForceProgressOnChain(m) ==
  /\ UNCHANGED <<status, chanState, ids, ws>>
  /\ Settle(fsm.op, IF m.m = "on_chain_tx" THEN "accepted" ELSE "rejected")
  /\ Goto("channelOpen")

AwaitingCallsPruned(m) ==
  /\ UNCHANGED <<status, chanState, ids, ws>>
  /\ IF m.m = "calls_pruned"
     THEN Settle(fsm.op, "accepted") /\ Goto("channelOpen")
     ELSE Settle(fsm.op, "rejected") /\ Goto("channelClosed")

AwaitingLeave(m) ==
  /\ UNCHANGED <<status, chanState, ids>>
  /\ IF m.m = "leave"
     THEN /\ Settle(fsm.op, "accepted")
          /\ ws' = IF ws = "open" THEN "closing" ELSE ws
          /\ Goto("channelClosed")
     ELSE HandleUnexpectedMessage(fsm.op) /\ UNCHANGED ws

AwaitingShutdownTx(m) ==
  /\ UNCHANGED <<status, chanState, ids, ws>>
  /\ IF Sign(m, "shutdown_sign")
     THEN AskSign /\ UNCHANGED phase
     ELSE HandleUnexpectedMessage(fsm.op)

AwaitingShutdownOnChain(m) ==
  /\ UNCHANGED <<status, chanState, ids, ws>>
  /\ IF m.m = "on_chain_tx"
     THEN GotoWith("channelClosed", fsm.op) /\ UNCHANGED phase
     ELSE HandleUnexpectedMessage(fsm.op)

\* mutant: like the other handlers, a message is unexpected
ChannelClosedUnexpected(m) ==
  UNCHANGED <<status, chanState, ids, ws>> /\ HandleUnexpectedMessage(fsm.op)

\* Only a shutdown's state comes here; a message without params throws.
ChannelClosed(m) ==
  /\ UNCHANGED <<status, chanState, ids, ws>>
  /\ \/ fsm.op = NoOp /\ Goto("channelClosed") /\ UNCHANGED phase
     \/ fsm.op # NoOp /\ m.m = "reply_error" /\ Fail /\ UNCHANGED phase
     \/ /\ fsm.op # NoOp
        /\ m = [m |-> "on_chain_tx", d |-> "channel_closed"]
        /\ Settle(fsm.op, "txSeen")
        /\ GotoWith("channelClosed", fsm.op)
     \/ /\ fsm.op # NoOp
        /\ Info(m, {"closed_confirmed"})
        /\ Settle(fsm.op, "accepted")
        /\ Goto("channelClosed")
     \/ /\ fsm.op # NoOp
        /\ m.m # "reply_error" /\ ~Info(m, {"closed_confirmed"})
        /\ m # [m |-> "on_chain_tx", d |-> "channel_closed"]
        /\ GotoWith("channelClosed", fsm.op)
        /\ UNCHANGED phase

-----------------------------------------------------------------------------
(* The message queue *)

\* The handlers that do not run the user's listeners in channelOpen.
Handle(m) ==
  \/ fsm.h = "awaitingConnection" /\ AwaitingConnection(m)
  \/ fsm.h = "awaitingReestablish" /\ AwaitingReestablish(m)
  \/ fsm.h = "awaitingChannelReestablished" /\ AwaitingChannelReestablished(m)
  \/ fsm.h = "awaitingReconnection" /\ AwaitingReconnection(m)
  \/ fsm.h = "awaitingChannelCreateTx" /\ AwaitingChannelCreateTx(m)
  \/ fsm.h = "awaitingOnChainTx" /\ AwaitingOnChainTx(m)
  \/ fsm.h = "awaitingBlockInclusion" /\ AwaitingBlockInclusion(m)
  \/ fsm.h = "awaitingOpenConfirmation" /\ AwaitingOpenConfirmation(m)
  \/ fsm.h = "awaitingChannelsUpdate" /\ AwaitingChannelsUpdate(m)
  \/ fsm.h = "awaitingTxSignRequest" /\ AwaitingTxSignRequest(m)
  \/ fsm.h = "awaitingUpdateConflict" /\ AwaitingUpdateConflict(m)
  \/ fsm.h = "awaitingOffChainTx" /\ AwaitingOffChainTx(m)
  \/ fsm.h = "awaitingUpdateCompletion" /\ AwaitingUpdateCompletion(m)
  \/ fsm.h = "awaitingActionTx" /\ AwaitingActionTx(m)
  \/ fsm.h = "awaitingActionCompletion" /\ AwaitingActionCompletion(m)
  \/ fsm.h = "awaitingContractTx" /\ AwaitingContractTx(m)
  \/ fsm.h = "awaitingContractCompletion" /\ AwaitingContractCompletion(m)
  \/ fsm.h = "awaitingForceProgressTx" /\ AwaitingForceProgressTx(m)
  \/ fsm.h = "awaitingForceProgressOnChain" /\ AwaitingForceProgressOnChain(m)
  \/ fsm.h = "awaitingCallsPruned" /\ AwaitingCallsPruned(m)
  \/ fsm.h = "awaitingLeave" /\ AwaitingLeave(m)
  \/ fsm.h = "awaitingShutdownTx" /\ AwaitingShutdownTx(m)
  \/ fsm.h = "awaitingShutdownOnChain" /\ AwaitingShutdownOnChain(m)
  \/ fsm.h = "channelClosed" /\ ChannelClosed(m)

\* A message that is not the one the handler waits for, where the handler then
\* goes to channelOpen although the channel is only being opened.
UnexpectedWhileOpening(m) ==
  \/ /\ fsm.h \in {"awaitingReestablish", "awaitingReconnection"}
     /\ ~Info(m, {"fsm_up"})
  \/ fsm.h = "awaitingChannelReestablished" /\ ~Info(m, {"channel_reestablished"})
  \/ fsm.h = "awaitingOpenConfirmation" /\ ~Info(m, {"open"})
  \/ fsm.h = "awaitingChannelsUpdate" /\ m.m # "update"

\* The channel is open once the node said so and then told its state (or, to a
\* reconnection, replied with it); "unexpected": such a message came before.
Told(m) ==
  IF told \in {"state", "unexpected"} THEN told
  ELSE IF UnexpectedWhileOpening(m) THEN "unexpected"
  ELSE IF fsm.h = "awaitingOpenConfirmation" THEN "open"
  ELSE IF fsm.h = "awaitingChannelsUpdate" /\ told = "open" THEN "state"
  ELSE told

\* The continuation dequeueMessage leaves, unless it waits or is stuck.
LoopJob == IF loop' \in {"enter", "next"} THEN <<"loop">> ELSE <<>>

\* The synchronous part of handleMessage, with the jobs j already due.  A
\* listener of channelOpen's events may call an operation: the handler is
\* still channelOpen, so its request goes out at once.
HandleMessage(m, j) ==
  /\ cur' = fsm
  /\ \/ /\ Handle(m)
        /\ jobs' = j \o LoopJob
        /\ UNCHANGED <<actQueue, act>>
     \/ /\ fsm.h = "channelOpen" /\ ChannelOpen(m)
        /\ \/ jobs' = j \o LoopJob /\ UNCHANGED <<actQueue, act, phase>>
           \/ /\ Reentrant /\ Emits(m)
              /\ \E o \in Ops : EnqueueAction(o)
              /\ jobs' = j \o ActionJob \o LoopJob
  /\ told' = Told(m)
  /\ UNCHANGED <<fsm, chats>>

\* The handler that each handler which asked for a signature returns, once the
\* user gave a transaction,
AfterSigned ==
  [awaitingChannelCreateTx |-> "awaitingOnChainTx",
   channelOpen |-> "channelOpen",
   awaitingTxSignRequest |-> "channelOpen",
   awaitingOffChainTx |-> "awaitingUpdateCompletion",
   awaitingActionTx |-> "awaitingActionCompletion",
   awaitingContractTx |-> "awaitingContractCompletion",
   awaitingForceProgressTx |-> "awaitingForceProgressOnChain",
   awaitingShutdownTx |-> "awaitingShutdownOnChain"]

AfterRefusedIgnored == AfterSigned \* mutant: isError is not looked at

\* and once the user gave an error code: most handlers take no notice, they wait
\* for the node to report the conflict.
AfterRefused ==
  [AfterSigned EXCEPT !.channelOpen = "awaitingUpdateConflict",
                      !.awaitingTxSignRequest = "awaitingUpdateConflict",
                      !.awaitingOffChainTx = "awaitingOffChainTx"]

AfterSign(r) ==
  LET h == IF r = "signed" THEN AfterSigned[cur.h] ELSE AfterRefused[cur.h]
  IN [h |-> h, op |-> IF h \in {"channelOpen", "awaitingOnChainTx"} THEN NoOp ELSE cur.op]

-----------------------------------------------------------------------------
(* Steps of the socket *)

\* onMessage of a message without id: it is pushed, and handled at once unless
\* dequeueMessage is at work.
Receive(m) ==
  /\ jobs = <<>>
  /\ ws # "closed"
  /\ IF loop = "idle"
     THEN HandleMessage(m, <<>>) /\ UNCHANGED msgQueue
     ELSE /\ Len(msgQueue) < MaxQueue
          /\ msgQueue' = Append(msgQueue, m)
          /\ UNCHANGED <<fsm, status, chanState, ids, ws, loop, cur, next,
                         actQueue, act, phase, jobs, chats, told>>

\* The reply to channels.get.offchain_state: signed_tx may be '', or the reply
\* an error.
RpcReply ==
  /\ jobs = <<>>
  /\ ws # "closed"
  /\ loop = "rpc"
  /\ loop' = "enter"
  /\ jobs' = <<"loop">>
  /\ \/ /\ chanState' \in States \cup {NoState}
        /\ next' = [h |-> "channelOpen", op |-> NoOp]
        /\ told' = "state"
     \/ UNCHANGED <<chanState, next, told>>
  /\ UNCHANGED <<fsm, status, ids, ws, msgQueue, cur, actQueue, act, phase, chats>>

\* onclose
WsClosed ==
  /\ jobs = <<>>
  /\ ws # "closed"
  /\ ws' = "closed"
  /\ status' = "disconnected"
  /\ UNCHANGED <<fsm, chanState, ids, msgQueue, loop, cur, next, actQueue, act,
                 phase, jobs, chats, told>>

-----------------------------------------------------------------------------
(* Steps of the event loop *)

\* dequeueAction after its await: the lock is released and the operation's
\* handler entered; it is not channelOpen, so nothing else is dequeued.
ActionEntered ==
  /\ jobs # <<>>
  /\ Head(jobs) = "act"
  /\ jobs' = Tail(jobs)
  /\ fsm' = [h |-> FirstHandler[Kind[act]], op |-> act]
  /\ act' = NoOp
  /\ UNCHANGED <<status, chanState, ids, ws, msgQueue, loop, cur, next,
                 actQueue, phase, chats, told>>

AfterErrorUncaught == "stuck" \* mutant: dequeueMessage does not catch errors

\* dequeueMessage emits the error it caught; with no listener, emit throws.
AfterError == IF ErrorListener THEN "next" ELSE "stuck"

\* The message may have carried an update by which the peer creates a contract:
\* handleMessage, having entered channelOpen, then throws if it knows no round.
RoundUnknown ==
  /\ cur.h \in OpHandlers \cup {"awaitingTxSignRequest", "awaitingUpdateConflict"}
  /\ next.h = "channelOpen"
  /\ chanState = NoState

\* handleMessage after its await: enterState, or the error is emitted.
MessageEntered ==
  /\ jobs # <<>>
  /\ Head(jobs) = "loop"
  /\ loop = "enter"
  /\ cur' = Nowhere
  /\ next' = Nowhere
  /\ IF next # Nowhere
     THEN EnterState(next) ELSE UNCHANGED <<fsm, status, actQueue, act, phase>>
  /\ \/ next # Nowhere /\ loop' = "next"
     \/ (next = Nowhere \/ RoundUnknown) /\ loop' = AfterError
  /\ jobs' = Tail(jobs) \o ActionJob \o LoopJob
  /\ UNCHANGED <<chanState, ids, ws, msgQueue, chats, told>>

\* mutant: dequeueMessage takes one message and is done
NextMessageOnce ==
  /\ jobs # <<>> /\ Head(jobs) = "loop" /\ loop = "next"
  /\ loop' = "idle"
  /\ jobs' = Tail(jobs)
  /\ UNCHANGED <<fsm, status, chanState, ids, ws, msgQueue, cur, next,
                 actQueue, act, phase, chats, told>>

\* dequeueMessage after its await: the next message, or the lock is released.
NextMessage ==
  /\ jobs # <<>>
  /\ Head(jobs) = "loop"
  /\ loop = "next"
  /\ IF msgQueue = <<>>
     THEN /\ loop' = "idle"
          /\ jobs' = Tail(jobs)
          /\ UNCHANGED <<fsm, status, chanState, ids, ws, msgQueue, cur, next,
                         actQueue, act, phase, chats, told>>
     ELSE /\ msgQueue' = Tail(msgQueue)
          /\ HandleMessage(Head(msgQueue), Tail(jobs))

Job == ActionEntered \/ MessageEntered \/ NextMessage

-----------------------------------------------------------------------------
(* Steps of the user *)

UserMayRun == Reentrant \/ jobs = <<>>

\* update, deposit, withdraw, createContract, callContract, forceProgress,
\* cleanContractCalls, leave or shutdown
Call(o) ==
  /\ UserMayRun
  /\ EnqueueAction(o)
  /\ jobs' = jobs \o ActionJob
  /\ UNCHANGED <<fsm, status, chanState, ids, ws, msgQueue, loop, cur, next, chats, told>>

\* The user's sign function settles: with a transaction, with an error code,
\* or by throwing.  The answer goes to the node; when that throws, the handler
\* throws.
SignDone(r) ==
  /\ UserMayRun
  /\ loop = "sign"
  /\ loop' = "enter"
  /\ jobs' = Append(jobs, "loop")
  /\ next' = IF r = "thrown" \/ SendFails THEN Nowhere ELSE AfterSign(r)
  /\ IF r = "thrown" THEN UNCHANGED phase ELSE Settle(cur.op, r)
  /\ UNCHANGED <<fsm, status, chanState, ids, ws, msgQueue, cur, actQueue, act, chats, told>>

\* disconnect
Disconnect ==
  /\ UserMayRun
  /\ ws = "open"
  /\ ws' = "closing"
  /\ UNCHANGED <<fsm, status, chanState, ids, msgQueue, loop, cur, next,
                 actQueue, act, phase, jobs, chats, told>>

\* sendMessage, which does not go through the action queue
SendMessage ==
  /\ UserMayRun
  /\ ws = "open"
  /\ chats < MaxChats
  /\ chats' = chats + 1
  /\ UNCHANGED <<fsm, status, chanState, ids, ws, msgQueue, loop, cur, next,
                 actQueue, act, phase, jobs, told>>

Next ==
  \/ Job
  \/ \E m \in Messages : Receive(m)
  \/ RpcReply
  \/ WsClosed
  \/ \E o \in Ops : Call(o)
  \/ \E r \in {"signed", "refused", "thrown"} : SignDone(r)
  \/ Disconnect
  \/ SendMessage

Spec == Init /\ [][Next]_vars

\* The event loop runs every continuation; the user's sign function settles.
Fairness ==
  /\ WF_vars(Job)
  /\ WF_vars(\E r \in {"signed", "refused", "thrown"} : SignDone(r))

FairSpec == Spec /\ Fairness

-----------------------------------------------------------------------------
(* Properties *)

\* Every variable keeps its type.
TypeOK ==
  /\ fsm \in FsmStates
  /\ status \in Statuses
  /\ chanState \in States \cup {NoState}
  /\ ids \in SUBSET {"channel", "fsm"}
  /\ ws \in {"open", "closing", "closed"}
  /\ msgQueue \in Seq(Messages)
  /\ loop \in {"idle", "sign", "rpc", "enter", "next", "stuck"}
  /\ cur \in FsmStates \cup {Nowhere}
  /\ next \in FsmStates \cup {Nowhere}
  /\ actQueue \in Seq(Ops)
  /\ act \in Ops \cup {NoOp}
  /\ phase \in [Ops -> Phases]
  /\ jobs \in Seq({"act", "loop"})
  /\ chats \in Nat
  /\ told \in {"nothing", "open", "state", "unexpected"}

\* No message is left behind: while messages wait in _messageQueue, some run of
\* dequeueMessage holds the lock and will come back for them (it awaits the
\* user's signature, an RPC reply, or has its continuation in the event loop),
\* unless an unheard "error" event made dequeueMessage itself throw.
NoMessageForgotten ==
  /\ msgQueue # <<>> => loop # "idle"
  /\ loop \in {"enter", "next"} <=> \E i \in 1 .. Len(jobs) : jobs[i] = "loop"
  /\ loop = "stuck" => ~ErrorListener

\* No operation is left behind: when the channel is open and the action queue is
\* not empty then dequeueAction holds the lock, and the lock is held only by an
\* action whose continuation is due or whose request the socket refused.
NoActionForgotten ==
  /\ actQueue # <<>> /\ act = NoOp => fsm.h # "channelOpen"
  /\ act # NoOp <=> \/ \E i \in 1 .. Len(jobs) : jobs[i] = "act"
                    \/ act # NoOp /\ phase[act] = "unsent"

\* The FSM knows of operation o, so that some message can settle its promise.
Tracked(o) == fsm.op = o \/ act = o \/ (loop = "enter" /\ next.op = o)

\* When user code never runs inside a handler, every operation whose request is
\* out is one the FSM tracks: enterState never drops the state of an unsettled
\* promise.
EveryRequestTracked == \A o \in Ops : phase[o] \in Outstanding => Tracked(o)

\* And in general an unsettled operation is dropped in one way only: the handler
\* of a message began in channelOpen, the operation's request was sent before
\* that handler returned, and enterState then installs the stale result.
DroppedOnlyByStaleResult ==
  [][\A o \in Ops :
       Tracked(o) /\ ~Tracked(o)' /\ phase'[o] \in Outstanding
         => cur.h = "channelOpen" /\ fsm.op = o]_vars

\* update() resolves with `accepted: true' only after its sign function returned
\* a transaction; a refusal (an error code) never ends in an accepted update.
AcceptedUpdateWasSigned ==
  [][\A o \in Ops :
       Kind[o] = "update" /\ phase[o] # "accepted" /\ phase'[o] = "accepted"
         => phase[o] = "signed"]_vars

Requests == INSTANCE RequestQueue
  WITH Serial <- FALSE,
       waiting <- actQueue,
       out <- {o \in Ops : phase[o] \in Outstanding},
       done <- {o \in Ops : phase[o] \in Settled \cup {"unsent"}}

SerialRequests == INSTANCE RequestQueue
  WITH Serial <- TRUE,
       waiting <- actQueue,
       out <- {o \in Ops : phase[o] \in Outstanding},
       done <- {o \in Ops : phase[o] \in Settled \cup {"unsent"}}

\* The channel keeps the promises of its action queue: requests in the order of
\* the calls, each sent and each promise settled at most once.
InOrder == Requests!Spec

\* And when user code never runs inside a handler, one unsettled request at a
\* time.
OneAtATime == SerialRequests!Spec

\* No operation is requested of a channel that is not open: until the node said
\* "open" and told the channel's state, in this order, whatever `status' says.
\* One way around is left, and no other: while it waits for one of these
\* messages, or for those that come before them as it reestablishes a channel,
\* any other message takes the client to channelOpen (handlers.ts:80), and then
\* operations are requested of a channel that may never have been opened.  The
\* handlers of creating a channel have no such way: they report the message.
NothingRequestedBeforeOpen ==
  told \in {"nothing", "open"} =>
    /\ act = NoOp
    /\ \A o \in Ops : phase[o] \in {"idle", "queued"}

\* A closed FSM processes no further operation: once in channelClosed it stays
\* there, and nothing is requested; and a channel that closed or died stays so,
\* until its socket closes.
ClosedForGood ==
  [][/\ fsm.h = "channelClosed" =>
          /\ fsm'.h = "channelClosed"
          /\ \A o \in Ops : phase'[o] \in Outstanding => phase[o] \in Outstanding
     /\ status \in {"closed", "died"} => status' \in {status, "disconnected"}]_vars

\* The lock of the message queue is always given back: once the node falls
\* silent, and the user's sign functions settle, the backlog is worked off.
BacklogDrains ==
  <>[][~\E m \in Messages : Receive(m)]_vars => <>[](loop = "idle" /\ msgQueue = <<>>)

\* A queued operation gets its turn if the channel keeps coming back to
\* channelOpen with the action lock free.
QueuedGetsItsTurn ==
  \A o \in Ops :
    []<>(fsm.h = "channelOpen" /\ act = NoOp) => (phase[o] = "queued" ~> phase[o] # "queued")

\* Neither queue keeps what it holds for ever: messages are worked off, and
\* operations get their turn (onMessage and enterState come back for both).
QueuesServed == BacklogDrains /\ QueuedGetsItsTurn

\* A message that cannot be handled is reported, and the next one is handled.
BadMessageIsSkipped == loop # "stuck"
=============================================================================
