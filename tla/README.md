# Formal models of aepp-sdk-js

This directory holds TLA+ models of the aeternity JavaScript SDK, the TLC runs
that check them on small instances, and theorems checked by TLAPS.  The
reference is the TypeScript under `src/src/`; tests and documents were read for
what the code promises.

## 1. Inventory

The SDK is a library: it has no process of its own.  What runs concurrently are
the continuations of its `async` functions in the event loop of the application,
the events of WebSockets and timers, and the remote parties (a node, a
middleware, a wallet or an aepp in another window).

| part | state it keeps | operations | talks to |
|---|---|---|---|
| **state channel FSM** `channel/internal.ts`, `handlers.ts`, `Base.ts`, `Spend.ts`, `Contract.ts` | current handler and its state (`_fsm`), status, off-chain state, channel and FSM ids, message queue and action queue, each with a lock | `update`, `deposit`, `withdraw`, `createContract`, `callContract`, `forceProgress`, `cleanContractCalls`, `leave`, `shutdown`, `sendMessage`, `disconnect`; one handler per step of the protocol | the node (WebSocket notifications), the user (sign functions, event listeners, promises) |
| **state channel transport** `channel/internal.ts` | the WebSocket, ping and pong timers, RPC callbacks by id | `initialize`, `onMessage`, `call`, `ping`, `disconnect` | the node, the FSM |
| **middleware subscriber** `MiddlewareSubscriber.ts` | one WebSocket, subscriptions by target, requests awaiting a reply | `subscribe*`, the returned unsubscribe, `reconnect` | the middleware, callbacks of the user |
| **aepp-wallet RPC** `aepp-wallet-communication/` | pending requests by id, the connection's listener | `request`, `notify`, `handleMessage`; connection `connect`, `disconnect`, `sendMessage`; the proxy between two connections | the other window |
| **wallet SDK** `AeSdkWallet.ts` | clients by id: status, subscriptions, the connection | `addRpcClient`, `removeRpcClient`, `shareWalletInfo`, `selectAccount`, the RPC methods | aepps, the user's callbacks |
| **aepp SDK** `AeSdkAepp.ts`, `WalletConnector*.ts` | the RPC client, known addresses | `connectToWallet`, `disconnectWallet`, `subscribeAddress`, `askAddresses` | a wallet |
| **sending transactions** `send-transaction.ts`, `spend.ts`, `utils/autorest.ts`, `tx/builder/field-types/nonce.ts` | a queue per account, retry state | `sendTransaction`, `spend`, `transferFunds`, the nonce strategies | the node |
| **chain polling** `chain.ts` | cached height, cached objects, a batch of dry runs | `poll`, `awaitHeight`, `waitForTxConfirm`, `getHeight`, `txDryRun` | the node |
| **oracle** `oracle/` | the last queries, a polling loop with a lock | `pollQueries`, `handleQueries`, `postQuery`, `pollForResponse` | the node |
| **dry runs** `chain.ts` | batches waiting for their timeout, by block | `txDryRun` | the node |
| **node client** `Node.ts`, `utils/autorest.ts` | the cached status, GET requests under way, attempts | every request: version check, combining, retries; `_isHyperchain` | the node |
| **middleware client** `Middleware.ts`, `utils/MiddlewarePage.ts` | a page and the paths of its neighbours | `requestByPath`, `next`, `prev` | the middleware |
| **base classes** `AeSdkBase.ts`, `AeSdk.ts`, `AeSdkMethods.ts` | the pool of nodes, the accounts, what is selected | `addNode`, `selectNode`, `addAccount`, `removeAccount`, `selectAccount`; every SDK method through its proxies | all others |
| **contract** `contract/` | an instance's bytecode and address; the name of an account's `authFun` | `initialize`, `$compile`, `$deploy`, `$call`, `createGeneralizedAccount` | the node, a compiler, an account |
| **names** `aens.ts`, `tx/builder/helpers.ts` | the salt of the last preclaim | `preclaim`, `claim`, `bid`, `update`, `extendTtl`, `transfer`, `revoke`; fees and auctions | the node |
| **accounts** `account/` | a device's readiness and lock, the search for an extension, the wallet of a mnemonic | signing, `initialize`, `discover`, `getAddress` | a Ledger, MetaMask, the node |
| **builder** `tx/builder/` | a cached price of gas; the object of parameters it was passed | `buildTx`, `unpackTx`, `buildTxAsync`, entries, Merkle Patricia trees, fees and gas limits | the node |
| **validation and cost** `tx/validator.ts`, `tx/execution-cost.ts`, `tx/transaction-signer.ts` | none | `verifyTransaction`, `getExecutionCost*`, `getTransactionSignerAddress` | the node |
| **utilities** `utils/` | none | encoded strings, hashes, signatures, tokens, errors | |

What is hard in them, by kind:

* *interleaving*: handlers await the user's signature while messages keep coming
  and user code keeps calling operations; two wallet connections being opened
  at once; a client disconnected while the user is asked;
* *ordering*: actions and messages are queued under two locks that an exception
  may leave closed; replies matched to requests by order only;
* *failure*: a socket closes in the middle of an operation; an RPC is never
  answered; a POST is applied but its answer is lost;
* *timeouts*: the pong timer, polling limits, reorganisations of the chain.

What makes each part correct:

* channel: every queued operation is requested when its turn comes, in order,
  one at a time, and its promise is settled; every message is handled, in
  order; no operation is requested outside an open channel; closed is final;
* transport: a silent node is noticed; a call is answered at most once, by its
  own reply; nothing is sent on a dead socket;
* subscriber: the middleware is asked for exactly the targets that have
  listeners, whatever happens to the sockets;
* wallet RPC: a reply settles the request it answers; only a connected client
  gets data; a subscription does not outlive its client;
* sending: nonces of one account are used once and without gaps; a transaction
  the chain accepted is not reported as failed;
* polling: a confirmation is counted on the chain that holds the transaction;
* oracle, dry runs, node client: what shares an answer, a batch or a queue does
  not share a fate: nothing waits for the past, everything settles;
* base classes, contract, names, accounts: a call that spans several requests is
  of one account, one network, one contract, one salt, whatever overlaps it;
* builder, validation, utilities: what is read is what was written, a fee pays
  for the transaction it is in, what is foretold is what the chain does.

`PROJECT.json` lists every part with its files and every hazard with its line.

## 2. Plan and state

Everything planned for modelling is there, most important behaviour first:

1. `ChannelFsm` with its abstract specification `RequestQueue`, and its theorems;
2. `ChannelTransport`, and its theorems;
3. `MiddlewareSubscriber`;
4. `WalletAepp`: RPC clients, connections, the wallet and its aepps composed;
5. `TxSending`: sending and polling over a chain that reorganises;
6. `ServicesMC`: `Oracle`, `DryRun`, `NodeClient`, `MiddlewarePages`;
7. `FlowsMC`: `SdkContext`, `ContractFlow`, `Names`, `NameRules`, `Accounts`,
   `Mnemonic`;
8. `TransactionsMC`: `TxSchema`, `TxFees`, `TxChecks`, `TxPrepare`, `MPTree`,
   `Bytes` (`Signing` and `Encodings`), `RpcErrors`.

Theorems are in `ChannelFsm_proofs`, `MiddlewareSubscriber_proofs`,
`TxSending_proofs`, `Services_proofs` and `Flows_proofs`, of the modules of these
names; in `Wire_proofs`, of what is sent and received (`ChannelTransport`,
`TxPrepare`, `TxFees`, `Bytes`); and in `WalletAepp_proofs`, of `WalletAepp` and of
the errors of its messages (`RpcErrors`).  `QueueLemmas` has what they share.
Section 11 lists what they prove.

What is left:

* theorems about the modules that compute with `RECURSIVE` operators (`TxSchema`,
  `TxChecks`, `MPTree`), which the prover does not take, and about the fee itself
  (`PaidExactly`);
* two `ChannelFsm` composed with a node that follows the off-chain protocol,
  for an update of the peer that races an own one.

The runs, one for each question asked of the system:

| run | modules | result |
|---|---|---|
| `channel_opening`, `channel_spend`, `channel_closing`, `channel_contract` | `ChannelFsm`, `RequestQueue` | pass |
| `channel_unheard` | `ChannelFsm` | a violation: section 3 |
| `transport` | `ChannelTransport` | pass |
| `mdw_sockets` | `MiddlewareSubscriber` | pass |
| `wallet` | `WalletAepp` | pass |
| `sending` | `TxSending` | pass |
| `services`, `flows`, `transactions` | those of 6, 7 and 8 above | pass |

A property that has several parts (`SessionsInOrder`, say) is the conjunction of
named ones, each stated in a comment where it is defined.  Modules that share no
state are checked in one run: its behaviours choose one of them at the beginning
and leave the variables of the others alone, so nothing of their interleavings
is lost.

## 3. The channel

### Modules

* `ChannelFsm`: the two queues of `internal.ts`, all handlers, all queued
  operations, `disconnect` and `sendMessage`.
* `RequestQueue`: what the action queue promises to its callers.
* `ChannelFsmMC` and `ChannelFsm_*.cfg`: the instances TLC checks.
* `QueueLemmas`, `ChannelFsm_proofs`: theorems.

### State and actions

| variable | code |
|---|---|
| `fsm` | `_fsm`: its handler, and the operation whose `resolve` and `reject` its state holds (`NoOp` when none) |
| `status`, `chanState`, `ids` | `_status`, `_state`, which of `_channelId` and `_fsmId` are set |
| `ws` | `readyState` of the WebSocket |
| `msgQueue`, `loop`, `cur`, `next` | `_messageQueue`; where `dequeueMessage` is; the `_fsm` its handler was called with; what the handler returned |
| `actQueue`, `act` | `_actionQueue`; the action for which `_isActionQueueLocked` is set |
| `phase` | each call of an operation and the promise it returned |
| `jobs` | continuations due in the event loop |
| `told` | history, read by no guard: what the node has told of the opening (nothing, "open", the state), or that a message came which a handler of the opening did not expect |

One action is one uninterrupted piece of JavaScript.  `Receive(m)` is
`onMessage` for a notification: it pushes, and, if no `dequeueMessage` runs,
calls the handler up to its first `await`.  `SignDone(r)` is the rest of
`signAndNotify` and of the handler, once the user's function settles;
`MessageEntered` is `handleMessage` after its `await` (`enterState`, and through
it `dequeueAction`, or the caught error); `NextMessage` is the next turn of the
loop in `dequeueMessage`; `ActionEntered` is `dequeueAction` after its `await`.
`Call(o)` is any of the nine queued operations.

Every `async` function yields once before the code that awaits it goes on, so
both loops leave a continuation in `jobs`.  Socket events are macrotasks: they
wait until `jobs` is empty.  User code may run between two continuations (its own
promises settle there) and inside event listeners; `Reentrant` says whether it
calls operations then.  In a handler that runs listeners in `channelOpen`, a call
from a listener is part of the handler's step, as it is in the code.

The node is not trusted: any message of `Messages` may arrive at any time.
A message is its method and the one field a handler branches on.  Amounts,
transactions and the contents of updates are left out; `States` is what
`channels.update` can carry.

### Runs

Deadlock is not checked: a channel whose operations are all settled, whose
socket is closed and whose queues are empty has really stopped.

| run | instance | shows |
|---|---|---|
| `channel_opening` | two updates, the messages of opening, listeners that call operations, fairness | `TypeOK`; `NoMessageForgotten`: waiting messages have a `dequeueMessage` that comes back for them; `NoActionForgotten`: an open channel with a free lock has an empty queue; `NothingRequestedBeforeOpen`; `QueuesServed`: the backlog drains and a queued operation gets its turn |
| `channel_spend` | an update, a deposit and a withdrawal, a node that also conflicts, aborts, dies; reentrant user code; sockets that throw | `DroppedOnlyByStaleResult`, `AcceptedUpdateWasSigned`, `InOrder` (the refinement of `RequestQueue`) |
| `channel_closing` | an update, leave and shutdown, closing by either side | `ClosedForGood`: a closed FSM requests nothing more, and closed and died are final |
| `channel_contract` | an update, create, force progress, prune; reestablished channel, user code between messages only, no error listener | `EveryRequestTracked`: no unsettled promise is dropped; `OneAtATime`: the serial `RequestQueue` |
| `channel_unheard` | violation | an `error` nobody listens to leaves the message lock closed for good |

`NothingRequestedBeforeOpen` is about what the node said, not about `status`,
which `channelOpen.enter` sets: until the node said "open" and told the channel's
state (or replied with it to a reconnection), no operation is requested.  The code
breaks this in one way, which the property names: the five handlers that wait for
these messages, or for those before them when a channel is reestablished, answer
an unexpected message with `handleUnexpectedMessage`, which goes to `channelOpen`
(`handlers.ts:80`), and operations are then requested of a channel that may never
have been opened.  What the property shows, and its two mutants break, is that no
other path leads there: not a queued action that runs too early, and not the
handlers of creating a channel, which report the message instead.

`NoActionForgotten` allows an action whose request was never sent, because the
socket was closing, to hold its lock for good, as it does in the code
(`internal.ts:326`).  Whether `round()` is the node's is not asked: the model's
node follows no protocol.

`DroppedOnlyByStaleResult` deserves a word.  `handleMessage` awaits a handler and
then installs its result, although `dequeueAction` may have installed an
operation's handler meanwhile.  That happens when a listener of an event that
`channelOpen` emits calls an operation, and when one is called while
`channelOpen` waits for the signature of the peer's `shutdown_sign_ack`.  The
operation's state is then overwritten and its promise never settles.  The
property says this is the *only* way a promise is lost; `EveryRequestTracked`
says that it is never lost when neither can happen.  For the same reason
`channel_closing` takes user code to run between messages only: with calls
between two continuations an operation may be entered after `channelClosed`.

### Bounds

`MaxQueue` = 1: a message may wait while another is handled, and a second one
arrives once the first is taken, so every handler meets a message that was
queued under another handler.  A longer queue adds no new meeting, since
`NextMessage` looks at its head only.  Two or three operations: one pending and
two queued show the order of the queue.  One off-chain state, two where a
handler tells them apart (`createContract`).  Messages are split over the runs by
phase of the protocol; each handler is reached in at least one of them with
expected and unexpected messages.  `MaxChats` = 1: `sendMessage` changes nothing
else.

### Fairness

`Fairness` has two parts.  The event loop runs every continuation (weak fairness
of `Job`), which JavaScript guarantees.  The user's sign function settles (weak
fairness of `SignDone`): without it a channel that waits for a signature waits
for ever, by design.  Nothing is assumed of the node, so the first part of
`QueuesServed` starts from the moment the node falls silent, and the second is
conditional on the channel coming back to `channelOpen` with its lock free.

### Proofs

`ChannelFsm_proofs` proves, for any set of operations and messages, any lengths
of the queues and either kind of user, from `ChannelAssumption` only:

* `TypeCorrect`: `Spec => []TypeOK`;
* `MessagesAreServed`: `Spec => []NoMessageForgotten`;
* `ActionsAreServed`: `Spec => []NoActionForgotten`;
* `ImplementsRequestQueue`: `Spec => Requests!Spec`;
* `NothingBeforeOpen`: `Spec => []NothingRequestedBeforeOpen`;
* `AcceptedWasSigned`: `Spec => AcceptedUpdateWasSigned`;
* `DropsAreStale`: `Spec => DroppedOnlyByStaleResult`.

Three theorems have a hypothesis more, which their runs have, too, since the code
does not hold the properties without it:

* `ClosedStaysClosed`: `Spec => ClosedForGood`, if user code runs between
  messages only (`~Reentrant`);
* `RequestsAreTracked`: `Spec => []EveryRequestTracked`, and
  `ImplementsSerialQueue`: `Spec => OneAtATime`, if moreover the peer does not
  shut down (`ShutdownAck \notin Messages`): these are the two ways a stale
  result overtakes an operation.

The inductive invariant `IInv` adds to the types: `JobsOK`, the event loop holds
at most one continuation of each loop, and exactly when the lock says so (without
"at most one", taking one continuation would not show that none is left);
`LoopOK`, a signature is awaited only on behalf of a handler that asked for one
(otherwise `AfterSign` has no value); `ActionsOK`, the action queue holds
exactly the operations in phase `queued`, each once (otherwise a request might be
sent twice).  `HandleType` and `ChannelOpenType` say how a handler ends, with one
step per handler; `DequeueQueue`, `DequeueJobs` and `Enqueued` say what
`dequeueAction` and `enqueueAction` do; `HandleMessageStep` and `StepInvariant`
put them together, one step per action.  `QueueLemmas` has the facts about
sequences they need.  The refinement maps `waiting` to `actQueue`, `out` to the
operations whose phase is `Outstanding` and `done` to those settled or unsent;
`StepSeen` shows that every step is one of the request queue or a stutter.

The other theorems rest on `LInv`, which is `IInv` and `LifeOK`: which handler,
operation and continuation may meet.  `OpeningOK` and `StatesOK` say which
operation a handler can be in charge of; `CurOK`, `ActJobOK` and `NextOK` say the
same of what the two loops remember between their turns, since a handler's result
is installed later than it is computed.  For `NothingRequestedBeforeOpen`,
`UntoldOK` adds that until the node has told the state the handler, what the loop
called and what it is to install are all of the opening (`BeforeOpen`) and nothing
was requested.  Without that the property is not inductive: a loop that remembered
`channelOpen` could install it over a channel that was never open.
`OpeningLeads` says where each handler of the opening leads.
`ClosedOK` (without reentrant calls no operation starts while a result waits to be
entered, and a closed status means that `channelClosed` is reached or about to be)
and `SyncedOK` (under both hypotheses `channelOpen` is never left between its call
and its result) carry the last three.  `ImplementsSerialQueue` reuses the steps of
`ImplementsRequestQueue` and adds that a request goes out only when no other is
outstanding, which is `EveryRequestTracked`.

Model-checked only: the liveness of `QueuesServed`, which is out of the prover's
reach.

### Not modelled

The contents of transactions, the `newContract` event (the error `handleMessage`
throws when it cannot compute its argument is modelled, as `RoundUnknown`, for
any message), promises of RPC reads that do not touch the FSM (`balances`, `poi`, `state`: the transport), the
WebSocket's timers (the transport), exceptions thrown by the user's listeners.

## 4. The transport of a channel

`ChannelTransport` models what `internal.ts` does below the queues of
`ChannelFsm`: it handles pongs and replies as they arrive, whatever the queue of
messages is waiting for.

| variable | code |
|---|---|
| `ws` | `readyState` of `_websocket` |
| `timer` | what `_pingTimeoutId` waits for, and for how long still |
| `known` | whether `_channelId` is set |
| `callbacks`, `promise` | the keys of `_rpcCallbacks`; the promise each `call` returned: `unsent` when `send` threw (the promise is rejected), `vain` when the request was lost without an error |
| `silent`, `dropped`, `answer` | history, read by no guard: the silence of the node, whether the timer closed the socket, the first reply to each call |

`Opened`, `Closed`, `Disconnect` are `onopen`, `onclose` and `disconnect`;
`PingFires` and `PongFires` the two callbacks of `ping`; `PongArrives` and
`ReplyArrives` the branches of `onMessage` that do not reach a queue; `Call` is
`call`.  `Identified` stands for the handlers of `ChannelFsm` that set
`_channelId`, after which pongs with another id are ignored.

The run `transport` has two calls and timeouts of 2 and 3 units.  Two calls are
enough for one to be made or answered while the other waits.  The timeouts
differ, as the code's do, so that exchanging them is noticed.  It shows
`NoticedInTime`, `NeverDroppedEarly`, `FirstAnswerCounts` and,
under fairness, `HeardOrDropped`.  `silent` stops counting at `TooLong`, one more
than both timeouts.  Deadlock is not checked: a closed socket without calls to
make has stopped.

Time is discrete and `Tick` waits for a timeout that is due: a timer of
JavaScript fires late when the event loop is busy, and by that much the bound of
`NoticedInTime` is exceeded.  `Fairness`: time passes and timers fire.

`Wire_proofs` proves `NoticedInTime`, `NeverDroppedEarly` and
`FirstAnswerCounts` for any calls and timeouts (`SilenceIsNoticed`,
`AnsweringNodeIsKept`, `CallsAreAnswered`), from `TransportAssumption` only.
`NoticedInTime` is not inductive: the invariant adds `TimerOK`, that an open
socket always has a timeout set, and that the silence so far and what is left of
the timeout add up to `PingTimeout` or to the sum of both.  `CallOK` says that a
call has a callback exactly until its first reply.  The types and
`QuietAfterClose`, that no timer outlives its socket, are parts of the invariant.
`HeardOrDropped` is model-checked only.

Not modelled: the URL and its parameters, the format of messages, which WebSocket
implementation delivers what while it closes (the model lets it deliver
anything).  A call whose reply never comes stays pending, also when the socket
closes; the model agrees with the code, and nothing promises otherwise.  A
listener of a status that throws in `onopen`, before `ping` is called, is left
out: the silence of the node would not be noticed after it.

## 5. The middleware subscriber

### State and actions

`MiddlewareSubscriber` models `MiddlewareSubscriber.ts` with the middleware and
the sockets between them; `MiddlewareSubscriberMC` and
`MiddlewareSubscriber_sockets.cfg` are its instance.

| variable | code |
|---|---|
| `subs` | each call of `subscribe*`: not made yet, in `#subscriptions`, taken out |
| `cur`, `rs`, `attached` | `#webSocket`; `readyState` of every socket created; which of them still have `onopen`, `onerror` and `onmessage` |
| `queue` | `#requestQueue` |
| `closeDue` | `onclose` is in its `#emit`, so user code runs, and its `#disconnect(true)` is to come |
| `fault` | the `InternalError` of `#messageHandler`, if any |
| `up`, `down`, `server` | for each socket, requests and replies on their way and the targets the middleware holds |
| `told`, `late` | history, read by no action: who got an error since a socket last opened; who subscribed when the loss had been reported already and nothing was connecting |

`Subscribe(x)` and `Unsubscribe(x)` are one call each.  `Reconnect` is the
part of `reconnect` before its `await`, `Opened(s)` the part after it, in which
the requests are sent in an order the model leaves open.  `Closed(s)` is
`onclose` (after `onerror` when the socket never opened) up to the return of the
callbacks, `CloseDone` the `#disconnect(true)` after them; user code may run in
between.  Because `#disconnect` leaves `onclose` in place, `Closed(s)` is enabled for
sockets that were given up, too.  The middleware (`Serve`) is external: it
answers the requests of a socket in order, with the list of targets or with an
error naming the one it refuses.

### Runs

Deadlock is not checked: once every call is made and every socket closed, the
system has stopped.

| run | instance | shows |
|---|---|---|
| `mdw_sockets` | three subscriptions, two of them to one target, the other to one the middleware refuses; two sockets, three requests; fairness | `SocketInStep`: the types; `AskedForWanted`: on the socket in use the middleware is, or is about to be, subscribed to exactly the valid targets that have subscribers; `FirstSocketInOrder`: until a second socket is opened every reply is taken for its own request; `NobodyLeftBehind`: without a socket, every subscriber was told; `ServedOrTold`: a valid subscription is served in the end, or its subscriber gets an error |

`NobodyLeftBehind` and `ServedOrTold` make an exception for `late`: `subscribe`
connects only when there are no other subscriptions, so one made after a loss
waits until the user calls `reconnect`, silently.  The code does not say
otherwise, so the exception is in the property and in the hazards.

### Bounds and fairness

`MaxSockets` = 2 is one socket given up while another is used, which is the only
interplay between sockets there is (`cur` names one, and only `onclose` outlives
it).  `MaxRequests` bounds `queue`; three hold a request that died with its socket
and those for both targets on the next.  Three calls are two that share a target, so that dropping one must not
unsubscribe it, and another target; a call is not made again, as `subscribe`
makes a new entry each time.

`Fairness`: callbacks of the user return (`CloseDone`); a connection attempt
succeeds or fails and a closing handshake ends (`Opened`, `Closed`); the
middleware reads and answers what arrives on a socket that stays open (`Serve`,
`Reply`).  Nothing forces an open socket to close, or the user to do anything.

### Proofs

`MiddlewareSubscriber_proofs` proves `SocketsStayInStep` and `NoneLeftBehind` for
any subscriptions, targets and numbers of sockets and requests, from
`SubscriberAssumption` only.  `SubscriberInv` adds to the properties that the set
of subscriptions is finite (so that the targets can be put in an order at all),
that nothing travels on a socket before it opens (`UnopenedOK`), and that the
middleware serves no target it refuses (`ServerOK`); `FirstOK` is
`FirstSocketInOrder` with the sockets and handlers it is about, `LeftBehindOK`
is `NobodyLeftBehind` also while the callbacks of a close run, since a socket is
still in use then.  `AskedForWanted` depends on the last request for a target, so
the lemmas `ServeOneMore`, `ServeOneLess` and `ServeAll` say what one request
more, one answered, or a new connection's worth of them make of it, by the
positions of the requests and without an induction over the queue.
`ServedOrTold` is liveness and stays with TLC.

### Not modelled

The delivery of events to the callbacks, with the filter on their source
(`subscribeKeyBlocksNode`, `subscribeKeyBlocksAll` differ in nothing else);
callbacks that throw; the promise `reconnect` returns.  What `late` subscribers get
is excepted above, not shown.

## 6. Wallet and aepps

### State and actions

`WalletAepp` composes `AeSdkWallet`, the aepps (`AeSdkAepp` or the connector
frames) and, between them, a `RpcClient` at either end of a connection over
window messages or an extension's port.

| variable | code |
|---|---|
| `known`, `status`, `subs`, `heard` | the keys of `_clients`, `RpcClientsInfo.status` and `.addressSubscription`, which ends of the wallet have their listener |
| `accounts`, `selected`, `node` | of the wallet |
| `tasks`, `fetching` | handlers that await the user or the node; calls of `selectNode` that await the network's id |
| `rpc`, `view`, `net` | of an aepp: `rpcClient`, the accounts it keeps, what `updateNetwork` was last called with |
| `attached`, `calls`, `lastId` | of its `RpcClient`: the listener, `#callbacks`, `#messageId` |
| `toWallet`, `toAepp` | messages on their way, in order in each direction |
| `accepted`, `overlapped`, `raced` | history: who was let in, who had two connections at once, whether two selections of a node overlapped |

A handler is one action up to its first `await`, and one for each way on:
`HearsConnect`, `HearsQuestion`, `HearsSign`, then `ConnectionAccepted`,
`SubscriptionAccepted`, `AccountsShown`, `NetworkAccepted`, `AccountResolved`,
`Signed`, or `UserRejects`, `NodeFails`.  The user of the wallet also adds and
removes clients and changes accounts and nodes unasked; that of an aepp connects,
asks, and disconnects, whatever is on its way.  What the application does on a
callback is taken from the example wallet of the repository.  Windows and ports
differ in what disconnecting does: a window says goodbye by a message, a port is
closed, at the other end only.

### Run, bounds, fairness

`wallet` has seven setups: the SDK and the frame, over a window and a port, with
up to three requests or two unasked operations; an aepp that connects twice; two
aepps over different transports.  One connection is enough for the order of
answers, two for what one does to the other; three requests are a connect, a
subscription and one answered before it or after it.  It shows `SessionsInOrder`
(types; one answer for each call, for its own request; both ends agree on a
session), `AeppsUpToDate` (once messages have arrived, an aepp shows the accounts
and the network of the wallet) and `NothingLeftOpen` (a request is answered or
its session let go of; a goodbye is heard).

The parts say where the code does not hold them, and why: overlapping connects of
one aepp (the disconnect of either deletes the client of the other), an account
removed by the wallet (not pushed), overlapping selections of a node (told in
either order), ports (whose goodbye does not delete the client).

`Fairness`: messages are delivered, the wallet's user answers and its node
answers.  Nothing forces anybody to connect, ask or leave.  Deadlock is not
checked: an aepp that asked what it may and got its answers has stopped.

`WalletAepp_proofs` proves `SessionsStayInOrder`, `Spec => []SessionsInOrder`, and
`AeppsStayUpToDate`, `Spec => []AeppsUpToDate`, for
any aepps, sessions, accounts, nodes, setups and number of requests, from
`SetupAssumption`, `NoneAssumption` (the value of a variable that has none is no
session, account, node or pair of sets of accounts), `HomeAssumption` and
`BoundAssumption`.

`SessionsInOrder` counts the answers of a call, which is not inductive: an answer comes
from a task, that from a request on its way.  The invariant is `Types` (every
message, task and fetch), `PlacesInv` and `HeldInv`.  `PlacesInv`: a request of a
session is in one of four places, on its way, with the user, with the node, or on
its way back, once in that place; if the aepp still listens it has its callback;
and no id is above the last one given.  `HeldInv`: a session in use was begun at
both ends (`Begun`), two of one aepp at a time are remembered as overlapping
(`Apart`), the only one of an aepp is its client (`Holds`).  `TypesStep`,
`PlacesStep` and `HeldStep` have one step per action; lemmas about queues
(a message more, a message less) and about the four places carry them.

`AeppsUpToDate` speaks of a session with nothing on its way; the invariant needs
the others, too.  `NewsInv` says what an aepp will have once it has read its queue
(`Ends`: the last message that tells it, or what it has when none does): accounts
that fit what the wallet shows (`ViewToCome`) and the network of the selected node
(`NetToCome`), the latter from the answer to `connect` on, which may itself be
on its way (`Informed`).  Each change of the wallet appends the message that
restores it, each message read leaves `Ends` as it is.  `Calm` has that no more
than one answer of a node is awaited unless selections raced, and `Follows` that
a subscription comes after the connection it is of.

The liveness of `NothingLeftOpen` is model-checked only.

Not modelled: the proxy between two connections and the detector of wallets
(which hand messages on and announce), the deprecated broadcast by the wallet; the
version of the protocol in a connect, which is refused like by the user
(`AeSdkWallet.ts:234`).  One action, `HearsSign`, stands for every request to sign:
it may or may not wait for the network's id, which only transactions and delegations
do (`AeSdkBase.ts:200`, `:248`).  A client the wallet does not know gets an error,
whichever it is (`AeSdkWallet.ts:178`).

## 7. Sending

`TxSending` models `spend` and `sendTransaction` with the queue of `autorest.ts`,
its retries, `poll`, `awaitHeight` and `waitForTxConfirm`, over a node that is
external: blocks are mined, taken back, and the mempool forgets what cannot be
mined any more.

| variable | code |
|---|---|
| `pc`, `nonce`, `ttl`, `attempt`, `max`, `base`, `ret` | where a call is, its transaction, the attempt of its POST, the limit of `poll`, the height confirmations are counted from, what is returned |
| `after`, `tail` | the promise a request is chained to, `requestQueues` |
| `cache` | `heightCache` |
| `scene` | the options of both calls and the bounds, chosen once |
| `posted`, `unheard`, `since`, `why` | history: attempts, answers lost, the height when polling began, why a call failed |

Run `sending`: two calls in five scenes (confirmed, with a ttl, plain, unwatched;
up to two reorganisations, a lost answer, a cached height a block behind).  One
call alone meets the reorganisations, two meet each other in the queue.  It shows
`QueueInOrder` (types; one POST of an account at a time; a call is refused for
its own transaction, after all retries; a refused transaction stays out, unless
an answer was lost), `EndsByTheChain` (given up only after the blocks asked for,
less what the cached height lags; confirmed at the depth asked for) and
`EveryCallEnds`.

`Fairness`: the SDK's code goes on and its requests are answered, blocks come,
the mempool is cleaned; strong fairness for a read of the height that is not
stale, since a cache of bounded age cannot answer for ever.  A call whose
transaction leaves the bounded heights is out of `EveryCallEnds` (`OutOfBounds`).

`TxSending_proofs` proves `QueueKeepsOrder` (`Spec => []QueueInOrder`) and
`CallsEndByTheChain` (`Spec => EndsByTheChain`) for any finite set of calls and
any scenes, bounds, retries and reorganisations.  The queue of `autorest.ts` is a
chain of promises with no list of who waits, so that one POST at a time is not
inductive: `QueueOK` says there is a numbering of the calls in the queue (a ticket)
by which each is chained to one that waits no less than all before it.
`PostsOK` ties attempts to posts and refusals to all attempts; `PlacesOK` says
that what the node has of a call it took with an answer given or lost;
`LimitsOK` that the limit of `poll` counts from a height no staler than the cache
may be; `ConfirmOK` that the last look at a transaction comes at its depth;
`NonceOK` bounds the nonces by the number of prepared calls.

Not modelled: statuses that are thrown at once instead of retried (403, 410, 500,
`autorest.ts:230`): `PostRefused` is the status 400, and that a call is refused only
after all retries is said of that one; a `getTransactionByHash` that fails while polling,
which ends the call like a limit that was reached.

## 8. Services

`ServicesMC` has one of four in each behaviour; they share only the node.

| module | state and actions | code |
|---|---|---|
| `Oracle` | the polling interval, `isChecking`, `knownQueryIds`, a handler per query, the queue of responses, what a `stop` waits for; clients that wait; the chain external | `oracle/Oracle.ts`, `OracleClient.ts` |
| `DryRun` | batches by block, their timeouts, handlers with their node | `chain.ts` `txDryRun`, `txDryRunHandler` |
| `NodeClient` | version check, cached status, GET requests joined under way, retries, the promise of `_isHyperchain`; an upgrade of the node, failures | `Node.ts`, `utils/autorest.ts` |
| `MiddlewarePages` | a page, the walk so far; new items at the head of the listing, the middleware external | `Middleware.ts`, `utils/MiddlewarePage.ts` |

Run `services`: a session and two queries, three dry runs of which two combine,
on two nodes and two blocks; two equal GETs and two hyperchain calls with one
failure, one retry and one upgrade; listings of up to six items, two to a page.
Two of each kind are those that share and one more that must not.  It shows
`OracleInOrder` (no response queued twice, a stop waits for every handler, no
client gives up while it may be answered), `BatchesInOrder` (a timeout for each
batch, a call in one place, of one block), `FetchesInOrder` (one fetch per path,
nobody waits for one that is over), `WalkIsWhole` (page after page, every item
once) and, with fairness, `EverythingIsAnswered`.  The exceptions in its parts
are in the code: a read of the queries that fails leaves `isChecking` set, and
`_isHyperchain` keeps a rejected promise.

`OFairness`, `DFairness`, `NFairness`: requests are answered, callbacks of the
user return, timers fire, blocks come.

`Services_proofs` proves each safety property of the four, each of its own
module's specification, for any numbers of sessions, queries, calls, nodes,
blocks, requests, and items:

* `OracleKeepsOrder`: the invariant has the queue of responses as the set of
  queries whose handlers are in it, each once (`LineOK`), the queries a session
  knows as those it began to handle (`KnownOK`), and every handler of a session
  in the promise its stop takes (`HandlingOK`), which is of the last session
  (`ActiveOK`);
* `BatchesKeepOrder`: the batches that wait are those with a timeout, one each
  (`TimersOK`), and a pending call is in the batch of its own block or in one
  handler (`PlacesOK`);
* `FetchesKeepOrder`: `pendingGetRequests` has the fetches under way, each under
  its path (`PendingOK`); `FailuresHurtOnce` is the part `FailuresAreForgotten`
  of `EverythingIsAnswered`, which is about steps and needs no fairness;
* `WalksAreWhole`: what was seen is a row of items down from the first, and the
  page read is the end of that row until one goes back (`Walked`, `PageAt`).  It
  assumes that every listing is an operation's path with its parameters filled
  in (`PagesAssumption`), as the middleware's links are.

The rest of `EverythingIsAnswered` is liveness.

Not modelled: of `Oracle`, a handler that begins after `stop`, because the read of
the queries was under way (no promise waits for it), a `_getPollInterval` that
rejects, and a second `stop` of one session.  A key of `DryRun` stands for a block together with
`txEvents`, as batches are kept by both.  A batch goes to the node of the call that
began it, whatever the node of the others: the model has it so, and no property
asks for another.

## 9. Flows

`FlowsMC` has one of these in each behaviour.

| module | what it models | code |
|---|---|---|
| `SdkContext` | nodes and accounts added, selected, removed under calls that read them through proxies at each step: build, sign, verify, post, poll | `AeSdkBase.ts`, `AeSdk.ts`, `AeSdkMethods.ts`, `utils/wrap-proxy.ts` |
| `ContractFlow` | `initialize` with its checks; deployments, calls and dry runs that overlap on an instance; an account that becomes generalized; the chain, which executes, reverts or loses each transaction, external | `contract/Contract.ts`, `contract/ga.ts`, `account/Generalized.ts`, `send-transaction.ts` |
| `Names` | the operations of one instance, waited for or not, built, mined and reported in any order; the chain external | `aens.ts` |
| `NameRules` | lengths, fees, increments and ends of auctions, against the chain's own arithmetic | `tx/builder/helpers.ts`, `constants.ts` |
| `Accounts` | a Ledger and its factory over one transport, the search for MetaMask, the discovery of used accounts | `account/Ledger*.ts`, `MetamaskFactory.ts`, `BaseFactory.ts` |
| `Mnemonic` | the factory's wallet, made while calls wait | `account/MnemonicFactory.ts` |

What a call tells its caller and what becomes of its transaction are two things.
`ContractFlow` keeps the second in `fate`: a transaction that was posted is `ok`,
`reverted` or `lost` when the chain says so, before or after its call resolves or
rejects (`Executed`).  `Send` rejects with the transaction posted when the answer was
lost, `PollJob` when polling gives up or fails, `Result` when the result cannot be
got or is not ok; with `waitMined: false` a call resolves once it is posted.  `Names`
has the same in its stages: `rejected` and `resolved` are calls that are over while
their transaction is on its way (`OnItsWay`), and `Refused` may come after a
transaction was mined.

Run `flows` shows:

* `SdkInOrder`: a verified transaction is not posted with a foreign signature, a
  call for an account stays its, an undisturbed call fails only for what is not
  there;
* `ContractInOrder`: the address is that of a contract (`AddressIsContract`); after a
  `$deploy` that resolved there is no other (`DeployedOnce`); a deployment or a call
  resolves only if it was executed and not reverted (`ResolvedWasExecuted`); gas is
  paid only after a dry run succeeded; what was validated is on chain; `authFun` is
  only of a generalized account, and a signing that needs it resolves for no other
  (`AuthFunOfGeneralized`);
* `NamesKept`: the salt kept was committed (`SaltWasCommitted`), no pointer is lost
  (`NoPointerLost`), bids and auctions are as the chain has them;
* `AccountsInOrder`: a device signs one transaction whole, an address comes from a
  known app, discovery has no gaps, an index has one account.

The parts name what the code allows, each in its comment:

* deployments made at the same time, and deployments made after one that rejected.
  `$deploy` sets the address last (`Contract.ts:299`), after its transaction was sent,
  mined and its result was got; when one of these fails the contract may be on chain,
  or get there, and the next `$deploy`, which finds no address, makes a second one.
  Nor is an address a contract's when the deployment was not waited for;
* `createGeneralizedAccount`, which resolves though `init` was reverted
  (`ga.ts:82`): `AuthFunOfGeneralized` says what must hold after that;
* a preclaim with `waitMined: false`, whose salt is kept when it is posted
  (`aens.ts:296`), though it may never be mined.  A claim with that salt is then
  refused by the chain.  The salt of a preclaim that is waited for is kept only if
  it was mined, however the others end;
* updates overtaken between their read and the chain: they undo the one that
  overtook them.

Bounds: two calls of the SDK, two accounts, two nodes; two deployments, one of
them not waited for, a call and a dry run; an attachment and two signings, one of
which needs no `authFun`; operations of a name of each kind, among them two
preclaims and two updates, of which one each is not waited for; two signings of two
parts and two addresses: each a pair that overlaps, and one more where the order of
three matters.  The jobs of an instance share nothing with those of an account, and
are in different behaviours (`contract`, `account`).  The operations of a name are in two
kinds of behaviours, too: those that meet on the salt and the auction (`name`), and those
that meet on the pointers (`pointers`, with one preclaim and a name that is not
auctioned); transfer and revoke are in both.  The theorems have no such division.
Names have the lengths at which a rule changes.  A reorganisation that takes a mined
transaction back is in `TxSending` only.  Deadlock is not checked: these flows end.

Not modelled: a factory that is given a provider, or a discovery whose node fails
(both only hand the failure on).

`Flows_proofs` proves all four, for any accounts, nodes, calls, jobs, names,
devices and indexes:

* `SdkStaysInOrder`: the invariant adds what a call has at each step (`StagesOK`)
  and that, while the selection stays as it is, what it read is what it would
  read now (`SteadyOK`);
* `ContractStaysInOrder`: what was executed is on chain (`OnChainOK`); a
  transaction has a fate only once it is sent, and one seen mined has an executed or a
  reverted one (`FateOK`); what is sent without a limit of gas was estimated
  (`EstimatedOK`); a deployment that resolved left its address to the instance
  (`AddressKept`), so that none that came past the check of the address (`Past`)
  followed one that had resolved (`FinishedOK`), whatever the transactions of
  those that rejected do meanwhile;
* `NamesAreKept`, of the operations of a name and of an auction together: the salt is
  that of a preclaim that is over and mined, or not waited for; an update on its way,
  whether its call is over or not, has what it was given and, unless overtaken, what
  was there; the
  auction's end is never before the chain's.  `NameRulesAssumption` leaves out the
  label of length 0, for which the table of fees has no entry;
* `AccountsStayInOrder`, of the devices, the searches and the mnemonic factory
  together: the parts sent so far are the first of one transaction (`PartsOK`),
  the lock is held by one signing (`LockOK`), what a factory holds comes from its
  phrase (`MnemonicInv`).  `MnemonicAssumption` has `Offset`, which makes a
  path's index hardened (2^31 in the code), above the numbers 44 and 457 in the
  paths.

## 10. Transactions

`TransactionsMC` has one topic in each behaviour: pure algorithms checked against
a definition of what they are for, over the inputs that tell the cases of the
code apart, and the few steps around them that interleave.

| module | what it models | reference it is checked against |
|---|---|---|
| `TxSchema` | the schemas of transactions, entries, delegations and trees as rows of fields, `getSchema`, packing and unpacking, the signer, the address of a contract | what is read is what was given, packs to the same, and is of the type asked for |
| `TxFees` | base and size gas, the loop of `calculateMinFee`, gas limits, the cached price, `transferFunds` | the chain's price of the built transaction; the least one found by search; the balance |
| `TxChecks` | every validator with its prefix and account through nested transactions; the execution cost, with and without a node | what the chain charges (`Charged`) and takes (`Acceptable`, `Affordable`) |
| `TxPrepare` | `buildTxAsync`: fields asked of the node concurrently, written into the caller's object, which several calls may share | heights and nonces of the time of the call |
| `MPTree` | the constructor and its checks, `get`, `entriesRaw`, `toObject`, `serialize` on tables that lack or falsify nodes | the contents the trie was made from |
| `Signing` | what is signed for transactions, messages, typed data, delegations and tokens, and the verification of each | who was asked to sign what |
| `Encodings` | checksums, lengths, prefixes, the checks of encoded strings, `encodeVarUInt` | what was encoded |
| `Bytes` | `Signing` and `Encodings` together | |
| `RpcErrors` | errors thrown, sent as JSON, and thrown again, between versions that know different classes | what the handler threw |

Run `transactions`: `RecordsKeepTheirMeaning`, `CostsAreRight` (`PaidExactly` and
`ForetoldRightly`), `WithinLimits`, `FieldsAreCurrent`, `TreeIsItsNodes`,
`BytesMeanOneThing`, `ErrorsArrive`.  Inputs: every row of the schemas with the usual values, each optional field left out and each
wrong one, raw pointers (of data, also longer than allowed) in both versions of `NameUpdateTx`; sizes around those at which fee or limit take another byte;
transactions nested up to three deep, of rich, poor, generalized and new
accounts; trees of up to three keys, with any rows dropped and one falsified.
Deadlock is not checked: a computation that gave its result has stopped.

`ReadsBackAsGiven`, the part of `RecordsKeepTheirMeaning` about what is read, names
one exception: `pointers.ts:46` takes a raw pointer (`ba_...`) whether the
version allows it or not, and version 1 of `NameUpdateTx`, which has no raw
pointers, reads its bytes as the hash of a name (`address.ts:51-57`).

`FieldsAreCurrent` is of calls that have their object to themselves: what two
builds of one object do to each other is the exception the code makes.  That a
height is read and cached is one step of `Answered`, so that an older answer does not
overwrite a newer one in the cache (`chain.ts:74-75`).

Data is abstracted: a packed record is a tag, a version and its items; sizes are
counted, bytes not written; a hash is what it is of and a signature who signed
what, so cryptography is ideal; a byte has eight values.  `TxSchema`,
`TxChecks` and `MPTree` use `RECURSIVE` operators, so nothing is proved in them.

Proved of the others, for any values of their constants:

* `FieldsAreAlwaysCurrent` (`Wire_proofs`), for any objects, calls and requests: a
  call's fields are compared with the chain's height and nonce when it was made and
  when its last field arrived.  `PrepareInv` says it of each call and each field that
  has arrived, so long as no other call was given its object (`FieldsOK`),
  and that a cached height is not ahead of the chain (`ChainOK`).
  `TxPrepareAssumption`: bounds are natural numbers, requests are requests, and
  `Unset` is no number;
* `LimitsAreKept` (`Wire_proofs`), of `TxFees`: gas limit and gas fit into a micro
  block, a transfer and its fee into the balance, though the fee is of another
  amount, and prices are recent.  The first two rest on one lemma about the loop of
  `calculateMinFee` (`FeesGrow`): where each round costs as much or more, so does the
  fee in the end.  The limit is taken with a fee for the greatest limit, which is
  never below the one paid (`LimitLeavesRoom`); a smaller amount never has a greater
  fee (`TransferLeavesRoom`).  For prices, `PricesOK` bounds the age of what is on
  its way and of what is cached, too.  The loop has `MaxRounds` rounds (6 in the
  run, which finds with `RoundsEnd` that the last leaves the fee as it was; 3 are
  enough there).  `TxFeesAssumption`, `PricesAssumption`: the parameters are natural
  numbers; `TasksAssumption`: sizes and values are, a transaction has no fee besides
  a price, and a price is not below the minimal one, as no node asks for less;
* `BytesAlwaysMeanOneThing` (`Wire_proofs`): the invariant has which strings
  (`TextOK`), signatures (`SignedOK`) and tokens (`TokenOK`) there can be after any
  changes on their way; the rest follows from how each kind of content is put
  together.  No number that `encodeVarUInt` encodes is the beginning of another
  (`VarUIntsAreApart`): the first byte tells how many follow, for any number of
  values of a byte above 4, as three of them are markers (`EncodingsAssumption`);
* `ErrorsAlwaysArrive` (`WalletAepp_proofs`), for any versions of both ends: an
  answer on its way is of what the handler threw (`AnswersOK`), and two
  classes never have one code (`CodesAreApart`).  `RpcErrorsAssumption` keeps the
  code of a class that only the other end has apart from the codes known here.

## 11. What is proved, checked, and left out

Proved by TLAPS, for all values of the constants that satisfy the named
assumptions (TLC evaluates each assumption on the instances it checks):

| module | theorems and the properties they state | more than the module's assumptions |
|---|---|---|
| `ChannelFsm_proofs` | `TypeCorrect` (`TypeOK`), `MessagesAreServed` (`NoMessageForgotten`), `ActionsAreServed` (`NoActionForgotten`), `ImplementsRequestQueue` (`InOrder`), `NothingBeforeOpen` (`NothingRequestedBeforeOpen`), `AcceptedWasSigned` (`AcceptedUpdateWasSigned`), `DropsAreStale` (`DroppedOnlyByStaleResult`) | none |
| | `ClosedStaysClosed` (`ClosedForGood`) | `~Reentrant` |
| | `RequestsAreTracked` (`EveryRequestTracked`), `ImplementsSerialQueue` (`OneAtATime`) | `~Reentrant`, no `ShutdownAck` |
| `Wire_proofs` | `SilenceIsNoticed` (`NoticedInTime`), `AnsweringNodeIsKept` (`NeverDroppedEarly`), `CallsAreAnswered` (`FirstAnswerCounts`), `FieldsAreAlwaysCurrent` (`FieldsAreCurrent`), `LimitsAreKept` (`WithinLimits`), `BytesAlwaysMeanOneThing` (`BytesMeanOneThing`) | none |
| `MiddlewareSubscriber_proofs` | `SocketsStayInStep` (`SocketInStep`), `NoneLeftBehind` (`NobodyLeftBehind`) | none |
| `WalletAepp_proofs` | `SessionsStayInOrder` (`SessionsInOrder`), `AeppsStayUpToDate` (`AeppsUpToDate`), `ErrorsAlwaysArrive` (`ErrorsArrive`) | none |
| `TxSending_proofs` | `QueueKeepsOrder` (`QueueInOrder`), `CallsEndByTheChain` (`EndsByTheChain`) | none |
| `Services_proofs` | `OracleKeepsOrder` (`OracleInOrder`), `BatchesKeepOrder` (`BatchesInOrder`), `FetchesKeepOrder` (`FetchesInOrder`), `FailuresHurtOnce`, `WalksAreWhole` (`WalkIsWhole`) | none |
| `Flows_proofs` | `SdkStaysInOrder` (`SdkInOrder`), `ContractStaysInOrder` (`ContractInOrder`), `NamesAreKept` (`NamesKept`), `AccountsStayInOrder` (`AccountsInOrder`) | none |

Each argument is in the section of its component: the property is not inductive
as it stands, and the invariant that is adds what the code relies on without
saying it.  TLC finds the invariants to hold on the instances of the runs, too
(`QueueOK` with tickets up to the number of calls, the types left out where they
are infinite sets).

`QueueLemmas` has what several proofs cite about sequences as queues, and that a
set of numbers has a least element and a bounded one a largest.  That is how
an induction over a number is done here where one is needed: the theorems of
induction take an operator as a parameter, which the provers cannot be given,
but the least element of the set of counterexamples needs none.

Only model-checked, on the bounds given:

* liveness: `QueuesServed`, `HeardOrDropped`, `ServedOrTold`, `NothingLeftOpen`,
  `EveryCallEnds`, `EverythingIsAnswered` (but for `FailuresAreForgotten`), which
  is out of the prover's reach;
* `RecordsKeepTheirMeaning`, `TreeIsItsNodes` and, of `CostsAreRight`,
  `ForetoldRightly`, whose modules compute with `RECURSIVE` operators;
* the other part of `CostsAreRight`, `PaidExactly`: that the least fee is found, and
  that it pays, holds for the protocol's constants and the sizes of its numbers
  only, not for any.

Not modelled, in any module:

* amount formatting and versions (`utils/amount-formatter.ts`, `semver-satisfies.ts`): pure, and covered
  by unit tests at their edges;
* the encoding of typed data and of contract values, delegated to libraries;
* RLP, base58 and base64 bytes, and the cryptography under `crypto.ts`;
* the getters of `chain.ts` and of names, which hand on what the node says;
* the compilers, asked as a whole by `ContractFlow`;
* `AccountMetamask`, which hands on what the snap signs;
* generated API clients, tooling, examples and tests.

## 12. Disagreements met while modelling

`channel_unheard` is a run of its own.  The others were met in the code, and are
modelled as the code does it; where a property would be broken by one, its
comment names the exception.

| where | what the code does |
|---|---|
| `channel/Spend.ts:393` | `sendMessage` goes out while an update is pending; its comment says it waits (365-366) |
| `channel/handlers.ts:184` | a channel reconnected by its id is open without an id |
| `channel/handlers.ts:182` | `awaitingReconnection` waits for a reply with the message queue locked |
| `channel/handlers.ts:331` | `channelOpen.enter` sets the status `open` over `closing` and `disconnected` |
| `channel/Contract.ts:468` | an unexpected message while calls are pruned leads to `channelClosed`, though the channel is open |
| `MiddlewareSubscriber.ts:115` | the queue of requests outlives the socket: replies are matched to the wrong requests (121) |
| `MiddlewareSubscriber.ts:104` | a late `close` of a former socket forgets the one in use |
| `AeSdkBase.ts:200`, `:249` | `selectedNodeName !== null` is always true: the name is `undefined` when none is selected |
| `contract/Contract.ts:551` | a name is resolved into `address` before it is asked whether it was a name |
| `contract/Contract.ts:560` | only a contract without the field `active` is refused: an inactive one (`false`) is not, unlike what the error says (`utils/errors.ts:473`) |
| `channel/handlers.ts:80` | an unexpected message while a channel is being opened leads to `channelOpen`: operations are requested of a channel that is not open |
| `contract/Contract.ts:299` | a `$deploy` that rejected may have created its contract; the address is not set, and the next one creates another |
| `aens.ts:296` | the salt of a preclaim that was not waited for is kept, though it may never be mined |
| `tx/builder/field-types/pointers.ts:46` | a raw pointer is packed although `allowRaw` is off; version 1 of `NameUpdateTx` reads it as a name |
| `tx/builder/schema.ts:79` | the ttl of a name is said to be at most 50000 blocks; 180000 are accepted (82) |
| `contract/ga.ts:82` | `createGeneralizedAccount` resolves although `init` was reverted |
| `tx/builder/schema.ts:332` | the nonce of `ChannelWithdrawTx` is said to be of `fromId`, which it does not have: its signer is undefined |
| `tx/transaction-signer.ts` | the signer of a transaction of an oracle given by its name is the name |
| `tx/execution-cost.ts` | the amount the initiator puts into a channel is not counted |
| `tx/builder/helpers.ts:227` | `computeBidFee` does not use the increment it is given |
| `tx/builder/entry/schema.ts:126` | an entry of a name with pointers cannot be packed |
| `tx/builder/field-types/mptree.ts:146` | `get` of a key that is not there throws, also in a complete tree |
| `Middleware.ts:89` | a path with a name that has a dash is not found among the operations |
| `Oracle.ts:108`, `Node.ts` `_isHyperchain` | a failure is kept: no further check, the same rejection |
