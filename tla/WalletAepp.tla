----------------------------- MODULE WalletAepp -----------------------------
(***************************************************************************)
(* Aepps and a wallet talking JSON-RPC over browser connections:           *)
(* src/src/AeSdkWallet.ts, AeSdkAepp.ts, WalletConnectorFrame*.ts, with    *)
(* the RpcClient and the BrowserConnection under both.  A session is a     *)
(* connection object with the RpcClient at each of its ends.  Messages of  *)
(* a session arrive in order in each direction; the wallet's user answers  *)
(* and its node is asked between the steps of a handler.                   *)
(***************************************************************************)
EXTENDS Integers, Sequences, FiniteSets

CONSTANTS
    Sessions, Aepps, Accounts, Nodes,
    Setups,         \* the ways to tie sessions to aepps: see SetupType
    None,           \* no session, no account, no node, no view
    HomeNode, HomeAccount,      \* what the wallet is made with
    MaxRequests,    \* bound: requests of a session, the connect included
    MaxOps          \* bound: what the wallet's user and its node do unasked

Ops == 1..MaxOps
Ids == 1..MaxRequests

\* owner: the aepp of a session; kind: AeSdkAepp or a WalletConnectorFrame;
\* transport: window messages or an extension's port.  The rest are bounds:
\* the sessions in use, the requests of each, the unasked operations.
SetupType == [sessions : SUBSET Sessions, requests : [Sessions -> Ids], ops : 0..MaxOps,
              owner : [Sessions -> Aepps],
              kind : [Aepps -> {"sdk", "frame"}],
              transport : [Sessions -> {"window", "runtime"}]]

ASSUME SetupAssumption == Setups \subseteq SetupType /\ Setups # {}
ASSUME NoneAssumption ==
    /\ None \notin Sessions \cup Accounts \cup Nodes
    /\ None \notin [current : SUBSET Accounts, connected : SUBSET Accounts]
ASSUME HomeAssumption == HomeNode \in Nodes /\ HomeAccount \in Accounts
ASSUME BoundAssumption == MaxRequests \in Nat /\ MaxOps \in Nat

VARIABLES
    setup,      \* chosen once
    \* the wallet
    known,      \* the keys of _clients
    status,     \* RpcClientsInfo.status, "new" before addRpcClient
    subs,       \* RpcClientsInfo.addressSubscription
    heard,      \* sessions whose wallet end has its listener attached
    accounts, selected, node,
    tasks,      \* handlers that await the user or the node
    fetching,   \* selectNode calls that await getNetworkId
    ops,
    \* the aepps
    rpc,        \* rpcClient of an aepp
    view,       \* _accounts, #accounts
    net,        \* what updateNetwork was last called with
    attached,   \* sessions whose aepp end has its listener attached
    calls,      \* #callbacks of the session's RpcClient: id and method
    lastId,     \* its #messageId
    \* between them
    toWallet, toAepp,
    \* history
    accepted,   \* sessions whose connect was answered with the wallet info
    overlapped, \* aepps that had two sessions attached at a time
    raced       \* a node was selected while another answer was awaited

wallet == <<known, status, subs, heard>>
purse == <<accounts, selected>>
aepp == <<rpc, view, net, attached, accepted, overlapped>>
rest == <<setup, wallet, purse, node, tasks, fetching, ops, aepp, calls, lastId, raced>>
vars == <<rest, toWallet, toAepp>>

Owner(s) == setup.owner[s]
Window(s) == setup.transport[s] = "window"
Sdk(a) == setup.kind[a] = "sdk"
SessionsOf(a) == {s \in Sessions : Owner(s) = a}

-----------------------------------------------------------------------------
(* Messages.  A port that one end closed drops what is sent on it; a       *)
(* window takes messages whether or not anybody listens.                   *)

Methods == {"connect", "subscribe", "unsubscribe", "address", "sign", "updateNetwork"}
Request(id, method, arg) == [type |-> "request", id |-> id, method |-> method, arg |-> arg]
Notification(method, value) == [type |-> "notify", method |-> method, value |-> value]
Result(t, value) == [type |-> "result", id |-> t.id, method |-> t.method, value |-> value]
Failure(t, why) == [type |-> "error", id |-> t.id, method |-> t.method, why |-> why]
PortClosed == [type |-> "closed", method |-> "closed"]

Flows(s) == Window(s) \/ s \in heard \cap attached
Sent(queues, s, m) == IF Flows(s) THEN [queues EXCEPT ![s] = Append(@, m)] ELSE queues
SentAll(queues, msgs) ==
    [s \in Sessions |-> IF s \in DOMAIN msgs /\ Flows(s)
                        THEN Append(queues[s], msgs[s]) ELSE queues[s]]

\* The end that lets go of a port makes the other end's onDisconnect fire.
Closed(queues, s) == IF Window(s) THEN queues ELSE [queues EXCEPT ![s] = Append(@, PortClosed)]

-----------------------------------------------------------------------------
(* The wallet's answers *)

_isRpcClientConnected(s) == s \in known /\ status[s] = "connected" /\ s \in heard

\* mutant: no account selected is not looked for.
getAccounts_NullSelected == [current |-> {selected}, connected |-> accounts \ {selected}]

getAccounts == [current |-> IF selected = None THEN {} ELSE {selected},
                connected |-> accounts \ {selected}]

_getAccountsForClient(all, sub) ==
    [current |-> IF sub # {} THEN all.current ELSE {},
     connected |-> IF "connected" \in sub THEN all.connected ELSE {}]

\* Everything but the queues of a handler that only sends a reply.
Answers(t, m) ==
    /\ tasks' = tasks \ {t}
    /\ toAepp' = Sent(toAepp, t.s, m)

Subscribers == {s \in Sessions : _isRpcClientConnected(s) /\ subs[s] # {}}

\* With two pushes in a row (addAccount of a selected account) the second
\* repeats the first.
_pushAccountsToApps(all, times) ==
    LET update(s) == Notification("updateAddress", _getAccountsForClient(all, subs[s]))
        once(queues) == SentAll(queues, [s \in Subscribers |-> update(s)])
    IN toAepp' = IF times = 2 THEN once(once(toAepp)) ELSE once(toAepp)

\* _disconnectRpcClient and removeRpcClient.  A window connection calls its
\* own onDisconnect, which deletes the client; a port does not.
Dropped(s, removed) ==
    /\ heard' = heard \ {s}
    /\ status' = [status EXCEPT ![s] = "disconnected"]
    /\ subs' = [subs EXCEPT ![s] = {}]
    /\ known' = IF removed \/ Window(s) THEN known \ {s} ELSE known

-----------------------------------------------------------------------------
(* What the wallet's user does *)

WalletOp == ops < setup.ops /\ ops' = ops + 1

\* addRpcClient; the wallet then announces itself until the aepp connects.
AddRpcClient(s) ==
    /\ status[s] = "new" /\ s \in setup.sessions
    /\ status' = [status EXCEPT ![s] = "waiting"]
    /\ known' = known \cup {s}
    /\ heard' = heard \cup {s}
    /\ UNCHANGED <<setup, subs, purse, node, tasks, fetching, ops, aepp, calls, lastId,
                   raced, toWallet, toAepp>>

\* removeRpcClient throws when the connection was let go of before.  The
\* wallet examples say goodbye to a connected aepp first.
RemoveRpcClient(s, bye) ==
    /\ WalletOp
    /\ s \in known \cap heard
    /\ bye => status[s] = "connected"
    /\ Dropped(s, TRUE)
    /\ toAepp' = Closed(IF bye THEN Sent(toAepp, s, Notification("closeConnection", None))
                        ELSE toAepp, s)
    /\ UNCHANGED <<setup, purse, node, tasks, fetching, aepp, calls, lastId, raced, toWallet>>

\* mutant: the accounts are pushed before they change.
PurseChange_PushedFirst(added, chosen, times) ==
    /\ WalletOp
    /\ accounts' = added
    /\ selected' = chosen
    /\ _pushAccountsToApps(getAccounts, times)
    /\ UNCHANGED <<setup, wallet, node, tasks, fetching, aepp, calls, lastId, raced, toWallet>>

PurseChange(added, chosen, times) ==
    /\ WalletOp
    /\ accounts' = added
    /\ selected' = chosen
    /\ _pushAccountsToApps([current |-> IF chosen = None THEN {} ELSE {chosen},
                            connected |-> added \ {chosen}], times)
    /\ UNCHANGED <<setup, wallet, node, tasks, fetching, aepp, calls, lastId, raced, toWallet>>

selectAccount(a) == a \in accounts /\ PurseChange(accounts, a, 1)
addAccount(a, select) ==
    PurseChange(accounts \cup {a}, IF select THEN a ELSE selected, IF select THEN 2 ELSE 1)

\* removeAccount of AeSdk is not overridden: nobody is told.
removeAccount(a) ==
    /\ WalletOp
    /\ a \in accounts
    /\ accounts' = accounts \ {a}
    /\ selected' = IF selected = a THEN None ELSE selected
    /\ UNCHANGED <<setup, wallet, node, tasks, fetching, aepp, calls, lastId, raced,
                   toWallet, toAepp>>

\* selectNode up to its await; t is the request that asked for it, if any.
Selects(n, t) ==
    /\ node' = n
    /\ fetching' = fetching \cup {[node |-> n, for |-> t]}
    /\ raced' = (raced \/ fetching # {} \/ \E u \in tasks : u.stage = "info")

selectNode(n) ==
    /\ WalletOp
    /\ Selects(n, [s |-> None, id |-> ops])
    /\ UNCHANGED <<setup, wallet, purse, tasks, aepp, calls, lastId, toWallet, toAepp>>

\* mutant: only those subscribed for accounts are told.
NetworkSelected_Subscribers(f) ==
    LET pushed == SentAll(toAepp, [s \in Subscribers |->
                      Notification("updateNetwork", [networkId |-> f.node, node |-> node])])
    IN /\ fetching' = fetching \ {f}
       /\ toAepp' = IF f.for.s = None THEN pushed
                    ELSE Sent(pushed, f.for.s, Result(f.for, "null"))
       /\ UNCHANGED <<setup, wallet, purse, node, tasks, ops, aepp, calls, lastId, raced, toWallet>>

\* getNetworkId answered: every connected client is told, with the node
\* selected by now; then the request that asked for the node is answered.
NetworkSelected(f) ==
    LET told == {s \in Sessions : _isRpcClientConnected(s)}
        pushed == SentAll(toAepp, [s \in told |->
                      Notification("updateNetwork", [networkId |-> f.node, node |-> node])])
    IN /\ fetching' = fetching \ {f}
       /\ toAepp' = IF f.for.s = None THEN pushed
                    ELSE Sent(pushed, f.for.s, Result(f.for, "null"))
       /\ UNCHANGED <<setup, wallet, purse, node, tasks, ops, aepp, calls, lastId, raced, toWallet>>

\* The node does not answer: nobody is told, the request fails.
NetworkUnknown(f) ==
    /\ WalletOp
    /\ fetching' = fetching \ {f}
    /\ raced' = TRUE
    /\ toAepp' = IF f.for.s = None THEN toAepp
                 ELSE Sent(toAepp, f.for.s, Failure(f.for, "internal"))
    /\ UNCHANGED <<setup, wallet, purse, node, tasks, aepp, calls, lastId, toWallet>>

-----------------------------------------------------------------------------
(* Requests at the wallet.  The head of the queue is handled up to its     *)
(* first await; what follows is a task.                                    *)

Hears(s, method) ==
    /\ s \in heard
    /\ toWallet[s] # <<>>
    /\ Head(toWallet[s]).method = method
    /\ toWallet' = [toWallet EXCEPT ![s] = Tail(@)]

Task(s, stage) ==
    LET m == Head(toWallet[s])
    IN [s |-> s, id |-> m.id, method |-> m.method, arg |-> m.arg, stage |-> stage, node |-> node]

Awaits(s, stage) ==
    /\ tasks' = tasks \cup {Task(s, stage)}
    /\ UNCHANGED <<wallet, toAepp>>

Refuses(s, why) ==
    /\ toAepp' = Sent(toAepp, s, Failure(Head(toWallet[s]), why))
    /\ UNCHANGED <<wallet, tasks>>

\* Both ends are of one RPC_VERSION.
HearsConnect(s) == Hears(s, "connect") /\ Awaits(s, "user")

\* The methods that need a connected client and then the user's word.  An
\* unknown client is refused with an error of its own, here not told apart.
HearsQuestion(s) ==
    \E method \in {"subscribe", "address", "updateNetwork"} :
        /\ Hears(s, method)
        /\ IF _isRpcClientConnected(s) THEN Awaits(s, "user") ELSE Refuses(s, "notAuthorized")

HearsUnsubscribe(s) ==
    /\ Hears(s, "unsubscribe")
    /\ IF ~_isRpcClientConnected(s) THEN Refuses(s, "notAuthorized")
       ELSE LET m == Head(toWallet[s])
                left == subs[s] \ {m.arg}
            IN /\ subs' = [subs EXCEPT ![s] = left]
               /\ toAepp' = Sent(toAepp, s, Result(m, _getAccountsForClient(getAccounts, left)))
               /\ UNCHANGED <<known, status, heard, tasks>>

\* All of sign, signMessage, signTypedData, unsafeSign, signDelegation: the
\* account has to be the wallet's; for a transaction and a delegation the node
\* is then asked for its id, the others are the account's to sign at once.
HearsSign(s) ==
    /\ Hears(s, "sign")
    /\ CASE ~_isRpcClientConnected(s) -> Refuses(s, "notAuthorized")
         [] _isRpcClientConnected(s) /\ Head(toWallet[s]).arg \notin accounts ->
                Refuses(s, "permissionDeny")
         [] OTHER -> \E stage \in {"network", "user"} : Awaits(s, stage)

HearsGoodbye(s) ==
    /\ Hears(s, "closeConnection")
    /\ Dropped(s, FALSE)
    /\ toAepp' = Closed(toAepp, s)
    /\ UNCHANGED tasks

\* The port's onDisconnect: the listeners stay.
HearsPortClosed(s) ==
    /\ Hears(s, "closed")
    /\ known' = known \ {s}
    /\ UNCHANGED <<status, subs, heard, tasks, toAepp>>

MissesAtWallet(s) ==
    /\ s \notin heard
    /\ toWallet[s] # <<>>
    /\ toWallet' = [toWallet EXCEPT ![s] = Tail(@)]
    /\ UNCHANGED <<wallet, tasks, toAepp>>

WalletHears(s) ==
    /\ \/ HearsConnect(s) \/ HearsQuestion(s) \/ HearsUnsubscribe(s) \/ HearsSign(s)
       \/ HearsGoodbye(s) \/ HearsPortClosed(s) \/ MissesAtWallet(s)
    /\ UNCHANGED <<setup, purse, node, fetching, ops, aepp, calls, lastId, raced>>

-----------------------------------------------------------------------------
(* After the awaits.  Nobody looks again whether the client is still       *)
(* connected.                                                              *)

\* mutant: an error of the callback is thrown on without an answer.
UserRejects_Unanswered(t) ==
    /\ t.stage = "user"
    /\ tasks' = tasks \ {t}
    /\ UNCHANGED <<toAepp, wallet, fetching, raced, node>>

\* The callback of the wallet throws.
UserRejects(t) ==
    /\ t.stage = "user"
    /\ Answers(t, Failure(t, "rejected"))
    /\ UNCHANGED <<wallet, fetching, raced, node>>

\* onConnection resolved; getWalletInfo asks the node selected now.
ConnectionAccepted(t) ==
    /\ t.method = "connect" /\ t.stage = "user"
    /\ status' = [status EXCEPT ![t.s] = "connected"]
    /\ tasks' = (tasks \ {t}) \cup {[t EXCEPT !.stage = "info", !.node = node]}
    /\ raced' = (raced \/ fetching # {})
    /\ UNCHANGED <<known, subs, heard, fetching, node, toAepp>>

WalletInfoSent(t) ==
    /\ t.stage = "info"
    /\ Answers(t, Result(t, [networkId |-> t.node, node |-> node]))
    /\ UNCHANGED <<wallet, fetching, raced, node>>

\* The node does not answer: the client stays connected, the aepp is refused.
WalletInfoFails(t) ==
    /\ t.stage \in {"info", "network"}
    /\ Answers(t, Failure(t, "internal"))
    /\ UNCHANGED <<wallet, fetching, raced, node>>

SubscriptionAccepted(t) ==
    /\ t.method = "subscribe" /\ t.stage = "user"
    /\ subs' = [subs EXCEPT ![t.s] = @ \cup {t.arg}]
    /\ Answers(t, Result(t, _getAccountsForClient(getAccounts, subs'[t.s])))
    /\ UNCHANGED <<known, status, heard, fetching, raced, node>>

AccountsShown(t) ==
    /\ t.method = "address" /\ t.stage = "user"
    /\ Answers(t, Result(t, accounts))
    /\ UNCHANGED <<wallet, fetching, raced, node>>

\* onAskToSelectNetwork selects the node and resolves with selectNode.
NetworkAccepted(t) ==
    /\ t.method = "updateNetwork" /\ t.stage = "user"
    /\ Selects(t.arg, t)
    /\ tasks' = tasks \ {t}
    /\ UNCHANGED <<wallet, toAepp>>

\* The account may have been removed while the node was asked.
AccountResolved(t) ==
    /\ t.method = "sign" /\ t.stage = "network"
    /\ IF t.arg \in accounts
       THEN tasks' = (tasks \ {t}) \cup {[t EXCEPT !.stage = "user"]} /\ UNCHANGED toAepp
       ELSE Answers(t, Failure(t, "internal"))
    /\ UNCHANGED <<wallet, fetching, raced, node>>

\* Signed for the network the wallet was on when asked.
Signed(t) ==
    /\ t.method = "sign" /\ t.stage = "user"
    /\ Answers(t, Result(t, <<t.arg, t.node>>))
    /\ UNCHANGED <<wallet, fetching, raced, node>>

Proceeds(t) ==
    /\ \/ UserRejects(t) \/ ConnectionAccepted(t) \/ WalletInfoSent(t) \/ SubscriptionAccepted(t)
       \/ AccountsShown(t) \/ NetworkAccepted(t) \/ AccountResolved(t) \/ Signed(t)
    /\ UNCHANGED <<setup, purse, ops, aepp, calls, lastId, toWallet>>

NodeFails(t) ==
    /\ WalletOp
    /\ WalletInfoFails(t)
    /\ UNCHANGED <<setup, purse, aepp, calls, lastId, toWallet>>

-----------------------------------------------------------------------------
(* The aepp *)

\* mutant: the callback is kept under the id of the request before.
Calls_OldId(s, method, arg) ==
    /\ lastId[s] < setup.requests[s]
    /\ lastId' = [lastId EXCEPT ![s] = @ + 1]
    /\ calls' = [calls EXCEPT ![s] = @ \cup {[id |-> lastId[s], method |-> method]}]
    /\ toWallet' = Sent(toWallet, s, Request(lastId'[s], method, arg))
    /\ UNCHANGED <<setup, wallet, purse, node, tasks, fetching, ops, raced, toAepp>>

\* request: #messageId grows, the message goes, the callback is kept unless
\* sending throws, as on a port this end let go of.
Calls(s, method, arg) ==
    /\ lastId[s] < setup.requests[s]
    /\ lastId' = [lastId EXCEPT ![s] = @ + 1]
    /\ calls' = IF Window(s) \/ s \in attached
                THEN [calls EXCEPT ![s] = @ \cup {[id |-> lastId'[s], method |-> method]}]
                ELSE calls
    /\ toWallet' = Sent(toWallet, s, Request(lastId'[s], method, arg))
    /\ UNCHANGED <<setup, wallet, purse, node, tasks, fetching, ops, raced, toAepp>>

\* connectToWallet and _connect with a connection that was never used.  The
\* sdk has its rpcClient only after the answer.
Connect(s) ==
    LET a == Owner(s)
    IN /\ lastId[s] = 0 /\ status[s] # "new"
       /\ Sdk(a) => rpc[a] = None
       /\ ~Sdk(a) => \A other \in SessionsOf(a) : lastId[other] = 0
       /\ attached' = attached \cup {s}
       /\ rpc' = IF Sdk(a) THEN rpc ELSE [rpc EXCEPT ![a] = s]
       /\ overlapped' = IF SessionsOf(a) \cap attached # {} THEN overlapped \cup {a} ELSE overlapped
       /\ lastId' = [lastId EXCEPT ![s] = 1]
       /\ calls' = [calls EXCEPT ![s] = {[id |-> 1, method |-> "connect"]}]
       /\ toWallet' = [toWallet EXCEPT ![s] = Append(@, Request(1, "connect", None))]
       /\ UNCHANGED <<setup, wallet, purse, node, tasks, fetching, ops, view, net, accepted,
                      raced, toAepp>>

\* _ensureConnected, then subscribeAddress, askAddresses, askToSelectNetwork.
Asks(s) ==
    /\ rpc[Owner(s)] = s
    /\ \/ \E method \in {"subscribe", "unsubscribe"}, value \in {"current", "connected"} :
              Calls(s, method, value)
       \/ Calls(s, "address", None)
       \/ \E n \in Nodes : Calls(s, "updateNetwork", n)
    /\ UNCHANGED aepp

\* _resolveAccount makes an AccountRpc of an address in view; such an
\* account keeps the client it was made with, and may be used later.
AsksToSign(s) ==
    /\ s \in accepted
    /\ \E a \in Accounts : Calls(s, "sign", a)
    /\ UNCHANGED aepp

\* The callback given to connection.connect.
OnDisconnect(a) ==
    /\ rpc' = [rpc EXCEPT ![a] = None]
    /\ view' = [view EXCEPT ![a] = None]

\* mutant: letting a window connection go does not call onDisconnect.
LetsGo_Quietly(s) ==
    /\ attached' = attached \ {s}
    /\ UNCHANGED <<rpc, view>>

LetsGo(s) ==
    /\ attached' = attached \ {s}
    /\ IF Window(s) THEN OnDisconnect(Owner(s)) ELSE UNCHANGED <<rpc, view>>

\* mutant: the wallet is not notified.
Disconnect_Silent(s) ==
    /\ rpc[Owner(s)] = s /\ s \in attached
    /\ LetsGo(s)
    /\ toWallet' = Closed(toWallet, s)
    /\ UNCHANGED <<setup, wallet, purse, node, tasks, fetching, ops, net, accepted, overlapped,
                   calls, lastId, raced, toAepp>>

\* disconnectWallet, WalletConnectorFrameBase.disconnect.
Disconnect(s) ==
    /\ rpc[Owner(s)] = s /\ s \in attached
    /\ LetsGo(s)
    /\ toWallet' = Closed(Sent(toWallet, s, Notification("closeConnection", None)), s)
    /\ UNCHANGED <<setup, wallet, purse, node, tasks, fetching, ops, net, accepted, overlapped,
                   calls, lastId, raced, toAepp>>

Gets(s, type, method) ==
    /\ s \in attached
    /\ toAepp[s] # <<>>
    /\ Head(toAepp[s]).type = type /\ Head(toAepp[s]).method = method
    /\ toAepp' = [toAepp EXCEPT ![s] = Tail(@)]

\* #processResponse: a response nobody waits for throws.
Settles(s) == calls' = [calls EXCEPT ![s] = {c \in @ : c.id # Head(toAepp[s]).id}]

GetsWalletInfo(s) ==
    /\ Gets(s, "result", "connect") /\ Settles(s)
    /\ net' = [net EXCEPT ![Owner(s)] = Head(toAepp[s]).value]
    /\ rpc' = IF Sdk(Owner(s)) THEN [rpc EXCEPT ![Owner(s)] = s] ELSE rpc
    /\ accepted' = accepted \cup {s}
    /\ UNCHANGED <<view, attached, overlapped, toWallet>>

GetsSubscription(s) ==
    /\ \E method \in {"subscribe", "unsubscribe"} : Gets(s, "result", method)
    /\ Settles(s)
    /\ view' = [view EXCEPT ![Owner(s)] = Head(toAepp[s]).value]
    /\ UNCHANGED <<rpc, net, attached, accepted, overlapped, toWallet>>

GetsAnswer(s) ==
    /\ \/ \E method \in {"address", "sign", "updateNetwork"} : Gets(s, "result", method)
       \/ \E method \in Methods : Gets(s, "error", method)
    /\ Settles(s)
    /\ UNCHANGED <<aepp, toWallet>>

GetsAccounts(s) ==
    /\ Gets(s, "notify", "updateAddress")
    /\ view' = [view EXCEPT ![Owner(s)] = Head(toAepp[s]).value]
    /\ UNCHANGED <<rpc, net, attached, accepted, overlapped, calls, toWallet>>

GetsNetwork(s) ==
    /\ Gets(s, "notify", "updateNetwork")
    /\ net' = [net EXCEPT ![Owner(s)] = Head(toAepp[s]).value]
    /\ UNCHANGED <<rpc, view, attached, accepted, overlapped, calls, toWallet>>

GetsGoodbye(s) ==
    /\ Gets(s, "notify", "closeConnection")
    /\ LetsGo(s)
    /\ toWallet' = Closed(toWallet, s)
    /\ UNCHANGED <<net, accepted, overlapped, calls>>

GetsPortClosed(s) ==
    /\ Gets(s, "closed", "closed")
    /\ OnDisconnect(Owner(s))
    /\ UNCHANGED <<net, attached, accepted, overlapped, calls, toWallet>>

MissesAtAepp(s) ==
    /\ s \notin attached
    /\ toAepp[s] # <<>>
    /\ toAepp' = [toAepp EXCEPT ![s] = Tail(@)]
    /\ UNCHANGED <<aepp, calls, toWallet>>

AeppHears(s) ==
    /\ \/ GetsWalletInfo(s) \/ GetsSubscription(s) \/ GetsAnswer(s) \/ GetsAccounts(s)
       \/ GetsNetwork(s) \/ GetsGoodbye(s) \/ GetsPortClosed(s) \/ MissesAtAepp(s)
    /\ UNCHANGED <<setup, wallet, purse, node, tasks, fetching, ops, lastId, raced>>

-----------------------------------------------------------------------------
Init ==
    /\ setup \in Setups
    /\ known = {} /\ heard = {}
    /\ status = [s \in Sessions |-> "new"]
    /\ subs = [s \in Sessions |-> {}]
    /\ accounts = {HomeAccount} /\ selected = HomeAccount /\ node = HomeNode
    /\ tasks = {} /\ fetching = {} /\ ops = 0
    /\ rpc = [a \in Aepps |-> None]
    /\ view = [a \in Aepps |-> None]
    /\ net = [a \in Aepps |-> None]
    /\ attached = {} /\ accepted = {} /\ overlapped = {} /\ raced = FALSE
    /\ calls = [s \in Sessions |-> {}]
    /\ lastId = [s \in Sessions |-> 0]
    /\ toWallet = [s \in Sessions |-> <<>>]
    /\ toAepp = [s \in Sessions |-> <<>>]

WalletUser ==
    \/ \E s \in Sessions : AddRpcClient(s) \/ \E bye \in BOOLEAN : RemoveRpcClient(s, bye)
    \/ \E a \in Accounts : \/ selectAccount(a) \/ removeAccount(a)
                           \/ \E select \in BOOLEAN : addAccount(a, select)
    \/ \E n \in Nodes : selectNode(n)

WalletNode ==
    \/ \E f \in fetching : NetworkSelected(f) \/ NetworkUnknown(f)
    \/ \E t \in tasks : NodeFails(t)

AeppUser == \E s \in Sessions : Connect(s) \/ Asks(s) \/ AsksToSign(s) \/ Disconnect(s)

Next ==
    \/ WalletUser \/ WalletNode \/ AeppUser
    \/ \E t \in tasks : Proceeds(t)
    \/ \E s \in Sessions : WalletHears(s) \/ AeppHears(s)

Spec == Init /\ [][Next]_vars

\* Messages are delivered, the user answers every question, the node every
\* request.
Serves(s, id) ==
    \/ \E t \in tasks : t.s = s /\ t.id = id /\ Proceeds(t)
    \/ \E f \in fetching : f.for.s = s /\ f.for.id = id /\ NetworkSelected(f)

Fairness ==
    \A s \in Sessions : /\ WF_vars(WalletHears(s)) /\ WF_vars(AeppHears(s))
                        /\ \A id \in Ids : WF_vars(Serves(s, id))

FairSpec == Spec /\ Fairness

-----------------------------------------------------------------------------
(* Properties *)

\* The other end let go of the port, as this end has seen or will see.
PortGone(s) == ~Window(s) /\ s \notin heard

ViewType == [current : SUBSET Accounts, connected : SUBSET Accounts] \cup {None}
NetType == [networkId : Nodes, node : Nodes] \cup {None}

\* Every variable has its type.
TypeOK ==
    /\ setup \in Setups
    /\ known \subseteq Sessions /\ heard \subseteq Sessions
    /\ attached \subseteq Sessions /\ accepted \subseteq Sessions /\ overlapped \subseteq Aepps
    /\ status \in [Sessions -> {"new", "waiting", "connected", "disconnected"}]
    /\ subs \in [Sessions -> SUBSET {"current", "connected"}]
    /\ accounts \subseteq Accounts /\ selected \in Accounts \cup {None}
    /\ node \in Nodes /\ raced \in BOOLEAN /\ ops \in 0..MaxOps
    /\ rpc \in [Aepps -> Sessions \cup {None}]
    /\ view \in [Aepps -> ViewType] /\ net \in [Aepps -> NetType]
    /\ lastId \in [Sessions -> 0..MaxRequests]
    /\ calls \in [Sessions -> SUBSET [id : Ids, method : Methods]]
    /\ \A s \in Sessions : /\ \A i \in DOMAIN toWallet[s] : toWallet[s][i].type \in {"request", "notify", "closed"}
                           /\ \A i \in DOMAIN toAepp[s] : toAepp[s][i].type \in {"result", "error", "notify", "closed"}

\* Where request id of session s is: on its way, with the wallet, answered.
Places(s, id) ==
      Cardinality({i \in DOMAIN toWallet[s] : toWallet[s][i].type = "request" /\ toWallet[s][i].id = id})
    + Cardinality({t \in tasks : t.s = s /\ t.id = id})
    + Cardinality({f \in fetching : f.for.s = s /\ f.for.id = id})
    + Cardinality({i \in DOMAIN toAepp[s] : toAepp[s][i].type \in {"result", "error"} /\ toAepp[s][i].id = id})

\* A request is in one place at a time, and while its session is attached
\* its callback is kept until the one answer: no response meets a missing
\* callback (#processResponse, RpcClient.ts:150), none is used for another
\* request, whatever order the wallet's user answers in.
OneAnswerPerCall ==
    \A s \in Sessions : \A id \in Ids :
        /\ Places(s, id) <= 1
        /\ Places(s, id) = 1 /\ s \in attached => \E c \in calls[s] : c.id = id
        /\ \A i \in DOMAIN toAepp[s] : toAepp[s][i].type \in {"result", "error"} =>
               \A c \in calls[s] : c.id = toAepp[s][i].id => c.method = toAepp[s][i].method

Quiet(s) ==
    /\ toWallet[s] = <<>> /\ toAepp[s] = <<>>
    /\ ~\E t \in tasks : t.s = s

Alone(s) == SessionsOf(Owner(s)) \cap attached = {s} /\ Owner(s) \notin overlapped

\* Once nothing is on its way, an aepp subscribed for accounts has the
\* accounts the wallet would show it now (AeSdkWallet.ts:127-145 pushes what
\* AeSdkAepp.ts:126 and :178 keep).  The wallet removing an account is the
\* exception: what an aepp has may then still hold the account.
ViewUpToDate ==
    \A s \in Sessions :
        Quiet(s) /\ Alone(s) /\ rpc[Owner(s)] = s /\ _isRpcClientConnected(s) /\ subs[s] # {} =>
            LET has == view[Owner(s)]
                shown == _getAccountsForClient(getAccounts, subs[s])
            IN /\ has # None
               /\ shown.connected \subseteq has.connected \cup has.current
               /\ selected # None => shown.current = has.current
               /\ ((has.current \cup has.connected) \cap accounts) \subseteq (shown.current \cup shown.connected)

\* Once nothing is on its way, an aepp has the network of the node the
\* wallet has selected, unless a node was selected while the id of another
\* was awaited (AeSdkWallet.ts:164, :240) or a node did not answer.
NetworkFresh ==
    \A s \in Sessions :
        Quiet(s) /\ Alone(s) /\ s \in accepted /\ _isRpcClientConnected(s) /\ fetching = {} /\ ~raced =>
            net[Owner(s)] = [networkId |-> node, node |-> node]

\* An aepp that connects once at a time has its rpcClient from the answer
\* to its connect until one end lets the connection go, and a window
\* connection that was let go of is nobody's rpcClient (AeSdkAepp.ts:120-123
\* and :144; WalletConnectorFrameBase.ts:74 and :88).
SessionHeld ==
    \A s \in Sessions :
        /\ s \in accepted \cap attached /\ Alone(s) => rpc[Owner(s)] = s \/ PortGone(s)
        /\ Window(s) /\ rpc[Owner(s)] = s => s \in attached
        /\ Window(s) /\ s \in known => s \in heard

\* Requests and sessions of both ends fit each other: every request has one
\* answer to come, and an aepp and the wallet agree on whether they are
\* connected, whoever lets go first.
SessionsInOrder == TypeOK /\ OneAnswerPerCall /\ SessionHeld

\* What an aepp was told last is what the wallet has now: accounts and network.
AeppsUpToDate == ViewUpToDate /\ NetworkFresh

\* A request is answered, or one of the ends is let go of: every way out of
\* a handler (RpcClient.ts:63-90) sends the answer.
EveryCallSettles ==
    \A s \in Sessions : \A id \in Ids :
        (\E c \in calls[s] : c.id = id)
            ~> ((~\E c \in calls[s] : c.id = id) \/ s \notin attached \/ s \notin heard)

\* An aepp that says goodbye is forgotten by the wallet, over a window; a
\* port's client is at least no longer connected (AeSdkWallet.ts:189-194, :222).
GoodbyeHeard ==
    \A s \in Sessions :
        s \in accepted /\ s \notin attached ~> s \notin heard /\ (Window(s) => s \notin known)

\* Whatever one end begins the other ends: requests are answered, and a
\* goodbye is heard.
NothingLeftOpen == EveryCallSettles /\ GoodbyeHeard

=============================================================================
