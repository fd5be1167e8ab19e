------------------------------ MODULE SdkContext ------------------------------
(***************************************************************************)
(* The accounts and nodes an AeSdk holds (src/src/AeSdk.ts, AeSdkBase.ts)  *)
(* and the calls made through it (AeSdkMethods.ts): they are handed        *)
(* proxies, so that each read of onAccount and onNode along a call finds   *)
(* what is selected by then.                                               *)
(***************************************************************************)
EXTENDS Naturals, FiniteSets

CONSTANTS
    Ops, Nobody,
    Accounts, NodeNames,
    Network,        \* of the node of a name
    Unverified      \* the calls with verify: false
ASSUME SdkContextAssumption ==
    /\ Nobody \notin Accounts \cup NodeNames /\ Unverified \subseteq Ops
    /\ DOMAIN Network = NodeNames

VARIABLES
    nodes, selectedNode, accounts, selected,    \* of the SDK
    step,                   \* of a call
    given,                  \* its option onAccount
    sender, signer, network, postedTo,          \* of its transaction
    failure,
    disturbed               \* history: calls during which the selection changed

sdk == <<nodes, selectedNode, accounts, selected>>
txs == <<sender, signer, network, postedTo>>
svars == <<sdk, step, given, txs, failure, disturbed>>

Running == {c \in Ops : step[c] \notin {"idle", "done", "failed"}}
Stays == UNCHANGED <<step, given, txs, failure>>
-----------------------------------------------------------------------------
(* The selections *)

AddNode(n, select) ==
    /\ n \notin nodes /\ nodes' = nodes \cup {n}
    /\ selectedNode' = IF select \/ selectedNode = Nobody THEN n ELSE selectedNode
    /\ disturbed' = IF selectedNode' = selectedNode THEN disturbed ELSE disturbed \cup Running
    /\ UNCHANGED <<accounts, selected>> /\ Stays

SelectNode(n) ==
    /\ n \in nodes /\ n # selectedNode /\ selectedNode' = n
    /\ disturbed' = disturbed \cup Running
    /\ UNCHANGED <<nodes, accounts, selected>> /\ Stays

AddAccount(a, select) ==
    /\ a \notin accounts /\ accounts' = accounts \cup {a}
    /\ selected' = IF select THEN a ELSE selected
    /\ disturbed' = IF select THEN disturbed \cup Running ELSE disturbed
    /\ UNCHANGED <<nodes, selectedNode>> /\ Stays

SelectAccount(a) ==
    /\ a \in accounts /\ a # selected /\ selected' = a
    /\ disturbed' = disturbed \cup Running
    /\ UNCHANGED <<nodes, selectedNode, accounts>> /\ Stays

\* mutant: a removed account stays selected.
RemoveAccount_Selected(a) ==
    /\ a \in accounts /\ accounts' = accounts \ {a}
    /\ disturbed' = disturbed \cup Running
    /\ UNCHANGED <<selected, nodes, selectedNode>> /\ Stays

RemoveAccount(a) ==
    /\ a \in accounts /\ accounts' = accounts \ {a}
    /\ selected' = IF selected = a THEN Nobody ELSE selected
    /\ disturbed' = disturbed \cup Running
    /\ UNCHANGED <<nodes, selectedNode>> /\ Stays

-----------------------------------------------------------------------------
(* A call that sends a transaction *)

Keeps == UNCHANGED <<sdk, given, disturbed>>
At(c, s) == step[c] = s
To(c, s) == step' = [step EXCEPT ![c] = s]
FailsWith(c, e) == To(c, "failed") /\ failure' = [failure EXCEPT ![c] = e]

\* mutant: an address is resolved whenever the account is read.
Account_Late(c) == IF given[c] # Nobody /\ given[c] \in accounts THEN given[c] ELSE selected

\* What reading options.onAccount finds.
Account(c) == IF given[c] # Nobody THEN given[c] ELSE selected

\* getContext resolves an address at once.
Begin(c, a) ==
    /\ At(c, "idle")
    /\ given' = [given EXCEPT ![c] = a]
    /\ IF a # Nobody /\ a \notin accounts
       THEN FailsWith(c, "unavailable") ELSE To(c, "building") /\ UNCHANGED failure
    /\ UNCHANGED <<sdk, txs, disturbed>>

\* Without an account or a node the proxies throw.
Unusable(c) ==
    /\ \/ At(c, "building") /\ Account(c) = Nobody
       \/ At(c, "signing") /\ (Account(c) = Nobody \/ selectedNode = Nobody)
       \/ At(c, "verifying") /\ selectedNode = Nobody
       \/ At(c, "posting") /\ selectedNode = Nobody
    /\ FailsWith(c, "unusable")
    /\ UNCHANGED txs /\ Keeps

\* buildTxAsync: the sender; its nonce and ttl are asked of the node.
Build(c) ==
    /\ At(c, "building") /\ Account(c) # Nobody
    /\ sender' = [sender EXCEPT ![c] = Account(c)]
    /\ To(c, "signing")
    /\ UNCHANGED <<signer, network, postedTo, failure>> /\ Keeps

\* mutant: the network of any node of the pool.
Sign_AnyNode(c) ==
    /\ At(c, "signing") /\ Account(c) # Nobody /\ selectedNode # Nobody
    /\ signer' = [signer EXCEPT ![c] = Account(c)]
    /\ \E n \in nodes : network' = [network EXCEPT ![c] = Network[n]]
    /\ To(c, IF c \in Unverified THEN "posting" ELSE "verifying")
    /\ UNCHANGED <<sender, postedTo, failure>> /\ Keeps

\* onAccount.signTransaction(tx, {networkId: await onNode.getNetworkId()}):
\* both proxies are read before the wait.
Sign(c) ==
    /\ At(c, "signing") /\ Account(c) # Nobody /\ selectedNode # Nobody
    /\ signer' = [signer EXCEPT ![c] = Account(c)]
    /\ network' = [network EXCEPT ![c] = Network[selectedNode]]
    /\ To(c, IF c \in Unverified THEN "posting" ELSE "verifying")
    /\ UNCHANGED <<sender, postedTo, failure>> /\ Keeps

Genuine(c, n) == signer[c] = sender[c] /\ network[c] = Network[n]

\* mutant: the signature is not verified.
Verify_Any(c) ==
    /\ At(c, "verifying") /\ selectedNode # Nobody
    /\ To(c, "posting") /\ UNCHANGED failure
    /\ UNCHANGED txs /\ Keeps

\* verifyTransaction, for the network of the node of now.
Verify(c) ==
    /\ At(c, "verifying") /\ selectedNode # Nobody
    /\ IF Genuine(c, selectedNode) THEN To(c, "posting") /\ UNCHANGED failure
                                   ELSE FailsWith(c, "invalidSignature")
    /\ UNCHANGED txs /\ Keeps

\* The node refuses what is not signed by the sender for its network.
Post(c) ==
    /\ At(c, "posting") /\ selectedNode # Nobody
    /\ IF Genuine(c, selectedNode)
       THEN /\ postedTo' = [postedTo EXCEPT ![c] = selectedNode]
            /\ To(c, "polling") /\ UNCHANGED failure
       ELSE FailsWith(c, "refused") /\ UNCHANGED postedTo
    /\ UNCHANGED <<sender, signer, network>> /\ Keeps

\* poll asks the node of now, which knows the transactions of its network.
Poll(c) ==
    /\ At(c, "polling")
    /\ IF Network[selectedNode] = Network[postedTo[c]] THEN To(c, "done") /\ UNCHANGED failure
                                                       ELSE FailsWith(c, "gone")
    /\ UNCHANGED txs /\ Keeps

-----------------------------------------------------------------------------
SInit ==
    /\ nodes = {} /\ selectedNode = Nobody /\ accounts = {} /\ selected = Nobody
    /\ step = [c \in Ops |-> "idle"]
    /\ given = [c \in Ops |-> Nobody] /\ sender = given /\ signer = given /\ network = given
    /\ postedTo = given /\ failure = given /\ disturbed = {}

Moves(c) == Unusable(c) \/ Build(c) \/ Sign(c) \/ Verify(c) \/ Post(c) \/ Poll(c)
SNext ==
    \/ \E n \in NodeNames : SelectNode(n) \/ \E b \in BOOLEAN : AddNode(n, b)
    \/ \E a \in Accounts : \/ SelectAccount(a) \/ RemoveAccount(a)
                           \/ \E b \in BOOLEAN : AddAccount(a, b)
    \/ \E c \in Ops : Moves(c) \/ \E a \in Accounts \cup {Nobody} : Begin(c, a)

SSpec == SInit /\ [][SNext]_svars

-----------------------------------------------------------------------------
(* Properties *)

\* Every variable has its type; what is selected is there.
SdkTypeOK ==
    /\ nodes \subseteq NodeNames /\ accounts \subseteq Accounts
    /\ selectedNode \in nodes \cup {Nobody} /\ selected \in accounts \cup {Nobody}
    /\ step \in [Ops -> {"idle", "building", "signing", "verifying", "posting", "polling",
                         "done", "failed"}]
    /\ {given, sender, signer} \subseteq [Ops -> Accounts \cup {Nobody}]
    /\ postedTo \in [Ops -> NodeNames \cup {Nobody}] /\ disturbed \subseteq Ops

\* A transaction that is verified reaches no node with the signature of
\* another account than its sender's, whatever was selected between building
\* and signing it (the first validator of tx/validator.ts).
NothingForeignPosted ==
    \A c \in Ops \ Unverified : step[c] \in {"posting", "polling", "done"} => signer[c] = sender[c]

\* A call made for an account is of that account from beginning to end, also
\* when another is selected or it is removed while the call runs.
GivenAccountIsUsed == \A c \in Ops : given[c] # Nobody =>
    {sender[c], signer[c]} \subseteq {given[c], Nobody}

\* Unless the selection changes under way, the parts of a call fit together:
\* it fails only for what is not there.
UndisturbedFits == \A c \in Ops \ disturbed : failure[c] \in {Nobody, "unavailable", "unusable"}

\* One call of the SDK is of one account on one network, whatever else is
\* selected, added or removed while it runs.
SdkInOrder == SdkTypeOK /\ NothingForeignPosted /\ GivenAccountIsUsed /\ UndisturbedFits

=============================================================================
