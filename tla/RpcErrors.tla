------------------------------- MODULE RpcErrors -------------------------------
(***************************************************************************)
(* The errors of aepp-wallet messages (src/src/aepp-wallet-communication/  *)
(* schema.ts): what a handler throws on one side becomes JSON (src/src/    *)
(* aepp-wallet-communication/rpc/RpcClient.ts), and the JSON an error of   *)
(* the same class that rejects the request on the other side. The peer may *)
(* use another version of the SDK, with a class this one does not have.    *)
(***************************************************************************)
EXTENDS Integers

CONSTANTS NoData, NewerCode

\* The code of each class, and the classes whose constructor takes data.
RpcErrorClasses ==
    {"RpcInvalidTransactionError", "RpcRejectedByUserError", "RpcUnsupportedProtocolError",
     "RpcConnectionDenyError", "RpcNotAuthorizeError", "RpcPermissionDenyError", "RpcInternalError",
     "RpcNoNetworkById", "RpcMethodNotFoundError"}
RpcErrorCodes == [class \in RpcErrorClasses |->
    CASE class = "RpcInvalidTransactionError" -> 2 [] class = "RpcRejectedByUserError" -> 4
      [] class = "RpcUnsupportedProtocolError" -> 5 [] class = "RpcConnectionDenyError" -> 9
      [] class = "RpcNotAuthorizeError" -> 10 [] class = "RpcPermissionDenyError" -> 11
      [] class = "RpcInternalError" -> 12 [] class = "RpcNoNetworkById" -> 13
      [] class = "RpcMethodNotFoundError" -> -32601]
WithData == {"RpcInvalidTransactionError", "RpcRejectedByUserError", "RpcConnectionDenyError",
             "RpcPermissionDenyError", "RpcNoNetworkById"}
\* mutant: a copied class keeps the code of the one it was copied from, and is not registered.
Registered_Most == RpcErrorClasses \ {"RpcNoNetworkById"}
Registered == RpcErrorClasses

toJSON(e) == [code |-> IF e.class \in RpcErrorClasses THEN RpcErrorCodes[e.class] ELSE NewerCode, data |-> e.data]
\* mutant: the data of the error is left to the class.
deserialize_Bare(json) ==
    LET found == {c \in Registered : RpcErrorCodes[c] = json.code} IN
    IF found = {} THEN NoData ELSE [class |-> CHOOSE c \in found : TRUE, data |-> NoData]
deserialize(json) ==
    LET found == {c \in Registered : RpcErrorCodes[c] = json.code} IN
    IF found = {} THEN NoData
    ELSE LET class == CHOOSE c \in found : TRUE IN
         [class |-> class, data |-> IF class \in WithData THEN json.data ELSE NoData]
-----------------------------------------------------------------------------
CONSTANTS RequestIds, PeerClasses  \* requests, and the classes the peer has
Errors == [class : PeerClasses \cup RpcErrorClasses \cup {"TypeError", "result"}, data : {NoData, "data", "private"}]
JsonErrors == [code : {RpcErrorCodes[c] : c \in RpcErrorClasses} \cup {NewerCode}, data : {NoData, "data", "private"}]
\* Only the peer knows the code of its newer classes; a result is no class of errors, and what
\* is not there is no error.
ASSUME RpcErrorsAssumption ==
    /\ "result" \notin PeerClasses
    /\ \A c \in RpcErrorClasses : RpcErrorCodes[c] # NewerCode
    /\ NoData \notin Errors \cup JsonErrors
VARIABLES
    thrown,         \* of a request: the error its handler threw, or NoData
    responses,      \* on their way: [id, error or result]
    callbacks,      \* #callbacks: the requests that wait for an answer
    settled         \* of a request: what its promise was settled with
rpcvars == <<thrown, responses, callbacks, settled>>

RpcInit == /\ thrown = [id \in RequestIds |-> NoData] /\ responses = {} /\ callbacks = {}
           /\ settled = [id \in RequestIds |-> NoData]
RpcRequest(id) ==
    /\ id \notin callbacks /\ settled[id] = NoData /\ thrown[id] = NoData /\ callbacks' = callbacks \cup {id}
    /\ UNCHANGED <<thrown, responses, settled>>
Unanswered(id) == id \in callbacks /\ thrown[id] = NoData /\ \A r \in responses : r.id # id
\* Errors of other kinds, of the handler or the user of the SDK, are not told to the peer.
Revealed(e) == IF e.class \in PeerClasses THEN e ELSE [class |-> "RpcInternalError", data |-> NoData]
HandlerThrows(id, e) ==
    /\ Unanswered(id) /\ thrown' = [thrown EXCEPT ![id] = e]
    /\ responses' = responses \cup {[id |-> id, error |-> toJSON(Revealed(e))]}
    /\ UNCHANGED <<callbacks, settled>>
HandlerReturns(id) ==
    /\ Unanswered(id) /\ thrown' = [thrown EXCEPT ![id] = [class |-> "result", data |-> NoData]]
    /\ responses' = responses \cup {[id |-> id, error |-> NoData]}
    /\ UNCHANGED <<callbacks, settled>>
\* An error nobody has a class for is thrown while it is read: the request stays pending.
processResponse(r) ==
    LET e == IF r.error = NoData THEN [class |-> "result", data |-> NoData] ELSE deserialize(r.error) IN
    /\ r \in responses /\ responses' = responses \ {r} /\ r.id \in callbacks
    /\ IF e = NoData THEN UNCHANGED <<callbacks, settled>>
       ELSE callbacks' = callbacks \ {r.id} /\ settled' = [settled EXCEPT ![r.id] = e]
    /\ UNCHANGED thrown
ErrorsOf(classes) == [class : classes, data : {NoData}] \cup [class : classes \cap WithData, data : {"data"}]
RpcNext == \/ \E id \in RequestIds : \/ RpcRequest(id) \/ HandlerReturns(id)
                                     \/ \E e \in ErrorsOf(PeerClasses) \cup {[class |-> "TypeError", data |-> "private"]} :
                                           HandlerThrows(id, e)
           \/ \E r \in responses : processResponse(r)
RpcSpec == RpcInit /\ [][RpcNext]_rpcvars
-----------------------------------------------------------------------------
(* Properties *)

\* A request is rejected with the very error the handler threw, its data included; but with
\* an internal error, and nothing of the handler's own, if that was no error of the protocol.
ErrorArrivesAsThrown ==
    \A id \in RequestIds : settled[id] # NoData =>
        \/ settled[id] = thrown[id]
        \/ thrown[id].class \notin PeerClasses /\ settled[id].class = "RpcInternalError" /\ settled[id].data = NoData

\* A request that was answered is settled, unless its answer is on its way or of a class that
\* only the peer has.
AnsweredIsSettled ==
    \A id \in RequestIds : (thrown[id] # NoData /\ id \in callbacks) =>
        \/ \E r \in responses : r.id = id
        \/ thrown[id].class \in PeerClasses \ RpcErrorClasses

\* What a handler throws is what its caller gets.
ErrorsArrive == ErrorArrivesAsThrown /\ AnsweredIsSettled

=============================================================================
