------------------------------- MODULE TxPrepare -------------------------------
(***************************************************************************)
(* buildTxAsync (src/src/tx/builder/index.ts): the fields of a transaction *)
(* that were not given are asked of the node, all at a time, and put into  *)
(* the object that the caller passed, which other calls may be using.      *)
(***************************************************************************)
EXTENDS Integers, FiniteSets

CONSTANTS
    Builds, Objects,            \* calls of buildTxAsync, and the objects passed to them
    Unset,                      \* undefined
    Requested, FirstRequest,     \* what may be asked to be built
    HeightLag,                  \* the blocks that may be mined while a height is cached
    MaxBlocks, MaxSpent         \* bounds
\* The fields that are looked at before they are asked for.
IsRequest(r) ==
    /\ {"nonce", "ttl", "absoluteTtl", "_isInternalBuild"} \subseteq DOMAIN r
    /\ r.ttl \in Int \cup {Unset}
ASSUME TxPrepareAssumption ==
    /\ {HeightLag, MaxBlocks, MaxSpent} \subseteq Nat /\ Unset \notin Int
    /\ \A r \in Requested \cup {FirstRequest} : IsRequest(r)

VARIABLES
    params,     \* of an object: the fields and the options that its first caller gave
    build,      \* of a call
    used,       \* the calls that got an object
    chain       \* [height, cached: of heightCache, next: nonce, known: the account is, price]
tpvars == <<params, build, used, chain>>

Other == CHOOSE o \in Objects : TRUE
NotStarted == [is |-> "new", object |-> Unset, left |-> {}, height |-> 0, next |-> 0, result |-> Unset]
Fields == {"nonce", "ttl", "fee", "gasPrice", "queryFee", "abiVersion"}

TpInit ==
    /\ params \in {[o \in Objects |-> IF o = Other THEN r ELSE FirstRequest] : r \in Requested}
    /\ build = [b \in Builds |-> NotStarted] /\ used = [o \in Objects |-> {}]
    /\ chain \in [height : {10}, cached : {10}, next : {1}, known : {FALSE}, price : {2}]
-----------------------------------------------------------------------------
(* The fields. AsksX: a request is needed; PrepareX: what it may give.      *)

AsksNonce(p) == p.nonce = Unset
PrepareNonce(b) == (IF chain.known THEN build[b].next .. chain.next ELSE {1}) \ {0}

AsksTtl(p) == ~p.absoluteTtl /\ p.ttl # 0 /\ (p.ttl # Unset \/ p._isInternalBuild)
\* mutant: a cached height is used however old it is.
getHeight_ForEver == {chain.cached, chain.height}
\* Called with `cached`, as it is here.
getHeight == IF chain.height <= chain.cached + HeightLag THEN {chain.cached, chain.height} ELSE {chain.height}
PrepareTtl(p, height) == {(IF p.ttl = Unset THEN 3 ELSE p.ttl) + height}

\* A price of nothing is not put into the field.
PriceOrUnset == {IF chain.price = 0 THEN Unset ELSE chain.price}
PrepareFee == PriceOrUnset
PrepareGasPrice == PriceOrUnset
PrepareQueryFee == {7}

Asks(p) ==
    LET needs == {f \in {"nonce", "fee", "gasPrice", "queryFee"} : f \in DOMAIN p /\ p[f] = Unset} IN
    IF AsksTtl(p) THEN needs \cup {"ttl"} ELSE needs
\* There is one protocol version, so the node is not asked for it.
Prepare(f, p, b, height) ==
    CASE f = "nonce" -> PrepareNonce(b)
      [] f = "ttl" -> PrepareTtl(p, height)
      [] f = "fee" -> PrepareFee
      [] f = "gasPrice" -> PrepareGasPrice
      [] f = "queryFee" -> PrepareQueryFee
-----------------------------------------------------------------------------
(* buildTxAsync *)

\* Every field reads its value before any is written; without a node the first that needs it throws.
buildTxAsync(b, o) ==
    /\ build[b].is = "new" /\ \A d \in used[o] : build[d].is # "new"
    /\ LET p == params[o] IN
       build' = [build EXCEPT ![b] =
           [is |-> IF Asks(p) = {} THEN "built" ELSE IF p.onNode THEN "preparing" ELSE "failed",
            object |-> o, left |-> IF p.onNode THEN Asks(p) ELSE {}, read |-> p,
            height |-> chain.height, next |-> chain.next,
            result |-> IF Asks(p) = {} THEN [params |-> p, height |-> chain.height, next |-> chain.next]
                       ELSE Unset]]
    /\ used' = [used EXCEPT ![o] = @ \cup {b}]
    /\ UNCHANGED <<params, chain>>

\* An answer goes into the object; the last one lets the transaction be built from what is there.
Answered(b, f) ==
    /\ f \in build[b].left
    /\ LET o == build[b].object  last == build[b].left = {f} /\ build[b].is = "preparing" IN
       \E height \in IF f = "ttl" THEN getHeight ELSE {chain.cached} :
       \E v \in Prepare(f, build[b].read, b, height) :
         LET p == [params[o] EXCEPT ![f] = v] IN
         /\ params' = [params EXCEPT ![o] = p]
         /\ build' = [build EXCEPT ![b].left = @ \ {f}, ![b].is = IF last THEN "built" ELSE @,
              ![b].result = IF last THEN [params |-> p, height |-> chain.height, next |-> chain.next] ELSE @]
         /\ chain' = [chain EXCEPT !.cached = height]
    /\ UNCHANGED used

\* mutant: an account is taken for a new one whatever the request failed of.
Failed_ForNew(b, f) ==
    /\ f \in build[b].left /\ UNCHANGED <<used, chain>>
    /\ LET o == build[b].object  last == build[b].left = {f} /\ build[b].is = "preparing"
           p == [params[o] EXCEPT !.nonce = 1] IN
       IF f = "nonce"
       THEN /\ params' = [params EXCEPT ![o] = p]
            /\ build' = [build EXCEPT ![b].left = @ \ {f}, ![b].is = IF last THEN "built" ELSE @,
                 ![b].result = IF last THEN [params |-> p, height |-> chain.height, next |-> chain.next] ELSE @]
       ELSE /\ build' = [build EXCEPT ![b].left = @ \ {f}, ![b].is = "failed"] /\ UNCHANGED params
\* A request fails, and the call with it; the answers to the others still go into the object.
Failed(b, f) ==
    /\ f \in build[b].left
    /\ build' = [build EXCEPT ![b].left = @ \ {f}, ![b].is = "failed"]
    /\ UNCHANGED <<params, used, chain>>

\* The chain (external).
MineKeyBlock == /\ chain.height < 10 + MaxBlocks
                /\ chain' = [chain EXCEPT !.height = @ + 1] /\ UNCHANGED <<params, build, used>>
SpendOther == /\ chain.next <= MaxSpent
              /\ chain' = [chain EXCEPT !.next = @ + (IF chain.known THEN 1 ELSE 0), !.known = TRUE]
              /\ UNCHANGED <<params, build, used>>

TpNext == \/ MineKeyBlock \/ SpendOther
          \/ \E b \in Builds : \/ \E o \in Objects : buildTxAsync(b, o)
                               \/ \E f \in Fields : Answered(b, f) \/ Failed(b, f)
TpSpec == TpInit /\ [][TpNext]_tpvars
-----------------------------------------------------------------------------
(* Properties *)

\* A call is alone when no other one got its object.
BuiltAlone(b) == build[b].is = "built" /\ used[build[b].object] = {b}

\* The ttl of a transaction that is built by the SDK is the wanted number of blocks after a
\* height that the chain had not long before the call, and never later than it has now.
ExpiresSoon ==
    \A b \in Builds :
        LET p == build[b].read  r == build[b].result IN
        (BuiltAlone(b) /\ p._isInternalBuild /\ ~p.absoluteTtl /\ p.ttl # 0) =>
            r.params.ttl - (IF p.ttl = Unset THEN 3 ELSE p.ttl) \in build[b].height - HeightLag .. r.height

\* A nonce that was not given is the next one of the account at some moment of the call,
\* however its requests overlap with the account's other transactions, and with those that fail.
NonceOfTheMoment ==
    \A b \in Builds :
        LET r == build[b].result IN
        (BuiltAlone(b) /\ build[b].read.nonce = Unset) =>
            r.params.nonce \in build[b].next .. r.next

\* The fields prepared by asking the node are of the time of the call.
FieldsAreCurrent == ExpiresSoon /\ NonceOfTheMoment

=============================================================================
