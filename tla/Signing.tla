-------------------------------- MODULE Signing --------------------------------
(***************************************************************************)
(* What an account signs (src/src/account/Memory.ts, src/src/utils/        *)
(* typed-data.ts, src/src/utils/jwt.ts, hashMessage of src/src/utils/      *)
(* crypto.ts) and how a signature is verified. The bytes that are signed   *)
(* are a sequence of parts; a hash is the pair <<"hash", what it is of>>,  *)
(* a signature the record of who signed which bytes.                       *)
(***************************************************************************)
EXTENDS Integers, Sequences

CONSTANTS
    Addresses, Networks, Texts,     \* Texts: messages, transactions, delegations and data alike
    TypedAs,                        \* the types data may be of
    None,                           \* an option not given
    Undefined                       \* one given as undefined
ASSUME SigningAssumption == None \notin Addresses

hash(bytes) == <<"hash", bytes>>
messagePrefixLength == "0x1a"

\* mutant: the transaction of somebody who is paid for is signed as any other.
getBufferToSign_AnyTx(tx, networkId, innerTx) == <<networkId, hash(tx)>>
getBufferToSign(tx, networkId, innerTx) ==
    IF innerTx THEN <<networkId, "-inner_tx", hash(tx)>> ELSE <<networkId, hash(tx)>>

\* The prefix is followed by the length of the text, which ends it.
hashMessage(text) == hash(<<messagePrefixLength, "messagePrefix", "length", text>>)

\* domain: [name, networkId, contractAddress], each of them optional.
hashDomain(domain) == hash(<<domain>>)
hashJson(aci) == hash(<<aci>>)
hashTypedData(data, aci, domain) ==
    hash(<<messagePrefixLength, "0x00", hashDomain(domain), hashJson(aci), hash(<<data>>)>>)

delegationBytes(delegation, networkId) == <<messagePrefixLength, "0x01", networkId, delegation>>

jwtBody(payload) == <<"header", ".", payload>>
-----------------------------------------------------------------------------
(* An account signs what it is asked to; what is made is kept: signatures    *)
(* with what they were asked for, tokens, which may be changed on their way. *)

VARIABLES signed, token
sgvars == <<signed, token>>

Domains == [name : {"aepp"}, networkId : Networks \cup {None}, contractAddress : {None, "ct"}]
Asked(kind, of, networkId, type, domain, innerTx) ==
    [kind |-> kind, of |-> of, networkId |-> networkId, type |-> type, domain |-> domain, innerTx |-> innerTx]
bytesFor(a) ==
    CASE a.kind = "transaction" -> getBufferToSign(a.of, a.networkId, a.innerTx)
      [] a.kind = "message" -> hashMessage(a.of)
      [] a.kind = "data" -> hashTypedData(a.of, a.type, a.domain)
      [] a.kind = "delegation" -> delegationBytes(a.of, a.networkId)
      [] a.kind = "jwt" -> jwtBody(a.of)

SgInit == signed = {} /\ token = None
unsafeSign(address, a) == [by |-> address, bytes |-> bytesFor(a), for |-> a]

\* Transactions and delegations are refused without a network.
SignTransaction(address, tx, networkId, innerTx) ==
    /\ signed = {} /\ token = None
    /\ signed' = {unsafeSign(address, Asked("transaction", tx, networkId, None, None, innerTx))}
    /\ UNCHANGED token
SignMessage(address, text) ==
    /\ signed = {} /\ token = None
    /\ signed' = {unsafeSign(address, Asked("message", text, None, None, None, FALSE))}
    /\ UNCHANGED token
SignTypedData(address, data, aci, domain) ==
    /\ signed = {} /\ token = None
    /\ signed' = {unsafeSign(address, Asked("data", data, None, aci, domain, FALSE))}
    /\ UNCHANGED token
SignDelegation(address, delegation, networkId) ==
    /\ signed = {} /\ token = None
    /\ signed' = {unsafeSign(address, Asked("delegation", delegation, networkId, None, None, FALSE))}
    /\ UNCHANGED token

verifySignature(bytes, signature, address) == signature.by = address /\ signature.bytes = bytes

\* The key of the signer is added, unless another was given or none is wanted.
Jwk(address) == [kty |-> "OKP", x |-> address]
\* mutant: the payload is signed before the key is added to it.
SignJwt_Early(address, claims, jwk) ==
    /\ signed = {} /\ token = None
    /\ LET payload == [claims |-> claims, sub_jwk |-> IF jwk = None THEN Jwk(address) ELSE None]
           early == [payload EXCEPT !.sub_jwk = None]
           made == [header |-> "header", payload |-> payload,
                    signature |-> unsafeSign(address, Asked("jwt", early, None, None, None, FALSE))] IN
       token' = [now |-> made, made |-> made, by |-> address]
    /\ UNCHANGED signed
SignJwt(address, claims, jwk) ==
    /\ signed = {} /\ token = None
    /\ LET payload == [claims |-> claims,
                       sub_jwk |-> CASE jwk = None -> Jwk(address) [] jwk = Undefined -> None [] OTHER -> jwk]
           made == [header |-> "header", payload |-> payload,
                    signature |-> unsafeSign(address, Asked("jwt", payload, None, None, None, FALSE))] IN
       token' = [now |-> made, made |-> made, by |-> address]
    /\ UNCHANGED signed
\* The payload, or the header, of a token arrives changed.
Change ==
    /\ token # None /\ token.now = token.made
    /\ \/ \E claims \in Texts, key \in {None} \cup {Jwk(a) : a \in Addresses} :
              token' = [token EXCEPT !.now.payload = [claims |-> claims, sub_jwk |-> key]]
       \/ token' = [token EXCEPT !.now.header = "other"]
    /\ token'.now # token.made
    /\ UNCHANGED signed

\* mutant: a token without a key of its own is taken from whoever is asked about.
unpackJwt_Trusting(jwt, address) ==
    LET jwk == jwt.payload.sub_jwk
        signer == IF jwk = None \/ jwk.kty # "OKP" THEN address ELSE jwk.x IN
    IF jwt.header # "header" \/ (address # None /\ signer # address) THEN [ok |-> FALSE, signer |-> None]
    ELSE IF jwk # None /\ ~verifySignature(jwtBody(jwt.payload), jwt.signature, signer)
         THEN [ok |-> FALSE, signer |-> None]
    ELSE [ok |-> TRUE, signer |-> signer]
unpackJwt(jwt, address) ==
    LET jwk == jwt.payload.sub_jwk
        signer == IF jwk = None \/ jwk.kty # "OKP" THEN address ELSE jwk.x IN
    IF jwt.header # "header" \/ (address # None /\ signer # address) THEN [ok |-> FALSE, signer |-> None]
    ELSE IF signer # None /\ ~verifySignature(jwtBody(jwt.payload), jwt.signature, signer)
         THEN [ok |-> FALSE, signer |-> None]
    ELSE [ok |-> TRUE, signer |-> signer]
isJwt(jwt) == unpackJwt(jwt, None).ok
verifyJwt(jwt, address) == unpackJwt(jwt, address).signer # None

SgNext ==
    \/ \E a \in Addresses, t \in Texts :
          \/ SignMessage(a, t)
          \/ \E n \in Networks : SignDelegation(a, t, n) \/ \E inner \in BOOLEAN : SignTransaction(a, t, n, inner)
          \/ \E aci \in TypedAs, d \in Domains : SignTypedData(a, t, aci, d)
          \/ \E jwk \in {None, Undefined, [kty |-> "RSA", x |-> a]} \cup {Jwk(b) : b \in Addresses} : SignJwt(a, t, jwk)
    \/ Change
-----------------------------------------------------------------------------
(* Properties *)

Requests ==
    {Asked("message", t, None, None, None, FALSE) : t \in Texts}
    \cup {Asked("delegation", t, n, None, None, FALSE) : t \in Texts, n \in Networks}
    \cup {Asked("transaction", t, n, None, None, i) : t \in Texts, n \in Networks, i \in BOOLEAN}
    \cup {Asked("data", t, None, aci, d, FALSE) : t \in Texts, aci \in TypedAs, d \in Domains}

\* A signature is good for what the account was asked to sign, on its network and in its role
\* (paid for or not), as data of its type and in its domain, and for nothing else: not as a
\* signature of another kind either.
GoodForOneThing ==
    \A s \in signed : \A r \in Requests, a \in Addresses :
        verifySignature(bytesFor(r), s, a) => r = s.for /\ a = s.by

\* A token that is verified was made as it is by the account asked about, or by the one it names.
VerifiedIsSigned ==
    token # None => \A a \in Addresses \cup {None} :
        verifyJwt(token.now, a) =>
            /\ token.now = token.made
            /\ a # None => token.by = a
            /\ a = None => token.now.payload.sub_jwk = Jwk(token.by)

\* A token as it was made is one, and is verified for its signer, unless it names another key.
SignedIsVerified ==
    (token # None /\ token.now = token.made) =>
        LET key == token.made.payload.sub_jwk IN
        \/ key # None /\ key.kty = "OKP" /\ key.x # token.by
        \/ isJwt(token.now) /\ verifyJwt(token.now, token.by)
=============================================================================
