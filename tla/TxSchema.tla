------------------------------- MODULE TxSchema -------------------------------
(***************************************************************************)
(* Records of the transaction builder (src/src/tx/builder): transactions,  *)
(* entries of the state trees and delegations are packed by the schema of  *)
(* their tag and version, and unpacked by the one they name themselves.    *)
(* RLP and base64 are abstracted: a packed record is its tag, version and  *)
(* the items its fields were serialized to.                                *)
(***************************************************************************)
EXTENDS Integers, Sequences, FiniteSets, TLC

CONSTANTS
    Missing,        \* undefined, of a field
    Wrong,          \* an exception
    MinGasPrice, MinNameFee,
    Computed        \* what fee and gasLimit are without being given
-----------------------------------------------------------------------------
(* The schemas: [tag, version, optional: of the version, fields, sender: the *)
(* senderKey of the nonce]. The kind of a field follows from its name.       *)

Schema(tag, version, optional, sender, fields) ==
    [tag |-> tag, version |-> version, optional |-> optional, sender |-> sender, fields |-> fields]

nameTxs == LET S(t, v, o, f) == Schema(t, v, o, "accountId", <<"accountId", "nonce">> \o f \o <<"fee", "ttl">>) IN
  { Schema("SignedTx", 1, TRUE, "none", <<"signatures", "encodedTx">>),
    Schema("SpendTx", 1, TRUE, "senderId",
           <<"senderId", "recipientId", "amount", "fee", "ttl", "nonce", "payload">>),
    S("NamePreclaimTx", 1, TRUE, <<"commitmentId">>),
    S("NameClaimTx", 2, TRUE, <<"name", "nameSalt", "nameFee">>),
    S("NameUpdateTx", 1, TRUE, <<"nameId", "nameTtl", "pointers", "clientTtl">>),
    S("NameUpdateTx", 2, FALSE, <<"nameId", "nameTtl", "pointers", "clientTtl">>),
    S("NameTransferTx", 1, TRUE, <<"nameId", "recipientId">>),
    S("NameRevokeTx", 1, TRUE, <<"nameId">>) }

contractTxs == LET
  S(t, sender, f) == Schema(t, 1, TRUE, sender, <<sender, "nonce">> \o f)
  runs == <<"gasLimit", "gasPrice", "callData">>
  ttl(of) == <<of \o "TtlType", of \o "TtlValue">> IN
  { S("ContractCreateTx", "ownerId", <<"code", "ctVersion", "fee", "ttl", "deposit", "amount">> \o runs),
    S("ContractCallTx", "callerId", <<"contractId", "abiVersion", "fee", "ttl", "amount">> \o runs),
    S("OracleRegisterTx", "accountId", <<"queryFormat", "responseFormat", "queryFee">> \o ttl("oracle")
        \o <<"fee", "ttl", "abiVersion">>),
    S("OracleExtendTx", "oracleId", ttl("oracle") \o <<"fee", "ttl">>),
    S("OracleQueryTx", "senderId", <<"oracleId", "query", "queryFee">> \o ttl("query") \o ttl("response")
        \o <<"fee", "ttl">>),
    S("OracleRespondTx", "oracleId", <<"queryId", "response">> \o ttl("response") \o <<"fee", "ttl">>) }

channelTxs == LET
  S(t, f) == Schema(t, 1, TRUE, "fromId", <<"channelId">> \o f \o <<"nonce">>)
  solo == <<"fromId", "payload">>  final == <<"fromId", "initiatorAmountFinal", "responderAmountFinal">>
  end == <<"ttl", "fee">>  state == <<"stateHash", "round">> IN
  { Schema("ChannelCreateTx", 2, TRUE, "initiator",
           <<"initiator", "initiatorAmount", "responder", "responderAmount", "channelReserve", "lockPeriod",
             "ttl", "fee", "initiatorDelegateIds", "responderDelegateIds", "stateHash", "nonce">>),
    S("ChannelCloseMutualTx", final \o end), S("ChannelSettleTx", final \o end),
    S("ChannelCloseSoloTx", solo \o <<"poi">> \o end), S("ChannelSlashTx", solo \o <<"poi">> \o end),
    S("ChannelSnapshotSoloTx", solo \o end),
    S("ChannelDepositTx", <<"fromId", "amount">> \o end \o state),
    S("ChannelWithdrawTx", <<"toId", "amount">> \o end \o state) }

otherTxs == LET S(t, v, sender, f) == Schema(t, v, TRUE, sender, f) IN
  { S("ChannelForceProgressTx", 1, "fromId", <<"channelId", "fromId", "payload", "round", "update",
      "stateHash", "offChainTrees", "ttl", "fee", "nonce">>),
    S("ChannelOffChainTx", 2, "none", <<"channelId", "round", "stateHash">>),
    S("GaAttachTx", 1, "ownerId", <<"ownerId", "nonce", "code", "authFun", "ctVersion", "fee", "ttl",
      "gasLimit", "gasPrice", "callData">>),
    S("GaMetaTx", 2, "none", <<"gaId", "authData", "abiVersion", "fee", "gasLimit", "gasPrice", "tx">>),
    S("PayingForTx", 1, "payerId", <<"payerId", "nonce", "fee", "tx">>) }

txSchema == nameTxs \cup contractTxs \cup channelTxs \cup otherTxs

entrySchemas == LET S(t, v, f) == Schema(t, v, TRUE, "none", f) IN
  { Schema("Account", 1, FALSE, "none", <<"nonce", "balance">>),
    S("Account", 2, <<"flags", "nonce", "balance", "gaContract", "gaAuthFun">>),
    S("Name", 1, <<"accountId", "nameTtl", "status", "clientTtl", "pointers">>),
    S("Contract", 1, <<"owner", "ctVersion", "code", "log", "active", "referers", "deposit">>),
    S("ContractCall", 2, <<"callerId", "callerNonce", "height", "contractId", "gasPrice", "gasUsed",
      "returnValue", "returnType", "log">>),
    S("Oracle", 1, <<"accountId", "queryFormat", "responseFormat", "queryFee", "oracleTtlValue", "abiVersion">>),
    S("Channel", 3, <<"initiator", "responder", "channelAmount", "initiatorAmount", "responderAmount",
      "channelReserve", "initiatorDelegateIds", "responderDelegateIds", "stateHash", "round", "soloRound",
      "lockPeriod", "lockedUntil", "initiatorAuth", "responderAuth">>) }
updateSchemas == LET S(t, f) == Schema("ChannelOffChainUpdate" \o t, 1, TRUE, "none", f) IN
  { S("Transfer", <<"from", "to", "amount">>), S("Deposit", <<"from", "amount">>),
    S("Withdraw", <<"from", "amount">>),
    S("CreateContract", <<"owner", "ctVersion", "code", "deposit", "callData">>),
    S("CallContract", <<"caller", "contract", "abiVersion", "amount", "callData", "callStack", "gasPrice",
      "gasLimit">>) }
Mtrees == "contracts" :> "ContractsMtree" @@ "calls" :> "CallsMtree" @@ "channels" :> "ChannelsMtree"
          @@ "ns" :> "NameserviceMtree" @@ "oracles" :> "OraclesMtree" @@ "accounts" :> "AccountsMtree"
treeSchemas == LET S(t, v, f) == Schema(t, v, TRUE, "none", f) IN
  { S("TreesPoi", 1, <<"poiAccounts", "poiCalls", "poiChannels", "poiContracts", "poiNs", "poiOracles">>),
    S("StateTrees", 0, <<"contracts", "calls", "channels", "ns", "oracles", "accounts">>),
    S("MtreeValue", 1, <<"key", "value">>),
    S("GaMetaTxAuthData", 1, <<"fee", "gasPrice", "txHash">>) }
  \cup {S(Mtrees[m], 1, <<"payload">>) : m \in DOMAIN Mtrees}

delegationSchemas == LET S(t, f) == Schema(t, 1, TRUE, "none", f \o <<"contractAddress">>) IN
  { S("AensWildcard", <<"accountAddress">>), S("AensName", <<"accountAddress", "nameId">>),
    S("AensPreclaim", <<"accountAddress">>), S("DelegationOracle", <<"accountAddress">>),
    S("OracleResponse", <<"queryId">>) }

Schemas == [tx |-> txSchema, entry |-> entrySchemas \cup updateSchemas \cup treeSchemas,
            delegation |-> delegationSchemas]
-----------------------------------------------------------------------------
(* The kinds of the fields *)

idTagToEncoding == <<"ak", "nm", "cm", "ok", "ct", "ch">>
IdTags == DOMAIN idTagToEncoding

K(is, of, default) == [is |-> is, of |-> of, default |-> default]
Address(encodings) == K("address", encodings, Missing)
Number(of, default) == K("number", of, default)
Opaque(default) == K("opaque", {}, default)
Record(tags) == K("record", tags, Missing)
Accounts == {"senderId", "accountId", "ownerId", "callerId", "initiator", "responder", "fromId", "toId",
             "gaId", "payerId", "owner", "from", "to", "caller", "accountAddress", "referers"}
Types == {"oracleTtlType", "queryTtlType", "responseTtlType"}

AddressKind(s, f) ==
    CASE f \in Accounts -> Address({"ak"})
      [] f = "recipientId" -> Address(IF s.tag = "SpendTx" THEN {"ak", "ct", "nm"} ELSE {"ak", "nm"})
      [] f = "contractId" -> Address(IF s.tag = "ContractCall" THEN {"ct"} ELSE {"ct", "nm"})
      [] f = "oracleId" -> Address(IF s.tag = "OracleRespondTx" THEN {"ok"} ELSE {"ok", "nm"})
      [] f = "gaContract" -> Address({"ct", "nm"})
      [] f \in {"contract", "contractAddress"} -> Address({"ct"})
      [] f = "commitmentId" -> Address({"cm"})
      [] f = "channelId" -> Address({"ch"})
      [] f = "nameId" -> K("nameId", {"nm"}, Missing)
      [] f = "queryId" /\ s.tag = "OracleResponse" -> K("queryId", {"ok"}, Missing)

\* Calls of contracts are of Fate's ABI (3), of oracles of none (0).
abiVersionOf(s) == IF s.tag \in {"ContractCallTx", "GaMetaTx"} THEN 3 ELSE 0
ctVersionDefault == [vmVersion |-> 8, abiVersion |-> 3]

\* Entries are what a node keeps: only a few of their fields have a default.
NumberKind(s, f) ==
    LET tx == s \in txSchema  Default(n) == IF tx THEN n ELSE Missing IN
    CASE f \in Types -> Number({0, 1}, 0)
      [] f = "returnType" -> Number({0, 1, 2}, Missing)
      [] f = "oracleTtlValue" -> Number(Nat, Default(500))
      [] f \in {"queryTtlValue", "responseTtlValue"} -> Number(Nat, 10)
      [] f = "clientTtl" -> Number(Nat, Default(3600))
      [] f = "nameTtl" -> IF tx THEN Number(1..180000, 180000) ELSE Number(Nat, Missing)
      [] f \in {"nameSalt", "ttl", "queryFee"} -> Number(Nat, 0)
      [] f = "deposit" -> CASE s.tag = "ContractCreateTx" -> Number({0}, 0)
                            [] s.tag = "Contract" -> Number(Nat, 0)
                            [] OTHER -> Number(Nat, Missing)
      [] f = "amount" -> Number(Nat, IF s.tag \in {"SpendTx", "ContractCreateTx", "ContractCallTx"}
                                     THEN 0 ELSE Missing)
      [] f = "nameFee" -> Number(Nat \ (0..MinNameFee - 1), MinNameFee)
      [] f = "gasPrice" -> IF s.tag = "ContractCall" THEN Number(Nat, Missing)
                           ELSE Number(Nat \ (0..MinGasPrice - 1), MinGasPrice)
      [] f = "nonce" -> Number(IF s.tag = "GaAttachTx" THEN {1} ELSE Nat, Missing)
      [] f = "abiVersion" -> Number(Nat, abiVersionOf(s))

Addressed == Accounts \cup {"recipientId", "contractId", "oracleId", "gaContract", "contract",
                            "contractAddress", "commitmentId", "channelId", "nameId"}
Numbered == Types \cup {"returnType", "oracleTtlValue", "queryTtlValue", "responseTtlValue", "clientTtl",
    "nameTtl", "nameSalt", "ttl", "queryFee", "deposit", "amount", "nameFee", "gasPrice", "nonce", "abiVersion"}
KindOf(s, f) ==
    CASE f \in Addressed \/ (f = "queryId" /\ s.tag = "OracleResponse") -> AddressKind(s, f)
      [] f \in Numbered -> NumberKind(s, f)
      [] f \in {"fee", "gasLimit"} /\ s \in txSchema -> Opaque(Computed)
      [] f = "fee" /\ s \notin txSchema -> Number(Nat, 0)
      [] f = "gasLimit" /\ s \notin txSchema -> K("ofTxOnly", {}, Missing)
      [] f = "ctVersion" -> Opaque(ctVersionDefault)
      [] f = "payload" /\ s.tag = "SpendTx" -> Opaque("")
      [] f = "encodedTx" -> Record({})
      [] f = "tx" -> Record({"SignedTx"})
      [] f = "poi" -> Record({"TreesPoi"})
      [] f = "pointers" -> K(IF s.tag = "Name" THEN "function" ELSE "pointers", {s.version = 2}, Missing)
      [] s.tag = "StateTrees" -> K("wrapped", {f}, Missing)
      [] f = "payload" /\ s.tag \in {Mtrees[m] : m \in DOMAIN Mtrees} ->
            K("map", {m \in DOMAIN Mtrees : Mtrees[m] = s.tag}, Missing)
      [] OTHER -> Opaque(Missing)
-----------------------------------------------------------------------------
(* Packing and unpacking *)

\* mutant: a version has to be given.
getSchema_NoDefault(schemas, tag, version) ==
    LET found == {s \in schemas : s.tag = tag /\ s.version = version} IN
    IF version = Missing \/ found = {} THEN Wrong ELSE CHOOSE s \in found : TRUE
getSchema(schemas, tag, version) ==
    LET v == IF version = Missing
             THEN (CHOOSE s \in schemas : s.tag = tag /\ s.optional).version ELSE version
        found == {s \in schemas : s.tag = tag /\ s.version = v} IN
    IF found = {} THEN Wrong ELSE CHOOSE s \in found : TRUE

Only(set) == CHOOSE x \in set : TRUE
SerializeAddress(k, v) ==
    IF v[1] \notin k.of THEN Wrong ELSE <<CHOOSE i \in IdTags : idTagToEncoding[i] = v[1], v[2]>>
\* mutant: the tags of the ids count from 0 when they are read.
DeserializeAddress_FromZero(k, b) ==
    IF b[1] + 1 \notin IdTags \/ idTagToEncoding[b[1] + 1] \notin k.of THEN Wrong
    ELSE <<idTagToEncoding[b[1] + 1], b[2]>>
DeserializeAddress(k, b) ==
    IF b[1] \notin IdTags \/ idTagToEncoding[b[1]] \notin k.of THEN Wrong ELSE <<idTagToEncoding[b[1]], b[2]>>
AnyAddress == Address({idTagToEncoding[i] : i \in IdTags})

\* With raw pointers each one starts with a tag: 1 is an address, 2 is data. Data is taken,
\* with its tag, whether or not the transaction has raw pointers.
Oversized == {"oversized"}      \* data of more than DATA_LENGTH_MAX bytes
SerializePointer(raw, p) ==
    CASE p.id[1] \in AnyAddress.of ->
            [key |-> p.key, id |-> (IF raw THEN <<1>> ELSE <<>>) \o SerializeAddress(AnyAddress, p.id)]
      [] p.id[1] = "ba" /\ p.id[2] \notin Oversized -> [key |-> p.key, id |-> <<2, p.id[2]>>]
      [] OTHER -> Wrong
DeserializePointer(raw, b) ==
    LET id == CASE ~raw -> DeserializeAddress(AnyAddress, b.id)
                [] raw /\ b.id[1] = 1 -> DeserializeAddress(AnyAddress, Tail(b.id))
                [] raw /\ b.id[1] = 2 -> <<"ba", b.id[2]>>
                [] OTHER -> Wrong IN
    IF id = Wrong THEN Wrong ELSE [key |-> b.key, id |-> id]
All(items) == IF \E i \in DOMAIN items : items[i] = Wrong THEN Wrong ELSE items

KeyOf == "contracts" :> "ct" @@ "calls" :> "ba" @@ "channels" :> "ch" @@ "ns" :> "nm"
         @@ "oracles" :> "ok" @@ "accounts" :> "ak"
EntryOf == "contracts" :> "Contract" @@ "calls" :> "ContractCall" @@ "channels" :> "Channel"
           @@ "ns" :> "Name" @@ "oracles" :> "Oracle" @@ "accounts" :> "Account"

\* gas-limit.ts rebuilds the transaction to know the limit: with an entry there
\* is none, and the entry of a name has the function that makes a pointers field.
RECURSIVE Pack(_, _), Unpack(_, _, _)
Family(k) == IF k.of = {"TreesPoi"} THEN "entry" ELSE "tx"
Retagged(p, tags) == IF tags = {} THEN p ELSE [p EXCEPT !.tag = Only(tags)]
TagOf(tags) == IF tags = {} THEN Missing ELSE Only(tags)
MtreeOf(m, v) == [tag |-> Mtrees[m], version |-> Missing, fields |-> ("payload" :> v)]

SerializeMap(m, v) ==
    LET items == {<<k[2], Pack("entry", [v[k] EXCEPT !.tag = EntryOf[m]])>> : k \in DOMAIN v} IN
    IF \E i \in items : i[2] = Wrong THEN Wrong ELSE items
\* A tree of contracts also has the keys of their stores: those are longer.
LongKeys == {"long"}
DeserializeMap(m, b) ==
    LET kept == {i \in b : m # "contracts" \/ i[1] \notin LongKeys}
        r == [k \in {<<KeyOf[m], i[1]>> : i \in kept} |->
                Unpack("entry", (CHOOSE i \in kept : i[1] = k[2])[2], EntryOf[m])] IN
    IF \E k \in DOMAIN r : r[k] = Wrong THEN Wrong ELSE r

SerializeNumber(k, v) == IF v = Missing THEN k.default ELSE IF v \in k.of THEN v ELSE Wrong
SerializeNameId(k, v) == SerializeAddress(k, IF v[1] = "name" THEN <<"nm", v[2]>> ELSE v)
\* A query id is kept as if it was the address of an oracle.
SerializeQueryId(k, v) == SerializeAddress(k, <<"ok", v[2]>>)
DeserializeQueryId(k, b) == <<"oq", DeserializeAddress(k, b)[2]>>
\* The parameters of a nested record get the expected tag, an encoded one is taken as it is.
SerializeRecord(k, v) == Pack(Family(k), IF v.as = "encoded" THEN v.it ELSE Retagged(v.it, k.of))
DeserializeRecord(k, b) ==
    LET r == Unpack(Family(k), b, TagOf(k.of)) IN IF r = Wrong THEN Wrong ELSE [as |-> "params", it |-> r]
SerializeWrapped(k, v) == Pack("entry", MtreeOf(Only(k.of), v))
DeserializeWrapped(k, b) ==
    LET r == Unpack("entry", b, Mtrees[Only(k.of)]) IN IF r = Wrong THEN Wrong ELSE r.fields["payload"]

Serialize(k, v) ==
    CASE k.is = "address" -> SerializeAddress(k, v)
      [] k.is = "nameId" -> SerializeNameId(k, v)
      [] k.is = "queryId" -> SerializeQueryId(k, v)
      [] k.is = "number" -> SerializeNumber(k, v)
      [] k.is = "opaque" -> IF v = Missing THEN k.default ELSE v
      [] k.is = "record" -> SerializeRecord(k, v)
      [] k.is = "pointers" -> IF Len(v) > 32 THEN Wrong
                              ELSE All([i \in DOMAIN v |-> SerializePointer(Only(k.of), v[i])])
      [] k.is = "wrapped" -> SerializeWrapped(k, v)
      [] k.is = "map" -> SerializeMap(Only(k.of), v)
      [] OTHER -> Wrong

Deserialize(k, b) ==
    CASE k.is \in {"address", "nameId"} -> DeserializeAddress(k, b)
      [] k.is = "queryId" -> DeserializeQueryId(k, b)
      [] k.is \in {"number", "opaque", "ofTxOnly"} -> b
      [] k.is = "record" -> DeserializeRecord(k, b)
      [] k.is = "pointers" -> All([i \in DOMAIN b |-> DeserializePointer(Only(k.of), b[i])])
      [] k.is = "wrapped" -> DeserializeWrapped(k, b)
      [] k.is = "map" -> DeserializeMap(Only(k.of), b)
      [] OTHER -> Wrong

\* The least fee is that of the built transaction, which is unpacked for it.
Pack(family, p) ==
    LET s == getSchema(Schemas[family], p.tag, p.version) IN
    IF s = Wrong THEN Wrong ELSE
    LET items == All([i \in DOMAIN s.fields |-> Serialize(KindOf(s, s.fields[i]), p.fields[s.fields[i]])])
        binary == [tag |-> s.tag, version |-> s.version, items |-> items] IN
    IF items = Wrong THEN Wrong
    ELSE IF family = "tx" /\ "fee" \in DOMAIN p.fields /\ Unpack("tx", binary, Missing) = Wrong THEN Wrong
    ELSE binary

\* mutant: the expected tag is not compared with the one that was read.
Unpack_AnyTag(family, binary, expectedTag) ==
    LET s == getSchema(Schemas[family], binary.tag, binary.version)
        Value(f) == Deserialize(KindOf(s, f), binary.items[CHOOSE i \in DOMAIN s.fields : s.fields[i] = f])
        Fields == {s.fields[i] : i \in DOMAIN s.fields} IN
    IF \E f \in Fields : Value(f) = Wrong THEN Wrong
    ELSE [tag |-> s.tag, version |-> s.version, fields |-> [f \in Fields |-> Value(f)]]
\* mutant: the version is not kept with what was read.
Unpack_Unversioned(family, binary, expectedTag) ==
    LET s == getSchema(Schemas[family], binary.tag, binary.version)
        Value(f) == Deserialize(KindOf(s, f), binary.items[CHOOSE i \in DOMAIN s.fields : s.fields[i] = f])
        Fields == {s.fields[i] : i \in DOMAIN s.fields} IN
    IF (expectedTag # Missing /\ expectedTag # binary.tag) \/ \E f \in Fields : Value(f) = Wrong THEN Wrong
    ELSE [tag |-> s.tag, version |-> Missing, fields |-> [f \in Fields |-> Value(f)]]
Unpack(family, binary, expectedTag) ==
    LET s == getSchema(Schemas[family], binary.tag, binary.version) IN
    IF s = Wrong THEN Wrong
    ELSE IF expectedTag # Missing /\ expectedTag # binary.tag THEN Wrong
    ELSE IF Len(binary.items) # Len(s.fields) THEN Wrong ELSE
    LET Value(f) == Deserialize(KindOf(s, f), binary.items[CHOOSE i \in DOMAIN s.fields : s.fields[i] = f])
        Fields == {s.fields[i] : i \in DOMAIN s.fields} IN
    IF \E f \in Fields : Value(f) = Wrong THEN Wrong
    ELSE [tag |-> s.tag, version |-> s.version, fields |-> [f \in Fields |-> Value(f)]]
-----------------------------------------------------------------------------
(* What is read off a transaction *)

\* mutant: the signer is looked for among the fields of the signed transaction itself.
RECURSIVE getTransactionSignerAddress(_)
getTransactionSignerAddress_Outer(tx) ==
    LET sender == getSchema(txSchema, tx.tag, tx.version).sender IN
    IF sender \in DOMAIN tx.fields THEN tx.fields[sender] ELSE Wrong
\* mutant: the address of an oracle is taken as it is.
getTransactionSignerAddress_Oracle(tx) ==
    CASE tx.tag = "SignedTx" -> getTransactionSignerAddress(tx.fields["encodedTx"].it)
      [] tx.tag = "GaMetaTx" -> tx.fields["gaId"]
      [] OTHER -> getTransactionSignerAddress_Outer(tx)
getTransactionSignerAddress(tx) ==
    CASE tx.tag = "SignedTx" -> getTransactionSignerAddress(tx.fields["encodedTx"].it)
      [] tx.tag = "GaMetaTx" -> tx.fields["gaId"]
      [] OTHER ->
            LET sender == getSchema(txSchema, tx.tag, tx.version).sender IN
            IF sender \notin DOMAIN tx.fields THEN Wrong
            ELSE IF tx.fields[sender][1] = "ok" THEN <<"ak", tx.fields[sender][2]>> ELSE tx.fields[sender]

\* The hash of the owner and the nonce is kept as the pair.
buildContractIdByContractTx(tx) ==
    LET t == IF tx.tag = "SignedTx" THEN tx.fields["encodedTx"].it ELSE tx IN
    IF t.tag \notin {"ContractCreateTx", "GaAttachTx"} THEN Wrong
    ELSE <<"ct", t.fields["ownerId"], t.fields["nonce"]>>
-----------------------------------------------------------------------------
(* A record given to the SDK, packed, and read again from the binary *)

CONSTANT Inputs     \* [family, params, typical: whether it is a usual one]
VARIABLES given, packed, unpacked
tsvars == <<given, packed, unpacked>>

TsInit == given \in Inputs /\ packed = Missing /\ unpacked = Missing

Build ==
    /\ packed = Missing /\ packed' = Pack(given.family, given.params)
    /\ UNCHANGED <<given, unpacked>>

\* A node packs a tree of contracts together with what they store.
NodeAddsStore ==
    /\ packed # Missing /\ packed # Wrong /\ unpacked = Missing
    /\ given.params.tag = Mtrees["contracts"] /\ packed.items[1] # {}
    /\ ~\E i \in packed.items[1] : i[1] \in LongKeys
    /\ packed' = [packed EXCEPT !.items[1] = @ \cup {<<"long", "store">>}]
    /\ UNCHANGED <<given, unpacked>>

Read ==
    /\ packed # Missing /\ packed # Wrong /\ unpacked = Missing
    /\ unpacked' = Unpack(given.family, packed, given.params.tag)
    /\ UNCHANGED <<given, packed>>

TsNext == Build \/ NodeAddsStore \/ Read
-----------------------------------------------------------------------------
(* Properties *)

\* What a record reads back as: the values given, or the default ones.
\* An exception: the tag of data is the one of a name where there are no raw pointers.
RECURSIVE Completed(_, _)
CompletedPointer(raw, p) ==
    IF p.id[1] = "ba" /\ ~raw THEN [p EXCEPT !.id = <<"nm", p.id[2]>>] ELSE p
CompletedValue(k, v) ==
    CASE k.is = "nameId" -> <<"nm", v[2]>>
      [] k.is = "pointers" -> [i \in DOMAIN v |-> CompletedPointer(Only(k.of), v[i])]
      [] k.is \in {"number", "opaque"} -> IF v = Missing THEN k.default ELSE v
      [] k.is = "record" -> [as |-> "params", it |-> Completed(Family(k), Retagged(v.it, k.of))]
      [] k.is = "map" -> [x \in DOMAIN v |-> Completed("entry", v[x])]
      [] k.is = "wrapped" -> [x \in DOMAIN v |-> Completed("entry", v[x])]
      [] OTHER -> v
Completed(family, p) ==
    LET s == getSchema(Schemas[family], p.tag, p.version) IN
    [tag |-> p.tag, version |-> s.version,
     fields |-> [f \in DOMAIN p.fields |-> CompletedValue(KindOf(s, f), p.fields[f])]]

\* A packed record (buildTx, packEntry, packDelegation) reads back as it was given, with the
\* defaults for what was left out, nested records and the trees of a node included; but a raw
\* pointer (ba_) of a NameUpdateTx of version 1, which its types do not allow and serialize
\* takes (pointers.ts:46), reads back as a name that was never given.
ReadsBackAsGiven ==
    unpacked # Missing => unpacked = Completed(given.family, given.params)

\* Packing what was unpacked gives the same bytes: the SDK rebuilds nested transactions to
\* find who signs them, what they cost and whether their signatures fit.
PacksAgainTheSame ==
    unpacked \notin {Missing, Wrong} =>
        LET again == Pack(given.family, unpacked) IN
        \/ again = packed
        \/ given.params.tag = Mtrees["contracts"] /\ again.items[1] \subseteq packed.items[1]

\* The entries that cannot be packed: see KindOf for the one, Serialize for the other.
NeverPacked == {"Name", "ChannelOffChainUpdateCallContract"}
\* A usual record of every other tag and version can be packed.
EveryTagPacks ==
    packed = Wrong => ~given.typical \/ given.params.tag \in NeverPacked

\* A record is never taken for one of another type than the reader expects.
RefusedUnlessExpected ==
    packed \notin {Missing, Wrong} =>
        \A s \in Schemas[given.family] : s.tag # packed.tag => Unpack(given.family, packed, s.tag) = Wrong

\* Signing changes neither whose transaction it is nor the address of its contract.
SignedAndBareAgree ==
    (unpacked \notin {Missing, Wrong} /\ unpacked.tag = "SignedTx") =>
        LET inner == unpacked.fields["encodedTx"].it IN
        /\ getTransactionSignerAddress(unpacked) = getTransactionSignerAddress(inner)
        /\ buildContractIdByContractTx(unpacked) = buildContractIdByContractTx(inner)

\* "Returns account address that signed a transaction" (transaction-signer.ts:7): it does, of an
\* oracle too, for every transaction that has a nonce but ChannelWithdrawTx, whose nonce is said
\* to be of a fromId it does not have, and unless the oracle is given by its name.
SignerIsAnAccount ==
    (unpacked \notin {Missing, Wrong} /\ given.family = "tx" /\ "nonce" \in DOMAIN unpacked.fields) =>
        \/ unpacked.tag = "ChannelWithdrawTx"
        \/ LET signer == getTransactionSignerAddress(unpacked) IN
           signer # Wrong /\ signer[1] \in {"ak"} \cup (IF "oracleId" \in DOMAIN unpacked.fields THEN {"nm"} ELSE {})

\* Bytes and records of the builder say the same: of what type, with which
\* fields, and whose.
RecordsKeepTheirMeaning ==
    /\ ReadsBackAsGiven /\ PacksAgainTheSame /\ EveryTagPacks /\ RefusedUnlessExpected
    /\ SignedAndBareAgree /\ SignerIsAnAccount

=============================================================================
