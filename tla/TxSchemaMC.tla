------------------------------ MODULE TxSchemaMC ------------------------------
EXTENDS TxSchema
Sample(k) == IF 1 \in k.of THEN 1 ELSE k.default
RECURSIVE Typical(_)
TypicalValue(s, f) ==
    LET k == KindOf(s, f) IN
    CASE k.is = "address" -> <<CHOOSE e \in k.of : TRUE, "h">>
      [] k.is = "nameId" -> <<"nm", "h">>
      [] k.is = "queryId" -> <<"oq", "h">>
      [] k.is = "number" -> Sample(k)
      [] k.is = "record" -> [as |-> "params", it |->
            Typical(CHOOSE t \in txSchema \cup treeSchemas :
                        t.tag = IF k.of = {} THEN "SpendTx" ELSE Only(k.of))]
      [] k.is = "pointers" -> <<[key |-> "k", id |-> <<"ak", "h">>]>>
      [] k.is \in {"map", "wrapped"} -> LET m == Only(k.of) IN
            IF m = "ns" THEN <<>>
            ELSE (<<KeyOf[m], "h">> :> Typical(CHOOSE e \in entrySchemas : e.tag = EntryOf[m] /\ e.optional))
      [] OTHER -> "data"
Typical(s) == [tag |-> s.tag, version |-> s.version,
               fields |-> [f \in {s.fields[i] : i \in DOMAIN s.fields} |-> TypicalValue(s, f)]]
TagNamed(t) == CHOOSE s \in txSchema : s.tag = t
Variants(s, f) ==
    LET k == KindOf(s, f) IN
    CASE k.is = "address" -> {<<e, "h">> : e \in {"ak", "nm", "cm", "ok", "ct", "ch", "th"}}
      [] k.is = "nameId" -> {<<"name", "h">>, <<"ak", "h">>}
      [] k.is = "number" -> {0, 2, 180001} \cup (IF k.default = Missing THEN {} ELSE {Missing})
      [] k.is = "opaque" -> IF k.default = Missing THEN {} ELSE {Missing}
      [] k.is = "record" /\ Family(k) = "tx" ->
            LET txs == {Typical(TagNamed(t)) : t \in {"SpendTx", "SignedTx", "ChannelOffChainTx", "GaAttachTx"}}
            IN  [as : {"encoded"}, it : txs]
                \cup [as : {"params"}, it : IF k.of = {} THEN txs
                                            ELSE {[Typical(TagNamed(Only(k.of))) EXCEPT !.tag = Missing]}]
      [] k.is = "pointers" ->
            {<<>>, [i \in 1..33 |-> [key |-> "k", id |-> <<"ct", "h">>]]}
            \cup {<<[key |-> "k", id |-> <<e, "h">>]>> : e \in {"ba", "nm", "th"}}
            \cup {<<[key |-> "k", id |-> <<"ba", x>>]>> : x \in Oversized}
      [] OTHER -> {}
Input(family, p, typical) == [family |-> family, params |-> p, typical |-> typical]
InputsDef == UNION {UNION {
    LET p == Typical(s) IN
    {Input(f, p, TRUE)} \cup (IF s.optional THEN {Input(f, [p EXCEPT !.version = Missing], TRUE)} ELSE {})
    \cup UNION {{Input(f, [p EXCEPT !.fields[x] = v], FALSE) : v \in Variants(s, x)} : x \in DOMAIN p.fields}
    : s \in Schemas[f]} : f \in DOMAIN Schemas}
=============================================================================
