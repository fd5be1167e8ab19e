------------------------------- MODULE TxFeesMC -------------------------------
EXTENDS TxFees
Tx(tag, bytes, inner, ttl, fee, price, limit) ==
    [tag |-> tag, bytes |-> bytes, inner |-> inner, ttl |-> ttl, fee |-> fee, price |-> price, limit |-> limit]
\* About the sizes at which the fee and the limit take one more byte.
Plain == {Tx("SpendTx", b, 0, 0, f, Nothing, Nothing) : b \in 55..70, f \in {Nothing, 61000, 65400, 65536, 65600, 70000}}
         \cup {Tx("SpendTx", b, 0, 0, Nothing, p, Nothing) : b \in 66..68, p \in {2, 5}}
         \cup {Tx("OracleExtendTx", b, 0, t, Nothing, Nothing, Nothing) : b \in {50, 240}, t \in {0, 500, 50000}}
Calls == {Tx(t, b, 0, 0, f, Nothing, l) : t \in Running, b \in {60, 100},
          f \in {Nothing, 100000, 1000000}, l \in {Nothing, 100, 65536, 49999, 5900000, 6000000}}
NestedTxs == {Tx(t, 70, i, 0, Nothing, Nothing, Nothing) : t \in {"PayingForTx", "GaMetaTx", "ChannelForceProgressTx"}, i \in {0, 100}}
TransactionsDef == Plain \cup Calls \cup NestedTxs
TransfersDef == [bytes : 58..64, balance : {1000, 65600, 65700, 131000, 150000, 17000000}, percent : {1, 50, 99, 100},
                 price : {Nothing, 5}, priceThen : {Nothing, 5}]
PricesDef == [minGasPrice : {100, 150}, utilization : {69, 70}]
=============================================================================
