------------------------------ MODULE TxChecksMC ------------------------------
EXTENDS TxChecks
AccountDef == "rich" :> [balance |-> 1000, kind |-> "basic", payable |-> TRUE]
  @@ "poor" :> [balance |-> 12, kind |-> "basic", payable |-> TRUE]
  @@ "smart" :> [balance |-> 60, kind |-> "generalized", payable |-> FALSE]
  @@ "new" :> [balance |-> 0, kind |-> "none", payable |-> FALSE]
ContractDef == "c1" :> "active" @@ "c2" :> "inactive" @@ "c3" :> "none"
Base(tag, by, ttl) == [tag |-> tag, by |-> by, fee |-> 2, ttl |-> ttl]
Ran(abi) == [gasPrice |-> 3, gasLimit |-> 5, abi |-> abi]
Leaves(by, Ttls) == UNION {
    {Base("SpendTx", by, t) @@ [amount |-> 7, to |-> to] : to \in {"rich", "smart", "new", "name"}}
    \cup {Base("ContractCallTx", by, t) @@ Ran(abi) @@ [amount |-> 7, to |-> to] :
            abi \in {"NoAbi", "Fate"}, to \in {"c1", "c2", "c3", "name"}}
    \cup {Base("ContractCreateTx", by, t) @@ Ran("Fate") @@ [amount |-> 7, deposit |-> 0, vm |-> vm] :
            vm \in {"Fate2", "Fate3"}}
    \cup {Base("GaAttachTx", by, t) @@ Ran("Fate") @@ [vm |-> "Fate3"],
          Base("NameClaimTx", by, t) @@ [nameFee |-> 20], Base("OracleQueryTx", by, t) @@ [queryFee |-> 9],
          Base("OracleRespondTx", by, t), Base("ChannelDepositTx", by, t) @@ [amount |-> 7],
          Base("ChannelCreateTx", by, t) @@ [amount |-> 30],
          Base("ChannelSettleTx", by, t) @@ [initiatorAmountFinal |-> 4, responderAmountFinal |-> 6]}
    \cup {Base("OracleRegisterTx", by, t) @@ [abi |-> abi] : abi \in {"NoAbi", "Fate", "Other"}} : t \in Ttls}
Signed(t, signatures) == [tag |-> "SignedTx", encodedTx |-> t, signatures |-> signatures]
Signatures(Bys, Inner) == {<<>>} \cup {<<[by |-> b, inner |-> i]>> : b \in Bys, i \in Inner}
Everyone == DOMAIN AccountDef
One == {Signed(t, s) : t \in UNION {Leaves(b, {0, 9, 10}) : b \in Everyone}, s \in Signatures({"rich", "smart"}, BOOLEAN)}
Meta(t, by) == [tag |-> "GaMetaTx", by |-> by, fee |-> 2, tx |-> t] @@ Ran("Fate")
\* What is nested in the transaction of a generalized account is its own.
Metas == {Signed(Meta(Signed(t, <<>>), t.by), <<>>) : t \in UNION {Leaves(b, {0}) : b \in {"rich", "smart", "new"}}}
Paying(by, t) == [tag |-> "PayingForTx", by |-> by, fee |-> 2, tx |-> t]
Paid(Txs) == {Signed(Paying("rich", t), <<[by |-> b, inner |-> FALSE]>>) : t \in Txs, b \in {"rich", "poor"}}
MineOnly == {Signed(t, s) : t \in Leaves("poor", {0, 9}), s \in Signatures({"poor"}, BOOLEAN)}
MetaOfPaid == {Signed(Meta(Signed(Paying("smart", x), <<>>), "smart"), <<>>) :
                  x \in {Signed(t, <<[by |-> "poor", inner |-> i]>>) : t \in Leaves("poor", {0}), i \in BOOLEAN}}
SubmittedDef == One \cup Metas \cup Paid(MineOnly) \cup Paid(Metas) \cup MetaOfPaid
NodesDef == [gasUsed : {2, 5}, queryFee : {9}, initiator : {"rich", "poor"}]
=============================================================================
