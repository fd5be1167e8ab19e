------------------------------- MODULE TxChecks -------------------------------
(***************************************************************************)
(* What a transaction costs whom (src/src/tx/execution-cost.ts), and what  *)
(* is reported as wrong with it before it is posted (src/src/tx/           *)
(* validator.ts): both follow the transactions nested in one another,      *)
(* signed, paid for by another account or sent by a generalized one.       *)
(***************************************************************************)
EXTENDS Integers, Sequences, FiniteSets, TLC

CONSTANTS
    Nobody, Fails,          \* an option not given; an exception
    Height,                 \* of the chain
    Account,                \* of an address: [balance, kind, payable], kind "none" if it is not there
    Contract                \* of a contract: "active", "inactive" or "none"

Has(tx, field) == field \in DOMAIN tx
Runs == {"ContractCreateTx", "ContractCallTx", "GaAttachTx", "GaMetaTx"}
RECURSIVE getTransactionSigner(_)
getTransactionSigner(tx) ==
    IF tx.tag = "SignedTx" THEN getTransactionSigner(tx.encodedTx) ELSE tx.by
-----------------------------------------------------------------------------
(* The cost of a transaction. A signature is [by, inner: whether the prefix  *)
(* of a paid-for transaction was signed too]. options: [innerTx, gasUsed,    *)
(* queryFee, isInitiator].                                                   *)

\* mutant: an account that somebody pays for is charged for its gas.
Gas_Charged(tx, o) ==
    IF tx.tag \in Runs THEN tx.gasPrice * (IF o.gasUsed # Nobody THEN o.gasUsed ELSE tx.gasLimit) ELSE 0
Gas(tx, o) ==
    IF tx.tag \in Runs /\ o.innerTx # "freeloader"
    THEN tx.gasPrice * (IF o.gasUsed # Nobody THEN o.gasUsed ELSE tx.gasLimit) ELSE 0
FeeAndAmount(tx, o) ==
    (IF Has(tx, "fee") /\ o.innerTx # "freeloader" THEN tx.fee ELSE 0)
    + (IF tx.tag \in {"SpendTx", "ContractCreateTx", "ContractCallTx", "ChannelDepositTx"}
          /\ o.innerTx # "fee-payer" THEN tx.amount ELSE 0)
OfItsKind(tx, o) ==
    CASE tx.tag = "NameClaimTx" -> tx.nameFee
      [] tx.tag = "OracleQueryTx" -> tx.queryFee
      [] tx.tag = "OracleRespondTx" /\ o.queryFee # Nobody -> -o.queryFee
      [] tx.tag = "ChannelSettleTx" /\ o.isInitiator = TRUE -> -tx.initiatorAmountFinal
      [] tx.tag = "ChannelSettleTx" /\ o.isInitiator = FALSE -> -tx.responderAmountFinal
      [] tx.tag = "ContractCreateTx" -> tx.deposit
      [] OTHER -> 0

NoOptions == [innerTx |-> Nobody, gasUsed |-> Nobody, queryFee |-> Nobody, isInitiator |-> Nobody]
RECURSIVE getExecutionCost(_, _)
\* mutant: what is nested in the transaction of a generalized account is left out.
NestedCost_PaidOnly(tx) ==
    IF tx.tag = "PayingForTx"
    THEN getExecutionCost(tx.tx.encodedTx, [NoOptions EXCEPT !.innerTx = "fee-payer"]) ELSE 0
NestedCost(tx) ==
    CASE tx.tag = "PayingForTx" ->
            getExecutionCost(tx.tx.encodedTx, [NoOptions EXCEPT !.innerTx = "fee-payer"])
      [] tx.tag = "GaMetaTx" -> getExecutionCost(tx.tx.encodedTx, NoOptions)
      [] OTHER -> 0
getExecutionCost(tx, o) == FeeAndAmount(tx, o) + OfItsKind(tx, o) + Gas(tx, o) + NestedCost(tx)

\* A signature is valid for what was signed and one who may sign for the account.
Verifies(signature, inner, address) == signature = [by |-> address, inner |-> inner]
getExecutionCostBySignedTx(tx, o) ==
    LET t == tx.encodedTx  address == getTransactionSigner(t) IN
    IF t.tag = "GaMetaTx" THEN getExecutionCost(t, o)
    ELSE IF tx.signatures = <<>> THEN Fails
    ELSE IF Verifies(tx.signatures[1], TRUE, address)
         THEN getExecutionCost(t, [o EXCEPT !.innerTx = "freeloader"])
    ELSE IF Verifies(tx.signatures[1], FALSE, address) THEN getExecutionCost(t, o) ELSE Fails

\* node: [gasUsed, queryFee, initiator], as far as they concern this transaction.
getExecutionCostUsingNode(tx, node, isMined) ==
    LET t == IF tx.tag = "SignedTx" THEN tx.encodedTx ELSE tx
        o == [innerTx |-> Nobody,
              gasUsed |-> IF tx.tag = "SignedTx" /\ isMined /\ t.tag \in Runs THEN node.gasUsed ELSE Nobody,
              queryFee |-> IF t.tag = "OracleRespondTx" THEN node.queryFee ELSE Nobody,
              isInitiator |-> IF t.tag = "ChannelSettleTx" /\ ~isMined THEN t.by = node.initiator ELSE Nobody] IN
    IF tx.tag = "SignedTx" THEN getExecutionCostBySignedTx(tx, o) ELSE getExecutionCost(t, o)
-----------------------------------------------------------------------------
(* The validators: sets of [key, at: the tag it was found in] *)

Report(key, tx, when) == IF when THEN {[key |-> key, at |-> tx.tag]} ELSE {}
\* mutant: only the transaction right inside of the paying one counts as paid for.
InvalidSignature_Direct(tx, parents) ==
    Report("InvalidSignature", tx,
           /\ tx.tag = "SignedTx" /\ Len(tx.signatures) = 1
           /\ ~Verifies(tx.signatures[1], Len(parents) = 1 /\ parents[1] = "PayingForTx",
                               getTransactionSigner(tx)))
InvalidSignature(tx, parents) ==
    Report("InvalidSignature", tx,
           /\ tx.tag = "SignedTx" /\ Len(tx.signatures) = 1
           /\ ~Verifies(tx.signatures[1], \E i \in DOMAIN parents : parents[i] = "PayingForTx",
                               getTransactionSigner(tx)))
ExpiredTTL(tx) == Report("ExpiredTTL", tx, Has(tx, "ttl") /\ tx.ttl # 0 /\ tx.ttl <= Height)
InsufficientBalance(tx, parents, node) ==
    LET cost == getExecutionCostUsingNode(tx, node, FALSE) IN
    Report("InsufficientBalance", tx,
           parents = <<>> /\ cost # Fails /\ cost > Account[getTransactionSigner(tx)].balance)
RecipientAccountNotPayable(tx) ==
    Report("RecipientAccountNotPayable", tx,
           /\ tx.tag = "SpendTx" /\ tx.to \in DOMAIN Account     \* not a name
           /\ Account[tx.to].kind # "none" /\ ~Account[tx.to].payable)
InvalidAccountType(tx) ==
    LET kind == Account[getTransactionSigner(tx)].kind IN
    Report("InvalidAccountType", tx,
           \/ tx.tag = "SignedTx" /\ kind = "generalized" /\ Len(tx.signatures) # 0
           \/ tx.tag = "GaMetaTx" /\ kind = "basic")
\* The abi of a call of an oracle may be none; those of contracts are Fate, on vm Fate3.
VmAndAbiVersionMismatch(tx) ==
    Report("VmAndAbiVersionMismatch", tx,
           \/ tx.tag = "OracleRegisterTx" /\ tx.abi \notin {"NoAbi", "Fate"}
           \/ tx.tag \in Runs /\ tx.abi # "Fate"
           \/ tx.tag \in {"ContractCreateTx", "GaAttachTx"} /\ tx.vm # "Fate3")
ContractCallable(tx) ==
    IF tx.tag # "ContractCallTx" \/ tx.to \notin DOMAIN Contract THEN {}
    ELSE Report("ContractNotActive", tx, Contract[tx.to] = "inactive")
         \cup Report("ContractNotFound", tx, Contract[tx.to] = "none")

RECURSIVE verifyTransactionInternal(_, _, _)
\* mutant: only signed transactions are looked into.
Nested_SignedOnly(tx, node, parents) ==
    IF Has(tx, "encodedTx") THEN verifyTransactionInternal(tx.encodedTx, node, Append(parents, tx.tag)) ELSE {}
Nested(tx, node, parents) ==
    (IF Has(tx, "encodedTx") THEN verifyTransactionInternal(tx.encodedTx, node, Append(parents, tx.tag)) ELSE {})
    \cup (IF Has(tx, "tx") THEN verifyTransactionInternal(tx.tx, node, Append(parents, tx.tag)) ELSE {})
verifyTransactionInternal(tx, node, parents) ==
    InvalidSignature(tx, parents) \cup Nested(tx, node, parents) \cup ExpiredTTL(tx)
    \cup InsufficientBalance(tx, parents, node) \cup RecipientAccountNotPayable(tx)
    \cup InvalidAccountType(tx) \cup VmAndAbiVersionMismatch(tx) \cup ContractCallable(tx)
-----------------------------------------------------------------------------
(* A transaction is validated, then posted *)

CONSTANTS Submitted, Nodes      \* signed transactions, and what the node says of them
VARIABLES tx, node, reported, costs
tcvars == <<tx, node, reported, costs>>

TcInit == tx \in Submitted /\ node \in Nodes /\ reported = Nobody /\ costs = Nobody
verifyTransaction == /\ reported = Nobody /\ reported' = verifyTransactionInternal(tx, node, <<>>)
                     /\ UNCHANGED <<tx, node, costs>>
\* A mined transaction used no more gas than it was limited to.
AskCost(isMined) ==
    /\ costs = Nobody
    /\ tx.encodedTx.tag \in Runs => node.gasUsed <= tx.encodedTx.gasLimit
    /\ costs' = [isMined |-> isMined, is |-> getExecutionCostUsingNode(tx, node, isMined)]
    /\ UNCHANGED <<tx, node, reported>>
TcNext == verifyTransaction \/ \E isMined \in BOOLEAN : AskCost(isMined)
-----------------------------------------------------------------------------
(* Properties *)

\* What the chain takes from an account at most (less what it gives), as long as it takes all of
\* the gas: fee and gas from who pays, the rest from the one whose transaction it is.
RECURSIVE Taken(_, _, _, _)
Taken(t, from, payer, gasUsed) ==
    LET pays == IF payer = Nobody THEN getTransactionSigner(t) ELSE payer
        Of(who, n) == IF who = from THEN n ELSE 0
        moved == CASE t.tag \in {"SpendTx", "ContractCallTx", "ChannelDepositTx"} -> t.amount
                   [] t.tag = "ContractCreateTx" -> t.amount + t.deposit
                   [] t.tag = "ChannelCreateTx" -> t.amount
                   [] t.tag = "NameClaimTx" -> t.nameFee
                   [] t.tag = "OracleQueryTx" -> t.queryFee
                   [] t.tag = "OracleRespondTx" -> -node.queryFee
                   [] OTHER -> 0
        gas == IF t.tag \notin Runs THEN 0
               ELSE t.gasPrice * (IF gasUsed # Nobody THEN gasUsed ELSE t.gasLimit) IN
    CASE t.tag = "SignedTx" -> Taken(t.encodedTx, from, payer, gasUsed)
      [] t.tag = "PayingForTx" -> Of(t.by, t.fee) + Taken(t.tx, from, t.by, Nobody)
      [] t.tag = "GaMetaTx" -> Of(pays, t.fee + gas) + Taken(t.tx, from, payer, Nobody)
      [] t.tag = "ChannelSettleTx" ->
            Of(pays, t.fee) - Of(t.by, IF t.by = node.initiator THEN t.initiatorAmountFinal
                                       ELSE t.responderAmountFinal)
      [] OTHER -> Of(pays, t.fee + gas) + Of(t.by, moved)

Whose == getTransactionSigner(tx)
SignedByItsOwner(inner) == Len(tx.signatures) = 1 /\ Verifies(tx.signatures[1], inner, Whose)
Charged(t, gasUsed) ==
    Taken(t, Whose, IF SignedByItsOwner(TRUE) THEN "another" ELSE Nobody, gasUsed)
GasUsed == IF costs.isMined /\ tx.encodedTx.tag \in Runs THEN node.gasUsed ELSE Nobody
\* What an initiator locks in a new channel is not counted.
RECURSIVE Innermost(_)
Innermost(t) == CASE Has(t, "encodedTx") -> Innermost(t.encodedTx)
                  [] Has(t, "tx") -> Innermost(t.tx)
                  [] OTHER -> t
Uncounted(t) == Innermost(t).tag = "ChannelCreateTx"

\* The cost reported is never less than what the chain takes from the account that signed,
\* whichever way the transaction is nested and whoever pays for it.
CostCovers ==
    (costs # Nobody /\ costs.is # Fails /\ ~Uncounted(tx.encodedTx)) =>
        costs.is >= Charged(tx, GasUsed)

\* And it is exactly that, but for what an oracle earns and a settled channel returns (when
\* nested, or mined), and what a paid-for claim of a name, question to an oracle or transaction
\* of a generalized account costs its own account.
Overcounted(t) ==
    \/ t.tag = "ChannelSettleTx" /\ costs # Nobody /\ costs.isMined
    \/ t.tag = "GaMetaTx" /\ t.tx.encodedTx.tag \in {"OracleRespondTx", "ChannelSettleTx", "PayingForTx"}
    \/ t.tag = "PayingForTx" /\ t.tx.encodedTx.tag \in {"NameClaimTx", "OracleQueryTx", "GaMetaTx", "ChannelCreateTx"}
CostIsExact ==
    (costs # Nobody /\ costs.is # Fails /\ ~Uncounted(tx.encodedTx) /\ ~Overcounted(tx.encodedTx)) =>
        costs.is = Charged(tx, GasUsed)

\* What makes the chain refuse a transaction, wherever it is nested; paid: by somebody else.
RECURSIVE Acceptable(_, _)
Acceptable(t, paid) ==
    LET owner == Account[getTransactionSigner(t)] IN
    CASE t.tag = "SignedTx" ->
            /\ IF t.encodedTx.tag = "GaMetaTx" THEN t.signatures = <<>>
               ELSE IF paid = "generalized" THEN t.signatures = <<>>
               ELSE /\ owner.kind # "generalized"
                    /\ t.signatures = <<[by |-> getTransactionSigner(t), inner |-> paid = "paid"]>>
            /\ Acceptable(t.encodedTx, paid)
      [] t.tag = "PayingForTx" -> Acceptable(t.tx, "paid")
      [] t.tag = "GaMetaTx" -> owner.kind # "basic" /\ t.abi = "Fate" /\ Acceptable(t.tx, "generalized")
      [] OTHER ->
            /\ t.ttl = 0 \/ t.ttl > Height
            /\ t.tag = "SpendTx" => t.to \notin DOMAIN Account \/ Account[t.to].payable
                                    \/ Account[t.to].kind = "none"
            /\ t.tag \in Runs => t.abi = "Fate"
            /\ t.tag \in {"ContractCreateTx", "GaAttachTx"} => t.vm = "Fate3"
            /\ t.tag = "OracleRegisterTx" => t.abi \in {"NoAbi", "Fate"}
            /\ t.tag = "ContractCallTx" => t.to \notin DOMAIN Contract \/ Contract[t.to] = "active"
Affordable == Taken(tx, Whose, Nobody, Nobody) <= Account[Whose].balance

\* A transaction with a signature where one is due, of which nothing is reported, is accepted
\* and can be paid for (the balance of an account that is paid for is not looked at).
RECURSIVE SignaturesDue(_, _)
SignaturesDue(t, generalized) ==
    CASE t.tag = "SignedTx" ->
            /\ Len(t.signatures) = (IF generalized \/ t.encodedTx.tag = "GaMetaTx" THEN 0 ELSE 1)
            /\ SignaturesDue(t.encodedTx, generalized)
      [] t.tag \in {"PayingForTx", "GaMetaTx"} -> SignaturesDue(t.tx, t.tag = "GaMetaTx")
      [] OTHER -> TRUE
NothingMissed ==
    (reported = {} /\ SignaturesDue(tx, FALSE)) =>
        Acceptable(tx, "no") /\ (~Uncounted(tx) => Affordable)

\* Nothing is reported of a transaction the chain accepts, unless the cost is overcounted.
NothingMadeUp ==
    (reported \notin {Nobody, {}} /\ Acceptable(tx, "no")) =>
        ~Affordable \/ (Overcounted(tx.encodedTx) /\ \A r \in reported : r.key = "InsufficientBalance")

\* What is foretold of a transaction is what the chain does with it: what it costs, and
\* whether it is taken.
ForetoldRightly == CostCovers /\ CostIsExact /\ NothingMissed /\ NothingMadeUp

=============================================================================
