-------------------------------- MODULE TxFees --------------------------------
(***************************************************************************)
(* What a transaction pays for (src/src/tx/builder/field-types/fee.ts,     *)
(* gas-limit.ts, gas-price.ts): the fee and the gas limit depend on the    *)
(* size of the transaction, and its size on how they are encoded. Then     *)
(* draining an account (src/src/spend.ts), and the cached gas price.       *)
(***************************************************************************)
EXTENDS Integers, FiniteSets

CONSTANTS
    Nothing, Refused,               \* a field not given; an exception
    BASE_GAS, GAS_PER_BYTE,
    MIN_GAS_PRICE,                  \* in a unit that keeps fees within 32 bits
    gasMax, MAX_AUTH_FUN_GAS,
    MaxRounds                       \* bound: of the loop that finds the fee
ASSUME TxFeesAssumption ==
    /\ {BASE_GAS, GAS_PER_BYTE, MIN_GAS_PRICE, gasMax, MAX_AUTH_FUN_GAS, MaxRounds} \subseteq Nat \ {0}
    /\ BASE_GAS % 5 = 0
    /\ Nothing \notin Int /\ Refused \notin Int \cup {Nothing}
-----------------------------------------------------------------------------
(* A transaction is [tag, bytes: of its other fields, inner: of the nested   *)
(* one, ttl, fee, price, limit: as they were given]                          *)

Bytes(n) == IF n < 256 THEN 1 ELSE IF n < 65536 THEN 2 ELSE IF n < 16777216 THEN 3 ELSE 4
Item(n) == IF n < 128 THEN 1 ELSE 1 + Bytes(n)
List(bytes) == bytes + (IF bytes < 56 THEN 1 ELSE 1 + Bytes(bytes))
Running == {"ContractCreateTx", "ContractCallTx", "GaAttachTx", "GaMetaTx"}
TxLength(tx, fee, gasLimit) ==
    List(tx.bytes + tx.inner + Item(fee) + (IF tx.tag \in Running THEN Item(gasLimit) ELSE 0))

TX_BASE_GAS(tag) ==
    CASE tag = "ChannelForceProgressTx" -> 30 * BASE_GAS
      [] tag = "ChannelOffChainTx" -> 0
      [] tag \in {"ContractCreateTx", "GaAttachTx", "GaMetaTx"} -> 5 * BASE_GAS
      [] tag = "ContractCallTx" -> 12 * BASE_GAS
      [] tag = "PayingForTx" -> BASE_GAS \div 5
      [] OTHER -> BASE_GAS

BlocksPerYear == (60 * 24 * 365) \div 3
TX_OTHER_GAS(tx, size) ==
    CASE tx.tag \in {"OracleRegisterTx", "OracleExtendTx", "OracleQueryTx", "OracleRespondTx"} ->
            size * GAS_PER_BYTE + (32000 * tx.ttl + BlocksPerYear - 1) \div BlocksPerYear
      [] tx.tag \in {"GaMetaTx", "PayingForTx"} -> (size - tx.inner) * GAS_PER_BYTE
      [] OTHER -> size * GAS_PER_BYTE

buildGas(tx, fee, gasLimit) == TX_BASE_GAS(tx.tag) + TX_OTHER_GAS(tx, TxLength(tx, fee, gasLimit))

\* mutant: the gas of the transaction is taken before its gas limit is in it.
LimitMax_Before(tx, fee) ==
    IF tx.tag = "GaMetaTx" THEN MAX_AUTH_FUN_GAS ELSE gasMax - buildGas(tx, fee, 0)
LimitMax(tx, fee) ==
    IF tx.tag = "GaMetaTx" THEN MAX_AUTH_FUN_GAS ELSE gasMax - buildGas(tx, fee, gasMax)
LimitAt(tx, fee) == IF tx.limit = Nothing THEN LimitMax(tx, fee) ELSE tx.limit

\* The loop of calculateMinFee: the fees of its rounds; for the gas limit itself the transaction
\* is built with the greatest one. A round that leaves the fee as it was is the last, and would
\* be repeated by more: the fee found is that of any round from there on.
Round(tx, forLimit, fee) ==
    MIN_GAS_PRICE * buildGas(tx, fee, IF forLimit THEN gasMax ELSE LimitAt(tx, fee))
FeeRounds(tx, forLimit, first) ==
    LET fees[n \in 0 .. MaxRounds] == IF n = 0 THEN first ELSE Round(tx, forLimit, fees[n - 1])
    IN fees
\* mutant: the rounds start at a fee that takes the most bytes, as a safe first guess.
calculateMinFee_FromAbove(tx, forLimit) == FeeRounds(tx, forLimit, 16777216)[MaxRounds]
calculateMinFee(tx, forLimit) == FeeRounds(tx, forLimit, 0)[MaxRounds]

\* mutant: any fee that was given is taken.
serializeAettos_Any(tx, minFee, canIncreaseFee) == IF tx.fee = Nothing THEN minFee ELSE tx.fee
serializeAettos(tx, minFee, canIncreaseFee) ==
    LET value == CASE tx.price # Nothing -> (minFee \div MIN_GAS_PRICE) * tx.price
                   [] tx.fee # Nothing -> tx.fee
                   [] OTHER -> minFee IN
    IF minFee <= value THEN value ELSE IF canIncreaseFee THEN minFee ELSE Refused

Limited(tx) ==
    LET max == LimitMax(tx, serializeAettos(tx, calculateMinFee(tx, TRUE), TRUE)) IN
    IF tx.limit = Nothing THEN max ELSE IF tx.limit > max THEN Refused ELSE tx.limit

Built(tx) ==
    [fee |-> serializeAettos(tx, calculateMinFee(tx, FALSE), FALSE),
     limit |-> IF tx.tag \in Running THEN Limited(tx) ELSE 0]
-----------------------------------------------------------------------------
(* transferFunds: the fee of the wanted amount is taken off the balance, and *)
(* the transaction is built again.                                           *)

Spend(bytes, amount, price) ==
    [tag |-> "SpendTx", bytes |-> bytes + Item(amount), inner |-> 0, ttl |-> 0,
     fee |-> Nothing, price |-> price, limit |-> Nothing]
Share(balance, percent) == (balance * percent + 50) \div 100
\* mutant: the amount is reduced by what the fee of the whole balance would be, and the fee again.
transferFunds_Twice(t) ==
    LET desired == Share(t.balance, t.percent)
        fee == Built(Spend(t.bytes, desired, t.price)).fee
        amount == IF desired + fee > t.balance THEN desired - 2 * fee ELSE desired IN
    IF amount < 0 THEN Refused
    ELSE [amount |-> amount, fee |-> Built(Spend(t.bytes, amount, t.priceThen)).fee]
\* mutant: the wanted amount is reduced only when it is the whole balance.
transferFunds_Whole(t) ==
    LET desired == Share(t.balance, t.percent)
        fee == Built(Spend(t.bytes, desired, t.price)).fee
        amount == IF t.percent = 100 THEN t.balance - fee ELSE desired IN
    IF amount < 0 THEN Refused
    ELSE [amount |-> amount, fee |-> Built(Spend(t.bytes, amount, t.priceThen)).fee]
transferFunds(t) ==
    LET desired == Share(t.balance, t.percent)
        fee == Built(Spend(t.bytes, desired, t.price)).fee
        amount == IF desired + fee > t.balance THEN t.balance - fee ELSE desired IN
    IF amount < 0 THEN Refused
    ELSE [amount |-> amount, fee |-> Built(Spend(t.bytes, amount, t.priceThen)).fee]
-----------------------------------------------------------------------------
(* getCachedIncreasedGasPrice: [minGasPrice, utilization] of the node, asked *)
(* for by several builders at a time; a price is kept for CacheTime.         *)

CONSTANTS
    Builders, Transactions, Transfers,  \* who asks, and what is built
    Prices, CacheTime,
    MaxNow, MaxLatency                  \* bounds
ASSUME PricesAssumption == {CacheTime, MaxNow, MaxLatency} \subseteq Nat

\* What is built: with a fee or with a price, and no price is below the minimal one.
Given(S) == S \cup {Nothing}
IsTx(tx) == /\ tx.bytes \in Nat /\ tx.inner \in Nat /\ tx.ttl \in Nat
            /\ tx.fee \in Given(Nat) /\ tx.price \in Given(Nat) /\ tx.limit \in Given(Nat)
            /\ Nothing \in {tx.fee, tx.price}
IsTransfer(t) == /\ t.bytes \in Nat /\ t.balance \in Nat /\ t.percent \in Nat
                 /\ \A p \in {t.price, t.priceThen} : p \in Given(Nat) /\ (p # Nothing => p >= MIN_GAS_PRICE)
ASSUME TasksAssumption ==
    /\ \A tx \in Transactions : IsTx(tx)
    /\ \A t \in Transfers : IsTransfer(t) /\ t \notin Transactions
    /\ Nothing \notin Transactions \cup Transfers
VARIABLES
    task, result,       \* a transaction or a transfer, and what was built; or Nothing but prices
    now, offered,       \* the time, and the prices the node answers with
    cache,
    asked               \* of a builder: what it was answered or got, and when
tfvars == <<task, result, now, offered, cache, asked>>
NoPrice == [price |-> 0, time |-> 0, read |-> 0]
Idle == [is |-> "idle", price |-> 0, read |-> 0]

TfInit ==
    /\ task \in Transactions \cup Transfers \cup {Nothing} /\ result = Nothing
    /\ now = CacheTime + 1
    /\ offered \in IF task = Nothing THEN Prices ELSE {CHOOSE p \in Prices : TRUE}
    /\ cache = NoPrice /\ asked = [b \in Builders |-> Idle]

BuildTx == /\ task \in Transactions /\ result = Nothing /\ result' = Built(task)
           /\ UNCHANGED <<task, now, offered, cache, asked>>
TransferFunds == /\ task \in Transfers /\ result = Nothing /\ result' = transferFunds(task)
                 /\ UNCHANGED <<task, now, offered, cache, asked>>

\* In hundredths of the minimal price: a hundredth more than what the node says, if it is busy.
SafePrice == 100 * 100000
Increased(o) == IF o.utilization < 70 THEN 0
                ELSE IF o.minGasPrice + o.minGasPrice \div 100 > SafePrice THEN SafePrice
                ELSE o.minGasPrice + o.minGasPrice \div 100
Asking(b, is, price, read) == asked' = [asked EXCEPT ![b] = [is |-> is, price |-> price, read |-> read]]

\* mutant: a cached price is kept for longer each time it is used.
Ask_Sliding(b) ==
    /\ asked[b].is = "idle"
    /\ IF cache.time > now - CacheTime
       THEN Asking(b, "got", cache.price, cache.read) /\ cache' = [cache EXCEPT !.time = now]
       ELSE Asking(b, "answered", Increased(offered), now) /\ UNCHANGED cache
    /\ UNCHANGED <<task, result, now, offered>>
\* The node answers with what it offers by then; the answer arrives later.
Ask(b) ==
    /\ asked[b].is = "idle"
    /\ IF cache.time > now - CacheTime
       THEN Asking(b, "got", cache.price, cache.read)
       ELSE Asking(b, "answered", Increased(offered), now)
    /\ UNCHANGED <<task, result, now, offered, cache>>
Arrives(b) ==
    /\ asked[b].is = "answered" /\ Asking(b, "got", asked[b].price, asked[b].read)
    /\ cache' = [price |-> asked[b].price, time |-> now, read |-> asked[b].read]
    /\ UNCHANGED <<task, result, now, offered>>
Again(b) == /\ asked[b].is = "got" /\ asked' = [asked EXCEPT ![b] = Idle]
            /\ UNCHANGED <<task, result, now, offered, cache>>
\* An answer takes at most MaxLatency; a builder uses the price it got at once.
TimePasses ==
    /\ now < MaxNow /\ now' = now + 1 /\ offered' \in Prices
    /\ \A b \in Builders : /\ asked[b].is # "got"
                           /\ asked[b].is = "answered" => now - asked[b].read < MaxLatency
    /\ UNCHANGED <<task, result, cache, asked>>

TfNext == \/ BuildTx \/ TransferFunds
          \/ task = Nothing /\ (TimePasses \/ \E b \in Builders : Ask(b) \/ Arrives(b) \/ Again(b))
TfSpec == TfInit /\ [][TfNext]_tfvars
-----------------------------------------------------------------------------
(* Properties *)

IsBuilt == task \in Transactions /\ result # Nothing
IsTransferred == task \in Transfers /\ result \notin {Nothing, Refused}
Needed(tx, r) == MIN_GAS_PRICE * buildGas(tx, r.fee, r.limit)

\* A fee that is accepted pays for the transaction it is part of, even a given one: unless
\* it takes more bytes than the least fee it was compared with, and is short by them only.
FeePaysForItself ==
    (IsBuilt /\ result.fee # Refused /\ result.limit # Refused) =>
        \/ result.fee >= Needed(task, result)
        \/ LET least == calculateMinFee(task, FALSE) IN
           /\ task.fee # Nothing /\ result.fee > least
           /\ Needed(task, result) - least <= 2 * MIN_GAS_PRICE * GAS_PER_BYTE
           /\ TxLength(task, result.fee, result.limit) > TxLength(task, least, result.limit)

\* Without a fee given it is the least one: no smaller fee would pay for the transaction that has it.
NoSmallerFeePays ==
    (IsBuilt /\ task.fee = Nothing /\ task.price = Nothing /\ result.limit # Refused) =>
        \A less \in 1 .. 4 * MIN_GAS_PRICE * GAS_PER_BYTE :
            result.fee - less < MIN_GAS_PRICE * buildGas(task, result.fee - less, LimitAt(task, result.fee - less))

\* The gas limit and the gas of the transaction itself fit into a micro block.
GasFits ==
    (IsBuilt /\ task.tag \in Running \ {"GaMetaTx"} /\ result.limit # Refused /\ result.fee # Refused) =>
        result.limit + buildGas(task, result.fee, result.limit) <= gasMax

\* transferFunds spends what the account has and no more, as long as the price of gas did not
\* rise between the two builds.
TransferFits ==
    (IsTransferred /\ task.price = task.priceThen) => result.amount + result.fee <= task.balance

\* "Useful if needed to drain account balance completely": what is left does not pay for a spend.
DrainsTheAccount ==
    (IsTransferred /\ task.percent = 100 /\ task.price = task.priceThen) =>
        task.balance - result.amount - result.fee < MIN_GAS_PRICE * BASE_GAS

\* However the requests for it overlap, a price is no older than the cache and an answer take.
PriceIsRecent ==
    \A b \in Builders : asked[b].is = "got" => now - asked[b].read <= CacheTime + MaxLatency

\* The loop ends: the last round leaves the fee as it was, although fee and limit depend on each other.
RoundsEnd ==
    IsBuilt => \A forLimit \in BOOLEAN :
        LET fee == calculateMinFee(task, forLimit) IN Round(task, forLimit, fee) = fee

\* A transaction is paid for and not overpaid: the fee that is found is the least that pays,
\* and the amount is what remains.
PaidExactly == RoundsEnd /\ FeePaysForItself /\ NoSmallerFeePays /\ DrainsTheAccount

\* Nothing is taken beyond what there is: the gas of a micro block, the balance of an account
\* though the fee is of another amount, the time that a cached price is good for.
WithinLimits == GasFits /\ TransferFits /\ PriceIsRecent
=============================================================================
