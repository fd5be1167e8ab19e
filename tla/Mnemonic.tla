-------------------------------- MODULE Mnemonic --------------------------------
(***************************************************************************)
(* AccountMnemonicFactory (src/src/account/MnemonicFactory.ts): what it    *)
(* was made of (a mnemonic, a seed or a wallet) becomes a wallet when the  *)
(* first account is asked for, by calls that wait and calls that do not.   *)
(* A key is the sequence of what it was derived from.                      *)
(***************************************************************************)
EXTENDS Integers, Sequences, FiniteSets

CONSTANTS
    Callers, Phrases,
    NoKey,          \* an exception
    Indexes, Offset     \* indexes of accounts; HARDENED_OFFSET, reduced
ASSUME MnemonicAssumption ==
    /\ Offset \in Nat /\ Offset > 457 /\ Indexes \subseteq Nat
    /\ NoKey \notin Seq(Phrases \cup {"seed", "ed25519 seed"} \cup Nat) /\ NoKey \notin Indexes

VARIABLES
    phrase,     \* what a factory is made of comes from it
    held,       \* #mnemonicOrWalletOrSeed: [is, key]
    deriving,   \* of a caller: the index it waits for, its seed being on its way, or NoKey
    derived       \* [index, key] that callers got
mnvars == <<phrase, held, deriving, derived>>

mnemonicToSeed(p) == <<p, "seed">>
deriveKey(key, segment) == Append(key, segment)
derivePathFromKey(key, segments) ==
    IF \E i \in DOMAIN segments : segments[i] + Offset >= 2 * Offset THEN NoKey
    ELSE key \o [i \in DOMAIN segments |-> segments[i] + Offset]
WalletBySeed(seed) ==
    [is |-> "wallet", key |-> derivePathFromKey(deriveKey(seed, "ed25519 seed"), <<44, 457>>)]
AccountByWallet(index, wallet) ==
    [index |-> index, key |-> derivePathFromKey(wallet.key, <<index, 0, 0>>)]

MadeOf(p, is) == CASE is = "mnemonic" -> [is |-> is, key |-> <<p>>]
                 [] is = "seed" -> [is |-> is, key |-> mnemonicToSeed(p)]
                 [] is = "short seed" -> [is |-> is, key |-> <<p, "half">>]
                 [] is = "wallet" -> WalletBySeed(mnemonicToSeed(p))
MnInit == /\ phrase \in Phrases
          /\ held \in {MadeOf(phrase, is) : is \in {"mnemonic", "seed", "short seed", "wallet"}}
          /\ deriving = [c \in Callers |-> NoKey] /\ derived = {}

Give(index, wallet) == derived' = derived \cup {AccountByWallet(index, wallet)}
\* A mnemonic is turned into a seed while the call does not wait, or (Waits) while it does.
Seed == IF held.is = "mnemonic" THEN mnemonicToSeed(held.key[1]) ELSE held.key
AtOnce(index, c) ==
    /\ deriving[c] = NoKey /\ held.is # "short seed"
    /\ held' = IF held.is = "wallet" THEN held ELSE WalletBySeed(Seed)
    /\ Give(index, held') /\ UNCHANGED <<phrase, deriving>>
initializeSync(c, index) == AtOnce(index, c)
initialize(c, index) ==
    \/ held.is # "mnemonic" /\ AtOnce(index, c)
    \/ /\ held.is = "mnemonic" /\ deriving[c] = NoKey
       /\ deriving' = [deriving EXCEPT ![c] = index] /\ UNCHANGED <<phrase, held, derived>>
\* mutant: the wallet is derived from what the factory holds by then.
SeedArrives_Held(c) ==
    /\ deriving[c] # NoKey /\ held' = WalletBySeed(Seed)
    /\ Give(deriving[c], held')
    /\ deriving' = [deriving EXCEPT ![c] = NoKey] /\ UNCHANGED phrase
\* The seed of the mnemonic that was held when the call began.
SeedArrives(c) ==
    /\ deriving[c] # NoKey /\ held' = WalletBySeed(mnemonicToSeed(phrase))
    /\ Give(deriving[c], held')
    /\ deriving' = [deriving EXCEPT ![c] = NoKey] /\ UNCHANGED phrase
MnNext == \E c \in Callers : \/ SeedArrives(c)
                             \/ \E i \in Indexes : initialize(c, i) \/ initializeSync(c, i)
MnSpec == MnInit /\ [][MnNext]_mnvars
-----------------------------------------------------------------------------
(* Properties *)

\* An index has one account, whatever the factory was made of and in whichever order its calls
\* begin and end; and the wallet it keeps and hands out is the one below 44/457, which gives no
\* keys of other coins.
OneAccountPerIndex ==
    LET coin == <<phrase, "seed", "ed25519 seed", 44 + Offset, 457 + Offset>> IN
    /\ held.is = "wallet" => held.key = coin
    /\ \A g \in derived : g.key # NoKey => g.key = coin \o <<g.index + Offset, Offset, Offset>>
    /\ \A g \in derived : (g.key = NoKey) <=> (g.index >= Offset)
=============================================================================
