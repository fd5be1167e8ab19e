------------------------------- MODULE NameRules -------------------------------
(***************************************************************************)
(* The rules of names and their auctions (src/src/tx/builder/helpers.ts,   *)
(* NAME_BID_RANGES of src/src/tx/builder/constants.ts), followed by a      *)
(* bidder while the chain keeps its own. Fees are in the least coin of     *)
(* NAME_BID_RANGES and 1/NAME_FEE_MULTIPLIER of the chain's.               *)
(***************************************************************************)
EXTENDS Integers, Sequences, FiniteSets

CONSTANTS
    NotAName,               \* an exception
    PlainNames, Defects,    \* lengths of names that are fine; what may be wrong with one
    MaxBids, MaxHeight      \* bounds
ASSUME NameRulesAssumption == PlainNames \subseteq Nat \ {0}

\* The fees of names of 1 to 31 characters.
NAME_BID_RANGES ==
    <<5702887, 3524578, 2178309, 1346269, 832040, 514229, 317811, 196418, 121393, 75025, 46368, 28657,
      17711, 10946, 6765, 4181, 2584, 1597, 987, 610, 377, 233, 144, 89, 55, 34, 21, 13, 8, 5, 3>>
NAME_MAX_LENGTH_FEE == 31
Suffix == 6     \* the length of ".chain"

\* A name is [length: of its punycode, defect: of "dots", "suffix", "emoji", "dashes", "url", "chars" or none].
nameToPunycode(name) ==
    IF name.defect # "none" \/ name.length > 63 + Suffix THEN NotAName ELSE name.length
isName(name) == nameToPunycode(name) # NotAName

getMinimumNameFee(name) ==
    LET n == nameToPunycode(name) - Suffix IN
    NAME_BID_RANGES[IF n < NAME_MAX_LENGTH_FEE THEN n ELSE NAME_MAX_LENGTH_FEE]

\* mutant: what is left of the division is dropped.
computeBidFee_Floor(startFee) == (startFee * 21) \div 20
computeBidFee(startFee) == (startFee * 21 + 19) \div 20

\* mutant: a name of 13 characters is auctioned.
isAuctionName_Thirteen(name) == nameToPunycode(name) <= 13 + Suffix
isAuctionName(name) == nameToPunycode(name) < 13 + Suffix
computeAuctionEndBlock(name, claimHeight) ==
    LET n == nameToPunycode(name) - Suffix IN
    claimHeight + (CASE n <= 4 -> 2400 [] n \in 5..8 -> 960 [] n \in 9..12 -> 480 [] OTHER -> 0)
-----------------------------------------------------------------------------
(* The chain: a claim starts an auction, a bid has to be 5 % above the last. *)

VARIABLES
    name, height,
    auction         \* [fee, ends, bids, refused], or NotAName: not claimed yet
nrvars == <<name, height, auction>>

ChainStart(n, h) == h + (IF n <= 4 THEN 2400 ELSE IF n <= 8 THEN 960 ELSE IF n <= 12 THEN 480 ELSE 0)
ChainMinimum(n) == NAME_BID_RANGES[IF n > 31 THEN 31 ELSE n]

NrInit == /\ name \in [length : {n + Suffix : n \in PlainNames}, defect : {"none"} \cup Defects]
          /\ height = 1 /\ auction = NotAName
\* Without a fee the name is claimed for the least one (name-fee.ts).
ClaimName ==
    /\ auction = NotAName /\ isName(name)
    /\ LET fee == getMinimumNameFee(name)  n == name.length - Suffix IN
       auction' = [fee |-> fee, start |-> height, ends |-> ChainStart(n, height), bids |-> 0,
                   refused |-> fee < ChainMinimum(n), asked |-> isAuctionName(name)]
    /\ UNCHANGED <<name, height>>
BidOnName ==
    /\ auction # NotAName /\ isAuctionName(name) /\ auction.bids < MaxBids /\ height <= auction.ends
    /\ LET fee == computeBidFee(auction.fee) IN
       auction' = [auction EXCEPT !.fee = fee, !.bids = @ + 1,
                                  !.ends = IF @ < height + 120 THEN height + 120 ELSE @,
                                  !.refused = @ \/ 20 * (fee - auction.fee) < auction.fee]
    /\ UNCHANGED <<name, height>>
Mine == /\ height < MaxHeight /\ height' \in {height + 60, height + 480} /\ UNCHANGED <<name, auction>>
NrNext == ClaimName \/ BidOnName \/ Mine
NrSpec == NrInit /\ [][NrNext]_nrvars
-----------------------------------------------------------------------------
(* Properties *)

Claimed == auction # NotAName

\* A claim for the least fee, and bid after bid of what computeBidFee says of the last one,
\* whatever its fraction comes to, are taken by the chain.
BidsAreTaken == Claimed => ~auction.refused

\* A name is taken for one of an auction (bid instead of owned at once) exactly if the chain
\* holds one, and the end computed for it is never later than the auction's.
AuctionForeseen ==
    Claimed => /\ auction.asked <=> auction.ends > auction.start
               /\ computeAuctionEndBlock(name, auction.start) <= auction.ends
=============================================================================
