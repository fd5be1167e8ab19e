--------------------------------- MODULE Names ---------------------------------
(***************************************************************************)
(* A name and the instance of Name that manages it (src/src/aens.ts): its  *)
(* operations overlap, and meet on chain in any order.                     *)
(***************************************************************************)
EXTENDS NameRules, TLC

CONSTANTS
    NameOps,            \* calls of the instance
    Does,               \* what a call does
    Gives,              \* pointers given to an update, by key
    Extending,          \* updates with extendPointers
    UnwaitedOps,        \* calls with waitMined: false
    Owner, Recipient, NoOwner, NoSalt

Deeds == {"preclaim", "claim", "bid", "update", "extendTtl", "transfer", "revoke"}
ASSUME NamesAssumption ==
    /\ Does \in [NameOps -> Deeds] /\ Extending \cup UnwaitedOps \subseteq NameOps
    /\ DOMAIN Gives = NameOps /\ NoSalt \notin NameOps

VARIABLES
    auctioned,          \* whether the name is short: sold in an auction
    salt,               \* #salt: the preclaim that made it
    stage,              \* of a call: built, mined, done; failed, nothing of it to come;
                        \* rejected or, unwaited, resolved, with its transaction on its way
    used,               \* the salt in a claim
    merged,             \* the pointers in an update
    commitments,        \* chain: preclaims not claimed yet
    owner, pointers,    \* chain: the entry
    bids,               \* chain: whether an auction runs
    revoked,            \* chain: the name is gone
    overtaken           \* history: updates whose pointers changed on chain since they read them

chain == <<commitments, owner, pointers, bids, revoked>>
nmvars == <<auctioned, salt, stage, used, merged, chain, overtaken>>

Extends(o) == o \in Extending \/ Does[o] = "extendTtl"
Goes(o, s) == stage' = [stage EXCEPT ![o] = s]
OnItsWay == {o \in NameOps : stage[o] \in {"built", "rejected", "resolved"}}
Landed(s) == IF s = "built" THEN "mined" ELSE IF s = "resolved" THEN "done" ELSE "failed"
Changed == overtaken' = {o \in OnItsWay : Extends(o)} \cup overtaken
-----------------------------------------------------------------------------
(* Building *)

\* preclaim draws a salt; transfer and revoke name an account.
Prepare(o) ==
    /\ stage[o] = "idle" /\ Does[o] \in {"preclaim", "transfer", "revoke"} /\ Goes(o, "built")
    /\ UNCHANGED <<salt, used, merged, chain, overtaken>>

\* claim takes the salt of the instance, if there is one.
Claim(o) ==
    /\ stage[o] = "idle" /\ Does[o] = "claim" /\ Goes(o, "built")
    /\ used' = [used EXCEPT ![o] = salt]
    /\ UNCHANGED <<salt, merged, chain, overtaken>>

\* bid claims with the salt 0, and throws for a name that is not auctioned.
Bid(o) ==
    /\ stage[o] = "idle" /\ Does[o] = "bid"
    /\ Goes(o, IF auctioned THEN "built" ELSE "failed")
    /\ UNCHANGED <<salt, used, merged, chain, overtaken>>

\* Two maps of pointers in one; those given win.
Merge(given, there) == [k \in DOMAIN given \cup DOMAIN there |-> IF k \in DOMAIN given THEN given[k] ELSE there[k]]

\* mutant: the pointers on chain overwrite those given.
Update_Under(o) ==
    /\ stage[o] = "idle" /\ Does[o] \in {"update", "extendTtl"}
    /\ IF Extends(o) /\ owner = NoOwner THEN Goes(o, "failed") /\ UNCHANGED merged
       ELSE /\ Goes(o, "built")
            /\ merged' = [merged EXCEPT ![o] = IF Extends(o) THEN Merge(pointers, Gives[o]) ELSE Gives[o]]
    /\ UNCHANGED <<salt, used, chain, overtaken>>

\* update reads the entry to extend its pointers with those given; there is
\* none before the claim.
Update(o) ==
    /\ stage[o] = "idle" /\ Does[o] \in {"update", "extendTtl"}
    /\ IF Extends(o) /\ owner = NoOwner THEN Goes(o, "failed") /\ UNCHANGED merged
       ELSE /\ Goes(o, "built")
            /\ merged' = [merged EXCEPT ![o] = IF Extends(o) THEN Merge(Gives[o], pointers) ELSE Gives[o]]
    /\ UNCHANGED <<salt, used, chain, overtaken>>

-----------------------------------------------------------------------------
(* The chain takes a transaction, as far as its state allows. *)

Free == owner = NoOwner /\ ~revoked
ChainPreclaims(o) == Does[o] = "preclaim" /\ commitments' = commitments \cup {o}
                     /\ UNCHANGED <<owner, pointers, bids, revoked>>
ChainClaims(o) ==
    /\ Does[o] = "claim" /\ Free /\ ~bids /\ used[o] \in commitments
    /\ commitments' = commitments \ {used[o]}
    /\ IF auctioned THEN bids' = TRUE /\ UNCHANGED owner ELSE owner' = Owner /\ UNCHANGED bids
    /\ UNCHANGED <<pointers, revoked>>
ChainBids(o) == Does[o] = "bid" /\ bids /\ UNCHANGED chain
ChainUpdates(o) ==
    /\ Does[o] \in {"update", "extendTtl"} /\ owner = Owner /\ pointers' = merged[o]
    /\ UNCHANGED <<commitments, owner, bids, revoked>>
ChainTransfers(o) == Does[o] = "transfer" /\ owner = Owner /\ owner' = Recipient
                     /\ UNCHANGED <<commitments, pointers, bids, revoked>>
ChainRevokes(o) == Does[o] = "revoke" /\ owner = Owner /\ owner' = NoOwner /\ revoked' = TRUE
                   /\ pointers' = <<>> /\ UNCHANGED <<commitments, bids>>

\* The auction is over.
ChainCloses == bids /\ bids' = FALSE /\ owner' = Owner
               /\ UNCHANGED <<salt, stage, used, merged, commitments, pointers, revoked, overtaken>>

ChainTakes(o) == ChainPreclaims(o) \/ ChainClaims(o) \/ ChainBids(o) \/ ChainUpdates(o)
                 \/ ChainTransfers(o) \/ ChainRevokes(o)
Mined(o) ==
    /\ o \in OnItsWay /\ ChainTakes(o) /\ Goes(o, Landed(stage[o]))
    /\ IF pointers' = pointers THEN UNCHANGED overtaken ELSE Changed
    /\ UNCHANGED <<salt, used, merged>>

KeepsSalt(o) == salt' = IF Does[o] = "preclaim" THEN o ELSE salt

\* mutant: the salt is kept also when the preclaim failed.
Refused_Salt(o) ==
    /\ \/ stage[o] = "built" /\ (Goes(o, "failed") \/ Goes(o, "rejected"))
       \/ stage[o] = "mined" /\ Goes(o, "failed")
    /\ KeepsSalt(o) /\ UNCHANGED <<used, merged, chain, overtaken>>

\* sendTransaction throws: refused; or its answer was lost, polling gave up or
\* failed, and the transaction is mined later, already, or never.
Refused(o) ==
    /\ \/ stage[o] = "built" /\ (Goes(o, "failed") \/ Goes(o, "rejected"))
       \/ stage[o] = "mined" /\ Goes(o, "failed")
    /\ UNCHANGED <<salt, used, merged, chain, overtaken>>

\* sendTransaction resolves, and the salt of a preclaim is kept: when it is
\* mined or, with waitMined: false, when it is posted.
Resolved(o) ==
    /\ \/ stage[o] = "mined" /\ Goes(o, "done")
       \/ o \in UnwaitedOps /\ stage[o] = "built" /\ Goes(o, "resolved")
    /\ KeepsSalt(o) /\ UNCHANGED <<used, merged, chain, overtaken>>

-----------------------------------------------------------------------------
NmInit ==
    /\ auctioned \in BOOLEAN /\ salt = NoSalt /\ stage = [o \in NameOps |-> "idle"]
    /\ used = [o \in NameOps |-> NoSalt] /\ merged = [o \in NameOps |-> <<>>]
    /\ commitments = {} /\ owner = NoOwner /\ pointers = <<>>
    /\ bids = FALSE /\ revoked = FALSE /\ overtaken = {}

NmNext == UNCHANGED auctioned /\ \/ ChainCloses
                                 \/ \E o \in NameOps : Prepare(o) \/ Claim(o) \/ Bid(o) \/ Update(o)
                                                       \/ Mined(o) \/ Refused(o) \/ Resolved(o)

NmSpec == NmInit /\ [][NmNext]_nmvars
-----------------------------------------------------------------------------
(* Properties *)

\* What the instance claims with was committed: its salt is that of a preclaim
\* that was mined, whatever else was sent, refused or mined unseen. One sent with
\* waitMined: false was posted, no more: it may be mined later or never, and a
\* claim that uses its salt is refused (aens.ts:295-296).
SaltWasCommitted == salt # NoSalt =>
    stage[salt] = "done" \/ (salt \in UnwaitedOps /\ stage[salt] = "resolved")

\* An update that extends the pointers (extendTtl is one) loses none of those
\* on chain, and sets those it was given, unless another changed them between
\* its read and its turn on chain.
NoPointerLost == [][\A o \in OnItsWay :
    stage'[o] = Landed(stage[o]) /\ Does[o] \in {"update", "extendTtl"} =>
        /\ \A k \in DOMAIN Gives[o] : pointers'[k] = Gives[o][k]
        /\ Extends(o) /\ o \notin overtaken => DOMAIN pointers \subseteq DOMAIN pointers']_nmvars

\* A name's owner loses nothing: it is claimed with a salt that was committed
\* or, unwaited, is to be; it keeps its pointers through updates that do not
\* overtake one another; and the fees of claims and bids are those the chain
\* takes (aens.ts, tx/builder/helpers.ts).
NamesKept == [](SaltWasCommitted /\ BidsAreTaken /\ AuctionForeseen) /\ NoPointerLost
=============================================================================
