-------------------------------- MODULE Accounts --------------------------------
(***************************************************************************)
(* Accounts kept elsewhere (src/src/account/): a Ledger asked over one     *)
(* transport, MetaMask found in a browser, and the discovery of accounts   *)
(* with any factory.                                                       *)
(***************************************************************************)
EXTENDS Mnemonic, TLC

CONSTANTS
    Signings,           \* of transactions or messages by AccountLedger
    Chunks,             \* into how many parts each is sent
    Addresses,          \* calls of LedgerFactory.getAddress
    MetaCalls,          \* calls of MetamaskFactory.initialize
    MaxIndex,           \* of an account that is looked for
    Nothing

ASSUME AccountsAssumption ==
    /\ Chunks \in [Signings -> Nat \ {0}] /\ MaxIndex \in Nat
    /\ Signings \cap Addresses = {} /\ Nothing \notin Signings \cup Addresses

VARIABLES
    device,             \* what kind of app the device runs
    buffer,             \* what the device was sent: <<signing, part>>
    lock,               \* _appAPIlock: the call the transport is busy with
    ready,              \* #ensureReadyPromise
    asks,               \* stage of a call of the Ledger
    sent,               \* its parts sent
    signed,             \* what the device signed for it
    detection, listens, \* of #providerPromise; the listener for EIP-6963
    injected, announces,\* what the browser offers
    supported,          \* whether the MetaMask there is of a known version
    meta,               \* stage of a call of MetaMask
    usedAccounts,       \* chain: indexes of accounts that were used
    index, found, looking   \* of discover

ledger == <<device, buffer, lock, ready, asks, sent, signed>>
metamask == <<detection, listens, injected, announces, supported, meta>>
discovery == <<usedAccounts, index, found, looking>>
avars == <<ledger, metamask, discovery>>
-----------------------------------------------------------------------------
(* Ledger *)

Ask(c, s) == asks' = [asks EXCEPT ![c] = s]
Answers(c, s) == Ask(c, s) /\ lock' = IF lock = c THEN Nothing ELSE lock

\* mutant: the lock is not asked for.
Start_Unlocked(c) ==
    /\ asks[c] = "idle"
    /\ lock' = c /\ Ask(c, IF c \in Signings THEN "sending" ELSE "checking")
    /\ UNCHANGED <<device, buffer, ready, sent, signed>>

\* decorateAppAPIMethods: a method called while another runs on the transport
\* throws that the device is busy.
Start(c) ==
    /\ asks[c] = "idle"
    /\ IF lock # Nothing THEN Ask(c, "busy") /\ UNCHANGED lock
       ELSE lock' = c /\ Ask(c, IF c \in Signings THEN "sending" ELSE "checking")
    /\ UNCHANGED <<device, buffer, ready, sent, signed>>

Received(c, n) == IF n = 1 THEN <<<<c, n>>>> ELSE Append(buffer, <<c, n>>)

\* The parts one after the other; the first is marked, so that the device
\* begins anew.  At the last it signs what it has.
SendPart(c) ==
    /\ asks[c] = "sending" /\ sent[c] < Chunks[c]
    /\ sent' = [sent EXCEPT ![c] = @ + 1]
    /\ buffer' = Received(c, sent[c] + 1)
    /\ IF sent[c] + 1 = Chunks[c] THEN signed' = [signed EXCEPT ![c] = buffer'] /\ Answers(c, "done")
                                  ELSE UNCHANGED <<signed, asks, lock>>
    /\ UNCHANGED <<device, ready>>

\* The user declines, the device is locked or unplugged.
Declined(c) ==
    /\ asks[c] \in {"sending", "asking"} /\ Answers(c, "failed")
    /\ UNCHANGED <<device, buffer, ready, sent, signed>>

\* #ensureReady: the first call asks for the version of the app, outside of the
\* lock; the outcome is kept for those that come later.
CheckReady(c) ==
    /\ c \in Addresses /\ asks[c] = "checking"
    /\ CASE ready = "unset" -> ready' = "pending" /\ Ask(c, "joined") /\ UNCHANGED lock
         [] ready = "pending" -> Ask(c, "joined") /\ UNCHANGED <<ready, lock>>
         [] ready = "resolved" -> Ask(c, "asking") /\ UNCHANGED <<ready, lock>>
         [] OTHER -> Answers(c, "failed") /\ UNCHANGED ready
    /\ UNCHANGED <<device, buffer, sent, signed>>

\* mutant: any app will do.
Version_Any(c) ==
    /\ c \in Addresses /\ asks[c] = "joined"
    /\ \/ ready' = "resolved" /\ Ask(c, "asking") /\ UNCHANGED lock
       \/ ready' = (IF ready = "pending" THEN "rejected" ELSE ready) /\ Answers(c, "failed")
    /\ UNCHANGED <<device, buffer, sent, signed>>

\* The answer: an app of a supported version resolves the promise, for ever;
\* another, or no answer, leaves it rejected, unless the user made it resolve.
Version(c) ==
    /\ c \in Addresses /\ asks[c] = "joined"
    /\ \/ device = "supported" /\ ready' = "resolved" /\ Ask(c, "asking") /\ UNCHANGED lock
       \/ ready' = (IF ready = "pending" THEN "rejected" ELSE ready) /\ Answers(c, "failed")
    /\ UNCHANGED <<device, buffer, sent, signed>>

\* ensureReady called by the user: a success is kept also after a failure.
EnsureReady == /\ device = "supported" /\ ready # "resolved" /\ ready' = "resolved"
               /\ UNCHANGED <<device, buffer, lock, asks, sent, signed>>

GetAddress(c) == /\ asks[c] = "asking" /\ Answers(c, "done")
                 /\ UNCHANGED <<device, buffer, ready, sent, signed>>

\* The user opens or updates the app.
OpenApp == /\ device # "supported" /\ device' = "supported"
           /\ UNCHANGED <<buffer, lock, ready, asks, sent, signed>>

LedgerNext ==
    /\ UNCHANGED <<metamask, discovery>>
    /\ \/ EnsureReady \/ OpenApp
       \/ \E c \in Signings \cup Addresses :
            Start(c) \/ SendPart(c) \/ Declined(c) \/ CheckReady(c) \/ Version(c) \/ GetAddress(c)
-----------------------------------------------------------------------------
(* MetaMask *)

Metas(c, s) == meta' = [meta EXCEPT ![c] = s]

\* #getProvider: the first call starts to look, the others wait for it.
GetProvider(c) ==
    /\ meta[c] = "idle" /\ Metas(c, "waiting")
    /\ detection' = IF detection = "none" THEN "injected" ELSE detection
    /\ UNCHANGED <<listens, injected, announces, supported>>

\* window.ethereum: it may be another wallet's, or fail.
AskInjected ==
    /\ detection = "injected"
    /\ CASE injected = "metamask" -> detection' = "version" /\ UNCHANGED listens
         [] injected = "failing" -> detection' = "rejected" /\ UNCHANGED listens
         [] OTHER -> detection' = "announced" /\ listens' = TRUE
    /\ UNCHANGED <<injected, announces, supported, meta>>

\* An announcement comes in time, late or never.
Announce ==
    /\ announces /\ announces' = FALSE
    /\ IF listens THEN detection' = "version" /\ listens' = FALSE ELSE UNCHANGED <<detection, listens>>
    /\ UNCHANGED <<injected, supported, meta>>

\* mutant: the listener stays.
NoAnnouncement_Kept ==
    /\ detection = "announced" /\ detection' = "rejected"
    /\ UNCHANGED <<listens, injected, announces, supported, meta>>

\* 500 ms later.
NoAnnouncement ==
    /\ detection = "announced" /\ listens' = FALSE /\ detection' = "rejected"
    /\ UNCHANGED <<injected, announces, supported, meta>>

\* Its version: a failure is kept, too.
MetaVersion ==
    /\ detection = "version"
    /\ detection' \in IF supported THEN {"found", "rejected"} ELSE {"rejected"}
    /\ UNCHANGED <<listens, injected, announces, supported, meta>>

\* The promise settles; with a provider the snap is requested, then asked for
\* the key, and the user may decline either.
Snap(c) ==
    /\ CASE meta[c] = "waiting" /\ detection = "found" -> Metas(c, "snap")
         [] meta[c] = "waiting" /\ detection = "rejected" -> Metas(c, "failed")
         [] meta[c] = "snap" -> Metas(c, "key") \/ Metas(c, "failed")
         [] meta[c] = "key" -> Metas(c, "done") \/ Metas(c, "failed")
         [] OTHER -> FALSE
    /\ UNCHANGED <<detection, listens, injected, announces, supported>>

MetaNext ==
    /\ UNCHANGED <<ledger, discovery>>
    /\ \/ AskInjected \/ Announce \/ NoAnnouncement \/ MetaVersion
       \/ \E c \in MetaCalls : GetProvider(c) \/ Snap(c)
-----------------------------------------------------------------------------
(* discover *)

\* An account is used for the first time.
Use(i) == /\ i \notin usedAccounts /\ usedAccounts' = usedAccounts \cup {i}
          /\ UNCHANGED <<index, found, looking>>

\* mutant: the account is kept before the node is asked.
Discover_First ==
    /\ looking /\ index <= MaxIndex /\ found' = Append(found, index)
    /\ \/ index \in usedAccounts /\ index' = index + 1 /\ UNCHANGED looking
       \/ looking' = FALSE /\ UNCHANGED index
    /\ UNCHANGED usedAccounts

\* The node is asked for the account of index; also its failure ends the loop.
Discover ==
    /\ looking /\ index <= MaxIndex
    /\ \/ index \in usedAccounts /\ index' = index + 1 /\ found' = Append(found, index)
          /\ UNCHANGED looking
       \/ looking' = FALSE /\ UNCHANGED <<index, found>>
    /\ UNCHANGED usedAccounts

DiscoverNext ==
    /\ UNCHANGED <<ledger, metamask>>
    /\ Discover \/ \E i \in 0..MaxIndex : Use(i)
-----------------------------------------------------------------------------
AInit ==
    /\ device \in {"supported", "old", "closed"} /\ buffer = <<>> /\ lock = Nothing
    /\ ready = "unset"
    /\ asks = [c \in Signings \cup Addresses |-> "idle"]
    /\ sent = [c \in Signings |-> 0] /\ signed = [c \in Signings |-> <<>>]
    /\ detection = "none" /\ listens = FALSE
    /\ injected \in {"none", "other", "failing", "metamask"} /\ announces \in BOOLEAN
    /\ supported \in BOOLEAN /\ meta = [c \in MetaCalls |-> "idle"]
    /\ usedAccounts = {} /\ index = 0 /\ found = <<>> /\ looking = TRUE

ANext == LedgerNext \/ MetaNext \/ DiscoverNext
ASpec == AInit /\ [][ANext]_avars
-----------------------------------------------------------------------------
(* Properties *)

\* What the device signs for a call is what the call sent, whole and in order,
\* whatever was sent before it and given up.
SignedWhole == \A c \in Signings :
    signed[c] # <<>> => signed[c] = [n \in 1..Chunks[c] |-> <<c, n>>]

\* An address is given out only after an app of a supported version was seen.
AddressFromKnownApp == \A c \in Addresses : asks[c] = "done" =>
    ready = "resolved" /\ device = "supported"

\* The listener for an announcement of MetaMask is gone as soon as the wait for it ends.
ListensWhileWaiting == listens => detection = "announced"

\* Discovery yields accounts that were used, from the first without a gap.
DiscoveredInARow == \A n \in 1..Len(found) : found[n] = n - 1 /\ n - 1 \in usedAccounts

\* Whatever calls overlap on one device, extension or mnemonic, each gets what
\* it asked for: its own transaction signed, the account of its index.
AccountsInOrder ==
    SignedWhole /\ AddressFromKnownApp /\ ListensWhileWaiting /\ DiscoveredInARow /\ OneAccountPerIndex
=============================================================================
