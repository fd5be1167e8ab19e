-------------------------------- MODULE FlowsMC --------------------------------
(* Instances of what a user of the SDK holds: the SDK itself, a contract, a  *)
(* name and its auction, accounts of a Ledger, of MetaMask or of a mnemonic; *)
(* one of them in each behaviour.                                            *)
EXTENDS SdkContext, ContractFlow, Names, Accounts

CONSTANTS Flows, o1, o2, deploy1, deploy2, call1, attach1, sign1, sign2, dry1,
          pre1, pre2, claim1, bid1, extend1, update1, update2, transfer1, revoke1
VARIABLE flow

NetworkDef == [n \in NodeNames |-> IF n = "main" THEN "ae_mainnet" ELSE "ae_uat"]
KindDef == deploy1 :> "deploy" @@ deploy2 :> "deploy" @@ call1 :> "call"
           @@ attach1 :> "attach" @@ sign1 :> "sign" @@ sign2 :> "sign"
           @@ dry1 :> "dryRun"
Form(a, c, s, d, v) == [aci |-> a, compiler |-> c, source |-> s, address |-> d, validate |-> v]
FormsDef == {Form(TRUE, TRUE, "code", "none", FALSE), Form(TRUE, FALSE, "bytecode", "none", FALSE),
             Form(FALSE, TRUE, "code", "name", TRUE), Form(TRUE, FALSE, "code", "address", TRUE),
             Form(FALSE, FALSE, "bytecode", "none", FALSE)}
DoesDef == pre1 :> "preclaim" @@ pre2 :> "preclaim" @@ claim1 :> "claim" @@ bid1 :> "bid"
           @@ extend1 :> "extendTtl" @@ update1 :> "update" @@ update2 :> "update"
           @@ transfer1 :> "transfer" @@ revoke1 :> "revoke"
GivesDef == [o \in NameOps |-> CASE o = update1 -> "x" :> 2 @@ "y" :> 2 [] o = update2 -> "x" :> 1
                                 [] OTHER -> <<>>]
\* Jobs of an account, which share nothing with those of an instance.
OfAccount == {j \in Jobs : Kind[j] \in {"attach", "sign"}}
\* Operations that meet on the salt and the auction, and on the pointers.
Registering == {pre1, pre2, claim1, bid1, transfer1, revoke1}
Pointing == {pre1, claim1, extend1, update1, update2, transfer1, revoke1}
ChunksDef == [c \in Signings |-> IF c = "message" THEN 2 ELSE 3]

vars == <<flow, svars, cvars, nmvars, avars, nrvars, mnvars>>
\* What varies from one behaviour of a flow to the next is fixed in the others.
Init ==
    /\ flow \in Flows /\ SInit /\ CInit /\ NmInit /\ AInit
    /\ IF flow = "auction" THEN NrInit ELSE name = NotAName /\ height = 0 /\ auction = NotAName
    /\ IF flow = "mnemonic" THEN MnInit
       ELSE phrase = NoKey /\ held = [is |-> "none", key |-> <<>>] /\ deriving = [c \in Callers |-> NoKey] /\ derived = {}
    /\ flow # "contract" => form = Form(TRUE, TRUE, "code", "none", FALSE)
    /\ flow # "name" => ~auctioned
    /\ flow # "ledger" => device = "closed"
    /\ flow # "metamask" => injected = "none" /\ ~announces /\ ~supported
Next ==
    /\ UNCHANGED flow
    /\ \/ flow = "auction" /\ NrNext /\ UNCHANGED <<svars, cvars, nmvars, avars, mnvars>>
       \/ flow = "mnemonic" /\ MnNext /\ UNCHANGED <<svars, cvars, nmvars, avars, nrvars>>
       \/ flow = "sdk" /\ SNext /\ UNCHANGED <<cvars, nmvars, avars, nrvars, mnvars>>
       \/ flow = "contract" /\ CNext /\ (\A j \in OfAccount : at'[j] = "idle") /\ UNCHANGED <<svars, nmvars, avars, nrvars, mnvars>>
       \/ flow = "account" /\ CNext /\ outcome' = "none" /\ UNCHANGED <<svars, nmvars, avars, nrvars, mnvars>>
       \/ flow = "name" /\ NmNext /\ (\A o \in NameOps \ Registering : stage'[o] = "idle") /\ UNCHANGED <<svars, cvars, avars, nrvars, mnvars>>
       \/ flow = "pointers" /\ NmNext /\ (\A o \in NameOps \ Pointing : stage'[o] = "idle") /\ UNCHANGED <<svars, cvars, avars, nrvars, mnvars>>
       \/ flow = "ledger" /\ LedgerNext /\ UNCHANGED <<svars, cvars, nmvars, nrvars, mnvars>>
       \/ flow = "metamask" /\ MetaNext /\ UNCHANGED <<svars, cvars, nmvars, nrvars, mnvars>>
       \/ flow = "discover" /\ DiscoverNext /\ UNCHANGED <<svars, cvars, nmvars, nrvars, mnvars>>
Spec == Init /\ [][Next]_vars
=============================================================================
