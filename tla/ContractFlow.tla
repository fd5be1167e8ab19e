----------------------------- MODULE ContractFlow -----------------------------
(***************************************************************************)
(* A Contract instance (src/src/contract/Contract.ts): initialize, and     *)
(* deployments and calls that overlap on it; and the account that becomes  *)
(* a generalized one (contract/ga.ts, account/Generalized.ts).             *)
(***************************************************************************)
EXTENDS Naturals, FiniteSets

CONSTANTS
    Jobs,           \* calls of the SDK
    Kind,           \* of a job
    NoGas,          \* jobs without the option gasLimit
    Unwaited,       \* jobs with waitMined: false
    OwnCallData,    \* signings whose authData brings its own callData
    Forms,          \* options initialize may get
    Nowhere, Given  \* no address; that of a contract that exists

Kinds == {"deploy", "call", "dryRun", "attach", "sign"}
FormType == [aci : BOOLEAN, compiler : BOOLEAN, source : {"none", "code", "bytecode"},
             address : {"none", "address", "name"}, validate : BOOLEAN]
ASSUME ContractFlowAssumption ==
    /\ Kind \in [Jobs -> Kinds] /\ NoGas \cup Unwaited \cup OwnCallData \subseteq Jobs
    /\ Forms \subseteq FormType /\ Nowhere # Given /\ {Nowhere, Given} \cap Jobs = {}

VARIABLES
    form, existing,         \* what is asked, and the contract that exists
    outcome,                \* of initialize
    bytecode, address,      \* $options
    at,                     \* stage of a job
    target,                 \* contract of a call; of its estimation
    estimated,              \* whether its dry run succeeded
    fate,                   \* of a job's transaction: none, pool, lost, reverted or ok
    contracts,              \* on chain: where jobs deployed, and Given
    generalized, authFun,   \* the account; the cache of AccountGeneralized
    finished                \* history: deployments that were over when one began

cvars == <<form, existing, outcome, bytecode, address, at, target, estimated, fate, contracts,
           generalized, authFun, finished>>
instance == <<form, existing, outcome, bytecode>>
account == <<generalized, authFun>>
onChain == <<fate, contracts, generalized>>

-----------------------------------------------------------------------------
(* initialize *)

Compiled(f) == ~f.aci /\ f.compiler /\ f.source = "code"
Bytecode(f) == f.source = "bytecode" \/ Compiled(f)

\* mutant: without a compiler or a bytecode nothing is compared.
InitializeFails_Unchecked(f, e) ==
    \/ ~f.aci /\ ~Compiled(f)
    \/ f.address = "none" /\ (f.source = "none" \/ f.validate)
    \/ f.address # "none" /\ ~e.found
    \/ f.address # "none" /\ f.validate /\ Bytecode(f) /\ ~e.same

\* No definition; nothing to call or deploy, or to validate; no contract at
\* the address or behind the name; another bytecode there.
InitializeFails(f, e) ==
    \/ ~f.aci /\ ~Compiled(f)
    \/ f.address = "none" /\ (f.source = "none" \/ f.validate)
    \/ f.address # "none" /\ ~e.found
    \/ /\ f.address # "none" /\ f.validate
       /\ ~e.same \/ f.source = "none" \/ (~Bytecode(f) /\ ~f.compiler)

Initialize ==
    /\ outcome = "none"
    /\ outcome' = IF InitializeFails(form, existing) THEN "failed" ELSE "ready"
    /\ bytecode' = Bytecode(form)
    /\ address' = IF form.address = "none" THEN Nowhere ELSE Given
    /\ UNCHANGED <<form, existing, at, target, estimated, onChain, authFun, finished>>

-----------------------------------------------------------------------------
(* Jobs, up to their transactions *)

Put(j, s) == at' = [at EXCEPT ![j] = s]
Ended(j) == at[j] \in {"done", "failed"}
AfterChecks(j) == IF j \in NoGas THEN "estimating" ELSE "sending"

\* $deploy compiles if it has to.
Deploy(j) ==
    /\ at[j] = "idle" /\ Kind[j] = "deploy" /\ outcome = "ready"
    /\ finished' = [finished EXCEPT ![j] = {k \in Jobs : Kind[k] = "deploy" /\ Ended(k)}]
    /\ \/ bytecode /\ Put(j, "compiled") /\ UNCHANGED bytecode
       \/ ~bytecode /\ form.compiler /\ form.source = "code" /\ Put(j, "compiled") /\ bytecode' = TRUE
       \/ ~bytecode /\ Put(j, "failed") /\ UNCHANGED bytecode
    /\ UNCHANGED <<form, existing, outcome, address, target, estimated, onChain, authFun>>

\* mutant: the address is not looked at.
CheckAddress_Not(j) ==
    /\ at[j] = "compiled" /\ Put(j, AfterChecks(j))
    /\ UNCHANGED <<instance, address, target, estimated, onChain, authFun, finished>>

\* A contract that has an address is not deployed again.
CheckAddress(j) ==
    /\ at[j] = "compiled"
    /\ IF address # Nowhere THEN Put(j, "failed") ELSE Put(j, AfterChecks(j))
    /\ UNCHANGED <<instance, address, target, estimated, onChain, authFun, finished>>

\* $call reads the address once, and once more in _estimateGas.
Call(j) ==
    /\ at[j] = "idle" /\ Kind[j] \in {"call", "dryRun"} /\ outcome = "ready"
    /\ target' = [target EXCEPT ![j] = address]
    /\ \/ Put(j, "failed")
       \/ address # Nowhere /\ Put(j, IF Kind[j] = "dryRun" THEN "running" ELSE AfterChecks(j))
    /\ UNCHANGED <<instance, address, estimated, onChain, authFun, finished>>

DryRun(j) ==
    /\ at[j] = "running"
    /\ Put(j, "done") \/ Put(j, "failed")
    /\ UNCHANGED <<instance, address, target, estimated, onChain, authFun, finished>>

\* createGeneralizedAccount looks at the kind of the account first; it makes
\* a Contract of its own, which may not initialize or compile.
Attach(j) ==
    /\ at[j] = "idle" /\ Kind[j] = "attach"
    /\ Put(j, "failed") \/ (~generalized /\ Put(j, AfterChecks(j)))
    /\ UNCHANGED <<instance, address, target, estimated, onChain, authFun, finished>>

\* mutant: what the estimation says is taken for a number.
Estimate_Any(j) ==
    /\ at[j] = "estimating"
    /\ estimated' \in {estimated, estimated \cup {j}} /\ Put(j, "sending")
    /\ UNCHANGED <<instance, address, target, onChain, authFun, finished>>

\* _estimateGas: a dry run, which throws when the call would be reverted.
Estimate(j) ==
    /\ at[j] = "estimating"
    /\ \/ estimated' = estimated \cup {j} /\ Put(j, "sending")
       \/ UNCHANGED estimated /\ Put(j, "failed")
    /\ UNCHANGED <<instance, address, target, onChain, authFun, finished>>

-----------------------------------------------------------------------------
(* Their transactions *)

Becomes(j, f) == fate' = [fate EXCEPT ![j] = f]
Resolves(j) == Put(j, "done") /\ address' = IF Kind[j] = "deploy" THEN j ELSE address

\* mutant: the instance gets its address with the transaction.
Send_Address(j) ==
    /\ at[j] = "sending"
    /\ \/ Put(j, "failed") /\ fate' \in {fate, [fate EXCEPT ![j] = "pool"]} /\ UNCHANGED address
       \/ /\ Becomes(j, "pool") /\ Put(j, IF j \in Unwaited THEN "done" ELSE "polling")
          /\ address' = IF Kind[j] = "deploy" THEN j ELSE address
    /\ UNCHANGED <<instance, target, estimated, contracts, account, finished>>

\* sendTransaction: refused, or posted though its answer was lost; posted, and
\* waited for unless waitMined is false: then it may be mined later or never.
Send(j) ==
    /\ at[j] = "sending"
    /\ \/ Put(j, "failed") /\ fate' \in {fate, [fate EXCEPT ![j] = "pool"]} /\ UNCHANGED address
       \/ /\ Becomes(j, "pool")
          /\ IF j \in Unwaited THEN Resolves(j) ELSE Put(j, "polling") /\ UNCHANGED address
    /\ UNCHANGED <<instance, target, estimated, contracts, account, finished>>

\* The chain executes it, or never does.
Executed(j) ==
    /\ fate[j] = "pool"
    /\ \/ Becomes(j, "lost") /\ UNCHANGED <<contracts, generalized>>
       \/ /\ Kind[j] = "attach" => ~generalized
          /\ Becomes(j, "reverted") /\ UNCHANGED <<contracts, generalized>>
       \/ /\ Kind[j] = "call" => target[j] \in contracts
          /\ Kind[j] = "attach" => ~generalized
          /\ Becomes(j, "ok")
          /\ contracts' = IF Kind[j] = "deploy" THEN contracts \cup {j} ELSE contracts
          /\ generalized' = (generalized \/ Kind[j] = "attach")
    /\ UNCHANGED <<instance, address, at, target, estimated, authFun, finished>>

\* poll sees it mined, or gives up while it may still be.
PollJob(j) ==
    /\ at[j] = "polling"
    /\ Put(j, "failed") \/ (fate[j] \in {"ok", "reverted"} /\ Put(j, "mined"))
    /\ UNCHANGED <<instance, address, target, estimated, onChain, authFun, finished>>

\* mutant: what became of it is not looked at.
Result_Unread(j) ==
    /\ at[j] = "mined"
    /\ (Put(j, "failed") /\ UNCHANGED address) \/ Resolves(j)
    /\ UNCHANGED <<instance, target, estimated, onChain, authFun, finished>>

\* $getCallResultByTxHash asks for the result, which may fail, and throws unless
\* it is ok; createGeneralizedAccount does not ask, and resolves though init was
\* reverted.
Result(j) ==
    /\ at[j] = "mined"
    /\ \/ Kind[j] # "attach" /\ Put(j, "failed") /\ UNCHANGED address
       \/ (Kind[j] = "attach" \/ fate[j] = "ok") /\ Resolves(j)
    /\ UNCHANGED <<instance, target, estimated, onChain, authFun, finished>>

\* mutant: the name of the function is kept whatever the account is.
Authorize_Any(j) ==
    /\ at[j] = "idle" /\ Kind[j] = "sign"
    /\ IF j \in OwnCallData THEN UNCHANGED authFun ELSE authFun' = TRUE
    /\ Put(j, "failed") \/ ((j \in OwnCallData \/ generalized) /\ Put(j, "done"))
    /\ UNCHANGED <<instance, address, target, estimated, onChain, finished>>

\* AccountGeneralized.signTransaction asks for authFun once, and throws for a
\* basic account; with callData given it asks for nothing.
Authorize(j) ==
    /\ at[j] = "idle" /\ Kind[j] = "sign"
    /\ authFun' = (authFun \/ (generalized /\ j \notin OwnCallData))
    /\ Put(j, "failed") \/ ((j \in OwnCallData \/ authFun') /\ Put(j, "done"))
    /\ UNCHANGED <<instance, address, target, estimated, onChain, finished>>

-----------------------------------------------------------------------------
CInit ==
    /\ form \in Forms /\ existing \in [found : BOOLEAN, same : BOOLEAN]
    /\ existing.same => existing.found
    /\ form.address = "none" => ~existing.found
    /\ outcome = "none" /\ bytecode = FALSE /\ address = Nowhere
    /\ at = [j \in Jobs |-> "idle"] /\ target = [j \in Jobs |-> Nowhere] /\ estimated = {}
    /\ fate = [j \in Jobs |-> "none"] /\ contracts = IF existing.found THEN {Given} ELSE {}
    /\ generalized = FALSE /\ authFun = FALSE /\ finished = [j \in Jobs |-> {}]

CNext ==
    \/ Initialize
    \/ \E j \in Jobs : \/ Deploy(j) \/ CheckAddress(j) \/ Call(j) \/ DryRun(j) \/ Attach(j)
                       \/ Estimate(j) \/ Send(j) \/ PollJob(j) \/ Result(j) \/ Executed(j) \/ Authorize(j)

CSpec == CInit /\ [][CNext]_cvars

-----------------------------------------------------------------------------
(* Properties *)

\* The address of an instance is a contract on chain, the one that existed or
\* one whose init was executed; only a deployment that was not waited for
\* makes it a guess.
AddressIsContract == outcome = "ready" => address \in contracts \cup Unwaited \cup {Nowhere}

\* An instance of a contract that exists sends no deployment, and after a $deploy
\* that resolved none begun later does. One that rejected is not counted: its
\* transaction may be on chain, or come there, when its answer was lost, polling
\* gave up or its result was not got (Contract.ts:219-236), and as the address is
\* set after all that (299) the next $deploy makes a second contract. Nor is one
\* that is still under way.
DeployedOnce == \A k \in Jobs : Kind[k] = "deploy" /\ fate[k] # "none" =>
    /\ form.address = "none"
    /\ \A j \in finished[k] : at[j] = "failed"

\* A deployment or a call that is waited for resolves only when it was executed
\* and not reverted; that a call rejects says nothing of the chain, and neither
\* does that createGeneralizedAccount resolves, but that its transaction was mined.
ResolvedWasExecuted == \A j \in Jobs \ Unwaited : at[j] = "done" =>
    /\ Kind[j] \in {"deploy", "call"} => fate[j] = "ok"
    /\ Kind[j] = "attach" => fate[j] \in {"ok", "reverted"}

\* Gas is paid only for what succeeded as a dry run, or with a gasLimit given.
EstimatedBeforePaid == \A j \in NoGas : fate[j] # "none" => j \in estimated

\* What a validated instance has been told is the bytecode on chain.
ValidatedMatches == outcome = "ready" /\ form.validate => existing.found /\ existing.same

\* The function an account is authorised with is kept only for a generalized one:
\* where init was reverted, a signing that needs it fails, though
\* createGeneralizedAccount resolved.
AuthFunOfGeneralized ==
    /\ authFun => generalized
    /\ \A j \in Jobs \ OwnCallData : Kind[j] = "sign" /\ at[j] = "done" => generalized

\* What an instance and an account keep is what the chain has: the address, the
\* bytecode, what resolved, the function that authorises; and gas is paid only
\* for what was seen to succeed.
ContractInOrder ==
    /\ AddressIsContract /\ DeployedOnce /\ ResolvedWasExecuted /\ EstimatedBeforePaid
    /\ ValidatedMatches /\ AuthFunOfGeneralized

=============================================================================
