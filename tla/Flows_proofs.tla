------------------------------ MODULE Flows_proofs ------------------------------
(***************************************************************************)
(* Theorems about what a user of the SDK holds: the SDK itself, a contract *)
(* and accounts kept elsewhere, for any number of accounts, nodes, devices *)
(* and calls.                                                              *)
(***************************************************************************)
EXTENDS SdkContext, ContractFlow, Names, Accounts, SequenceTheorems, TLAPS

-----------------------------------------------------------------------------
(* The calls of one SDK *)

\* The types that SdkTypeOK leaves out.
OutcomesOK ==
    /\ failure \in [Ops -> {Nobody, "unavailable", "unusable", "invalidSignature", "refused", "gone"}]
    /\ network \in [Ops -> {Network[n] : n \in NodeNames} \cup {Nobody}]

\* A call that has not begun has nothing of a transaction; one that is polled for
\* was posted to a node.
StagesOK == \A c \in Ops :
    /\ step[c] \in {"idle", "building"} => sender[c] = Nobody
    /\ step[c] \in {"idle", "building", "signing"} => signer[c] = Nobody
    /\ step[c] = "polling" => postedTo[c] \in nodes /\ selectedNode # Nobody

\* While the selection stays as it is, what a call has read is what it would read now.
SteadyOK == \A c \in Ops \ disturbed :
    /\ step[c] = "signing" => sender[c] = Account(c)
    /\ step[c] \in {"verifying", "posting"} =>
         selectedNode # Nobody /\ Genuine(c, selectedNode)
    /\ step[c] = "polling" => selectedNode = postedTo[c]

SdkInv == SdkInOrder /\ OutcomesOK /\ StagesOK /\ SteadyOK

\* Every step of the SDK keeps the types.
LEMMA SdkTypes ==
    ASSUME SdkTypeOK, OutcomesOK, [SNext]_svars
    PROVE  SdkTypeOK' /\ OutcomesOK'
<1> USE DEF SdkTypeOK, OutcomesOK, Stays, Running, Keeps, At, To, FailsWith, sdk, txs
<1>1. ASSUME NEW n \in NodeNames, SelectNode(n) \/ \E b \in BOOLEAN : AddNode(n, b)
      PROVE  SdkTypeOK' /\ OutcomesOK'
  BY <1>1 DEF SelectNode, AddNode
<1>2. ASSUME NEW a \in Accounts,
             SelectAccount(a) \/ RemoveAccount(a) \/ \E b \in BOOLEAN : AddAccount(a, b)
      PROVE  SdkTypeOK' /\ OutcomesOK'
  BY <1>2 DEF SelectAccount, RemoveAccount, AddAccount
<1>3. ASSUME NEW c \in Ops PROVE Account(c) \in Accounts \cup {Nobody}
  BY DEF Account
<1>4. ASSUME NEW c \in Ops, NEW a \in Accounts \cup {Nobody}, Begin(c, a)
      PROVE  SdkTypeOK' /\ OutcomesOK'
  BY <1>4 DEF Begin
<1>5. ASSUME NEW c \in Ops, Unusable(c) PROVE SdkTypeOK' /\ OutcomesOK'
  BY <1>5 DEF Unusable
<1>6. ASSUME NEW c \in Ops, Build(c) PROVE SdkTypeOK' /\ OutcomesOK'
  BY <1>3, <1>6 DEF Build
<1>7. ASSUME NEW c \in Ops, Sign(c) PROVE SdkTypeOK' /\ OutcomesOK'
  <2>1. Network[selectedNode] \in {Network[n] : n \in NodeNames}
    BY <1>7 DEF Sign
  <2> QED BY <1>3, <1>7, <2>1 DEF Sign
<1>8. ASSUME NEW c \in Ops, Verify(c) PROVE SdkTypeOK' /\ OutcomesOK'
  BY <1>8 DEF Verify
<1>9. ASSUME NEW c \in Ops, Post(c) PROVE SdkTypeOK' /\ OutcomesOK'
  BY <1>9 DEF Post
<1>10. ASSUME NEW c \in Ops, Poll(c) PROVE SdkTypeOK' /\ OutcomesOK'
  BY <1>10 DEF Poll
<1>11. ASSUME UNCHANGED svars PROVE SdkTypeOK' /\ OutcomesOK'
  BY <1>11 DEF svars
<1> QED
  BY <1>1, <1>2, <1>4, <1>5, <1>6, <1>7, <1>8, <1>9, <1>10, <1>11 DEF SNext, Moves

\* What the selections change disturbs the calls that run, and nothing else of
\* a call.
LEMMA SelectionStep ==
    ASSUME SdkInv, SdkTypeOK',
           \/ \E n \in NodeNames : SelectNode(n) \/ \E b \in BOOLEAN : AddNode(n, b)
           \/ \E a \in Accounts : SelectAccount(a) \/ RemoveAccount(a) \/ \E b \in BOOLEAN : AddAccount(a, b)
    PROVE  /\ NothingForeignPosted' /\ GivenAccountIsUsed' /\ UndisturbedFits'
           /\ StagesOK' /\ SteadyOK'
<1>1. UNCHANGED <<step, given, sender, signer, network, postedTo, failure>>
  BY DEF SelectNode, AddNode, SelectAccount, RemoveAccount, AddAccount, Stays, txs
<1>2. disturbed \subseteq disturbed' /\ nodes \subseteq nodes'
      /\ (selectedNode # Nobody => selectedNode' # Nobody)
  BY SdkContextAssumption
  DEF SelectNode, AddNode, SelectAccount, RemoveAccount, AddAccount, SdkInv, SdkInOrder, SdkTypeOK
<1>3. Running \subseteq disturbed' \/ UNCHANGED <<selected, selectedNode>>
  BY DEF SelectNode, AddNode, SelectAccount, RemoveAccount, AddAccount
<1>4. NothingForeignPosted' /\ GivenAccountIsUsed' /\ UndisturbedFits'
  BY <1>1, <1>2 DEF SdkInv, SdkInOrder, NothingForeignPosted, GivenAccountIsUsed, UndisturbedFits
<1>5. StagesOK'
  BY <1>1, <1>2 DEF SdkInv, StagesOK
<1>6. SteadyOK'
  <2> SUFFICES ASSUME NEW c \in Ops \ disturbed', step[c] \in {"signing", "verifying", "posting", "polling"}
               PROVE  UNCHANGED <<selected, selectedNode>> /\ c \notin disturbed
    BY <1>1 DEF SteadyOK, SdkInv, Account, Genuine
  <2> QED BY <1>2, <1>3 DEF Running
<1> QED BY <1>4, <1>5, <1>6

\* A step of one call leaves the others as they are.
LEMMA CallStep ==
    ASSUME SdkInv, SdkTypeOK', OutcomesOK', NEW c \in Ops,
           Moves(c) \/ \E a \in Accounts \cup {Nobody} : Begin(c, a)
    PROVE  /\ NothingForeignPosted' /\ GivenAccountIsUsed' /\ UndisturbedFits'
           /\ StagesOK' /\ SteadyOK'
<1>1. UNCHANGED <<nodes, selectedNode, accounts, selected, disturbed>>
  BY DEF Moves, Begin, Unusable, Build, Sign, Verify, Post, Poll, Keeps, sdk
<1>2. ASSUME NEW d \in Ops \ {c}
      PROVE  /\ step'[d] = step[d] /\ given'[d] = given[d] /\ sender'[d] = sender[d]
             /\ signer'[d] = signer[d] /\ network'[d] = network[d]
             /\ postedTo'[d] = postedTo[d] /\ failure'[d] = failure[d]
  BY DEF Moves, Begin, Unusable, Build, Sign, Verify, Post, Poll, Keeps, To, FailsWith, txs,
    SdkInv, SdkInOrder, SdkTypeOK, OutcomesOK
<1> DEFINE
      Fine == /\ c \notin Unverified /\ step'[c] \in {"posting", "polling", "done"} => signer'[c] = sender'[c]
              /\ given'[c] # Nobody => {sender'[c], signer'[c]} \subseteq {given'[c], Nobody}
              /\ c \notin disturbed => failure'[c] \in {Nobody, "unavailable", "unusable"}
              /\ step'[c] \in {"idle", "building"} => sender'[c] = Nobody
              /\ step'[c] \in {"idle", "building", "signing"} => signer'[c] = Nobody
              /\ step'[c] = "polling" => postedTo'[c] \in nodes /\ selectedNode # Nobody
              /\ c \notin disturbed =>
                   /\ step'[c] = "signing" => sender'[c] = IF given'[c] # Nobody THEN given'[c] ELSE selected
                   /\ step'[c] \in {"verifying", "posting"} =>
                        selectedNode # Nobody /\ signer'[c] = sender'[c] /\ network'[c] = Network[selectedNode]
                   /\ step'[c] = "polling" => selectedNode = postedTo'[c]
<1>3. Fine
  <2> USE DEF SdkInv, SdkInOrder, SdkTypeOK, OutcomesOK, NothingForeignPosted, GivenAccountIsUsed,
        UndisturbedFits, StagesOK, SteadyOK, Account, Genuine, At, To, FailsWith, Keeps, txs, sdk
  <2>1. CASE \E a \in Accounts \cup {Nobody} : Begin(c, a)
    BY <2>1 DEF Begin
  <2>2. CASE Unusable(c)
    BY <2>2 DEF Unusable
  <2>3. CASE Build(c)
    BY <2>3 DEF Build
  <2>4. CASE Sign(c)
    BY <2>4 DEF Sign
  <2>5. CASE Verify(c)
    BY <2>5 DEF Verify
  <2>6. CASE Post(c)
    BY <2>6 DEF Post
  <2>7. CASE Poll(c)
    BY <2>7 DEF Poll
  <2> QED BY <2>1, <2>2, <2>3, <2>4, <2>5, <2>6, <2>7 DEF Moves
<1>4. NothingForeignPosted' /\ GivenAccountIsUsed' /\ UndisturbedFits'
  BY <1>1, <1>2, <1>3 DEF SdkInv, SdkInOrder, NothingForeignPosted, GivenAccountIsUsed, UndisturbedFits
<1>5. StagesOK'
  BY <1>1, <1>2, <1>3 DEF SdkInv, StagesOK
<1>6. SteadyOK'
  BY <1>1, <1>2, <1>3 DEF SdkInv, SteadyOK, Account, Genuine
<1> QED BY <1>4, <1>5, <1>6

\* One call of the SDK is of one account on one network, however the selected
\* account and node change while calls run (AeSdkMethods.ts:120-131, wrap-proxy.ts:3-37
\* and validator.ts:97-123).
THEOREM SdkStaysInOrder == SSpec => []SdkInOrder
<1>1. SInit => SdkInv
  BY SdkContextAssumption
  DEF SInit, SdkInv, SdkInOrder, SdkTypeOK, OutcomesOK, NothingForeignPosted, GivenAccountIsUsed,
    UndisturbedFits, StagesOK, SteadyOK
<1>2. SdkInv /\ [SNext]_svars => SdkInv'
  <2> SUFFICES ASSUME SdkInv, [SNext]_svars PROVE SdkInv'
    OBVIOUS
  <2>1. SdkTypeOK' /\ OutcomesOK'
    BY SdkTypes DEF SdkInv, SdkInOrder
  <2>2. CASE SNext
    BY <2>1, <2>2, SelectionStep, CallStep DEF SNext, SdkInv, SdkInOrder
  <2>3. CASE UNCHANGED svars
    BY <2>1, <2>3
    DEF svars, sdk, txs, SdkInv, SdkInOrder, NothingForeignPosted, GivenAccountIsUsed, UndisturbedFits,
      StagesOK, SteadyOK, Account, Genuine
  <2> QED BY <2>2, <2>3
<1>3. SdkInv => SdkInOrder
  BY DEF SdkInv
<1> QED BY <1>1, <1>2, <1>3, PTL DEF SSpec

-----------------------------------------------------------------------------
(* The deployments and calls of one instance of a contract *)

ContractTypeOK ==
    /\ form \in Forms /\ existing \in [found : BOOLEAN, same : BOOLEAN]
    /\ outcome \in {"none", "ready", "failed"}
    /\ at \in [Jobs -> {"idle", "compiled", "running", "estimating", "sending", "polling", "mined", "done", "failed"}]
    /\ fate \in [Jobs -> {"none", "pool", "lost", "reverted", "ok"}]
    /\ finished \in [Jobs -> SUBSET Jobs]
    /\ generalized \in BOOLEAN /\ authFun \in BOOLEAN

\* No deployment runs before initialize, which is the first to set the address:
\* that of the contract that exists, if it is given.
ReadyOK ==
    /\ outcome # "ready" => \A j \in Jobs : Kind[j] = "deploy" => at[j] = "idle"
    /\ outcome = "ready" /\ form.address # "none" => address # Nowhere

\* A deployment that was executed is on chain, and the contract that existed, too.
OnChainOK ==
    /\ existing.found => Given \in contracts
    /\ \A j \in Jobs : Kind[j] = "deploy" /\ fate[j] = "ok" => j \in contracts

\* A transaction is in the pool, at most, until it is sent; one polled for was
\* sent, and what is mined was executed; a signing sends nothing.
FateOK == \A j \in Jobs :
    /\ at[j] \in {"idle", "compiled", "running", "estimating", "sending"} => fate[j] = "none"
    /\ at[j] = "mined" => fate[j] \in {"reverted", "ok"}
    /\ at[j] = "running" => Kind[j] = "dryRun"
    /\ Kind[j] = "sign" => at[j] \in {"idle", "done", "failed"}

\* Only one of those that send a transaction is estimated, and one that is sent
\* with gas to be found out was.
EstimatedOK == \A j \in NoGas : at[j] = "sending" => j \in estimated

\* A deployment that is done left its address to the instance.
AddressKept == \A j \in Jobs : Kind[j] = "deploy" /\ at[j] = "done" => address # Nowhere

\* A deployment that came past the check of the address.
Past(k) == at[k] \in {"estimating", "sending", "polling", "mined", "done"} \/ fate[k] # "none"

\* Deployments over before another began are over, and when that came past the
\* check of the address, none of them had resolved, and none was there before.
FinishedOK == \A k \in Jobs :
    /\ \A j \in finished[k] : Kind[j] = "deploy" /\ Ended(j)
    /\ Kind[k] = "deploy" /\ Past(k) =>
         form.address = "none" /\ \A j \in finished[k] : at[j] = "failed"

ContractInv ==
    /\ ContractInOrder /\ ContractTypeOK /\ ReadyOK /\ OnChainOK /\ FateOK
    /\ EstimatedOK /\ AddressKept /\ FinishedOK

\* An initialize that does not fail found what it validated.
LEMMA InitializeStep ==
    ASSUME ContractInv, Initialize
    PROVE  ContractInv'
<1>1. /\ outcome = "none" /\ outcome' = IF InitializeFails(form, existing) THEN "failed" ELSE "ready"
      /\ address' = IF form.address = "none" THEN Nowhere ELSE Given
      /\ UNCHANGED <<form, existing, at, target, estimated, fate, contracts, generalized, authFun, finished>>
  BY DEF Initialize, onChain
<1>2. form \in FormType /\ Nowhere \notin Jobs /\ Given \notin Jobs
  BY ContractFlowAssumption DEF ContractInv, ContractTypeOK
<1>3. /\ outcome' = "ready" /\ form.address # "none" => existing.found
      /\ outcome' = "ready" /\ form.validate => existing.found /\ existing.same
  BY <1>1, <1>2 DEF InitializeFails, FormType
<1>4. \A j \in Jobs : Kind[j] = "deploy" => at[j] = "idle"
  BY <1>1 DEF ContractInv, ReadyOK
<1>5. ContractTypeOK' /\ FateOK' /\ EstimatedOK' /\ OnChainOK' /\ FinishedOK'
  <2>1. \A k \in Jobs : Past(k)' = Past(k) /\ Ended(k)' = Ended(k)
    BY <1>1 DEF Past, Ended
  <2> QED BY <1>1, <2>1 DEF ContractInv, ContractTypeOK, FateOK, EstimatedOK, OnChainOK, FinishedOK
<1>6. ReadyOK' /\ AddressKept'
  BY <1>1, <1>4, ContractFlowAssumption DEF ReadyOK, AddressKept
<1>7. AddressIsContract'
  BY <1>1, <1>3 DEF AddressIsContract, ContractInv, OnChainOK
<1>8. ValidatedMatches'
  BY <1>1, <1>3 DEF ValidatedMatches
<1>9. DeployedOnce' /\ ResolvedWasExecuted' /\ EstimatedBeforePaid' /\ AuthFunOfGeneralized'
  BY <1>1
  DEF ContractInv, ContractInOrder, DeployedOnce, ResolvedWasExecuted, EstimatedBeforePaid, AuthFunOfGeneralized
<1> QED BY <1>5, <1>6, <1>7, <1>8, <1>9 DEF ContractInv, ContractInOrder

\* What a job does itself.
JobMoves(j) == Deploy(j) \/ CheckAddress(j) \/ Call(j) \/ DryRun(j) \/ Attach(j)
               \/ Estimate(j) \/ Send(j) \/ PollJob(j) \/ Result(j) \/ Authorize(j)

\* It goes from stage to stage, sends its transaction at most, and stays what it
\* is once it is over.
LEMMA JobFacts ==
    ASSUME ContractInv, NEW j \in Jobs, JobMoves(j)
    PROVE  /\ UNCHANGED <<form, existing, outcome, contracts, generalized>>
           /\ \A k \in Jobs \ {j} : at'[k] = at[k] /\ fate'[k] = fate[k] /\ finished'[k] = finished[k]
           /\ ContractTypeOK'
           /\ ~Ended(j)
           /\ fate' = fate \/ (at[j] = "sending" /\ fate' = [fate EXCEPT ![j] = "pool"])
<1> USE DEF JobMoves, ContractInv, ContractTypeOK, Put, Ended, instance, account, onChain, AfterChecks
<1>1. CASE Deploy(j) \/ CheckAddress(j)
  BY <1>1 DEF Deploy, CheckAddress
<1>2. CASE Call(j) \/ DryRun(j) \/ Attach(j) \/ Estimate(j)
  BY <1>2 DEF Call, DryRun, Attach, Estimate
<1>3. CASE Send(j)
  BY <1>3 DEF Send, Becomes, Resolves
<1>4. CASE PollJob(j) \/ Result(j)
  BY <1>4 DEF PollJob, Result, Resolves
<1>5. CASE Authorize(j)
  BY <1>5 DEF Authorize
<1> QED BY <1>1, <1>2, <1>3, <1>4, <1>5

\* What it does keeps the invariant.
LEMMA JobStep ==
    ASSUME ContractInv, NEW j \in Jobs, JobMoves(j)
    PROVE  ContractInv'
<1>1. /\ UNCHANGED <<form, existing, outcome, contracts, generalized>>
      /\ \A k \in Jobs \ {j} : at'[k] = at[k] /\ fate'[k] = fate[k] /\ finished'[k] = finished[k]
      /\ ContractTypeOK'
      /\ ~Ended(j)
  BY JobFacts
<1>2. ContractTypeOK
  BY DEF ContractInv
<1>3. fate'[j] = fate[j] \/ (at[j] = "sending" /\ fate'[j] = "pool")
  BY <1>2, JobFacts DEF ContractTypeOK
<1>4. address # Nowhere => address' # Nowhere
  BY ContractFlowAssumption
  DEF JobMoves, Deploy, CheckAddress, Call, DryRun, Attach, Estimate, Send, Resolves, PollJob, Result, Authorize
<1>5. ReadyOK'
  <2>1. Kind[j] = "deploy" /\ at[j] = "idle" => outcome = "ready"
    BY DEF JobMoves, Deploy, CheckAddress, Call, DryRun, Attach, Estimate, Send, PollJob, Result, Authorize,
      ContractInv, FateOK, ContractTypeOK
  <2> QED BY <1>1, <1>4, <2>1 DEF ContractInv, ReadyOK
<1>6. OnChainOK'
  BY <1>1, <1>3 DEF ContractInv, OnChainOK
<1>7. FateOK'
  <2>1. /\ at'[j] \in {"idle", "compiled", "running", "estimating", "sending"} => fate'[j] = "none"
        /\ at'[j] = "mined" => fate'[j] \in {"reverted", "ok"}
        /\ at'[j] = "running" => Kind[j] = "dryRun"
        /\ Kind[j] = "sign" => at'[j] \in {"idle", "done", "failed"}
    BY <1>2
    DEF ContractInv, FateOK, JobMoves, Deploy, CheckAddress, Call, DryRun, Attach, Estimate, Send, Becomes, Resolves,
      PollJob, Result, Authorize, Put, ContractTypeOK, AfterChecks, onChain
  <2> QED BY <1>1, <2>1 DEF ContractInv, FateOK
<1>8. EstimatedOK'
  <2>1. estimated \subseteq estimated'
    BY DEF JobMoves, Deploy, CheckAddress, Call, DryRun, Attach, Estimate, Send, PollJob, Result, Authorize
  <2>2. j \in NoGas /\ at'[j] = "sending" => j \in estimated'
    BY <1>2
    DEF JobMoves, Deploy, CheckAddress, Call, DryRun, Attach, Estimate, Send, Resolves, PollJob, Result, Authorize,
      Put, ContractTypeOK, AfterChecks
  <2> QED BY <1>1, <2>1, <2>2, ContractFlowAssumption DEF ContractInv, EstimatedOK
<1>9. AddressKept'
  <2>1. Kind[j] = "deploy" /\ at'[j] = "done" => address' # Nowhere
    BY <1>2, ContractFlowAssumption
    DEF ContractInv, FateOK, JobMoves, Deploy, CheckAddress, Call, DryRun, Attach, Estimate, Send, Resolves, PollJob,
      Result, Authorize, Put, ContractTypeOK, AfterChecks
  <2> QED BY <1>1, <1>4, <2>1 DEF ContractInv, AddressKept
<1>10. FinishedOK'
  <2>1. /\ finished' # finished => /\ at[j] = "idle" /\ at'[j] \in {"compiled", "failed"} /\ fate' = fate
                                   /\ finished' = [finished EXCEPT ![j] = {k \in Jobs : Kind[k] = "deploy" /\ Ended(k)}]
    BY <1>2
    DEF JobMoves, Deploy, CheckAddress, Call, DryRun, Attach, Estimate, Send, PollJob, Result, Authorize,
      Put, ContractTypeOK, onChain
  <2>2. ASSUME NEW k \in Jobs, NEW i \in finished'[k]
        PROVE  i \in Jobs /\ Kind[i] = "deploy" /\ Ended(i) /\ i # j /\ at'[i] = at[i]
    BY <1>1, <1>2, <2>1, <2>2 DEF ContractInv, FinishedOK, ContractTypeOK
  <2>3. ASSUME Kind[j] = "deploy", Past(j)'
        PROVE  finished' = finished /\ (Past(j) \/ (at[j] = "compiled" /\ address = Nowhere))
    BY <1>2, <1>3, <2>1, <2>3
    DEF ContractInv, FateOK, JobMoves, Deploy, CheckAddress, Call, DryRun, Attach, Estimate, Send, PollJob, Result,
      Authorize, Put, ContractTypeOK, Past
  <2>4. ASSUME NEW k \in Jobs, Kind[k] = "deploy", Past(k)'
        PROVE  form'.address = "none" /\ \A i \in finished'[k] : at'[i] = "failed"
    <3>1. CASE Past(k)
      <4>1. finished'[k] = finished[k]
        BY <1>1, <2>3, <2>4
      <4> QED BY <1>1, <2>2, <2>4, <3>1, <4>1 DEF ContractInv, FinishedOK
    <3>2. CASE ~Past(k)
      <4>1. k = j /\ address = Nowhere /\ at[j] = "compiled" /\ finished' = finished
        BY <1>1, <2>3, <2>4, <3>2 DEF Past
      <4>2. outcome = "ready"
        BY <1>2, <2>4, <4>1 DEF ContractInv, ReadyOK
      <4>3. form.address = "none"
        BY <4>1, <4>2 DEF ContractInv, ReadyOK
      <4>4. \A i \in finished'[k] : at[i] # "done"
        BY <2>2, <4>1 DEF ContractInv, AddressKept
      <4> QED BY <1>1, <2>2, <4>3, <4>4 DEF Ended
    <3> QED BY <3>1, <3>2
  <2>5. \A k \in Jobs : \A i \in finished'[k] : Kind[i] = "deploy" /\ Ended(i)'
    BY <2>2 DEF Ended
  <2> QED BY <2>4, <2>5 DEF FinishedOK
<1>11. ContractInOrder'
  <2>1. AddressIsContract'
    <3>1. address' \in {address, j} /\ (address' # address => j \in contracts \cup Unwaited)
      BY <1>2
      DEF ContractInv, FateOK, OnChainOK, ContractTypeOK, JobMoves, Deploy, CheckAddress, Call, DryRun, Attach,
        Estimate, Send, Resolves, PollJob, Result, Authorize
    <3> QED BY <1>1, <3>1 DEF ContractInv, ContractInOrder, AddressIsContract
  <2>2. DeployedOnce'
    BY <1>10 DEF DeployedOnce, FinishedOK, Past
  <2>3. ResolvedWasExecuted'
    <3>1. ASSUME j \notin Unwaited, at'[j] = "done"
          PROVE  /\ Kind[j] \in {"deploy", "call"} => fate'[j] = "ok"
                 /\ Kind[j] = "attach" => fate'[j] \in {"ok", "reverted"}
      BY <1>2, <3>1
      DEF ContractInv, FateOK, ContractTypeOK, JobMoves, Deploy, CheckAddress, Call, DryRun, Attach, Estimate, Send,
        Resolves, PollJob, Result, Authorize, Put, AfterChecks, onChain
    <3> QED BY <1>1, <3>1 DEF ContractInv, ContractInOrder, ResolvedWasExecuted
  <2>4. EstimatedBeforePaid'
    <3>1. estimated \subseteq estimated'
      BY DEF JobMoves, Deploy, CheckAddress, Call, DryRun, Attach, Estimate, Send, PollJob, Result, Authorize
    <3> QED
      BY <1>1, <1>3, <3>1, ContractFlowAssumption
      DEF ContractInv, ContractInOrder, EstimatedBeforePaid, EstimatedOK
  <2>5. ValidatedMatches'
    BY <1>1 DEF ContractInv, ContractInOrder, ValidatedMatches
  <2>6. AuthFunOfGeneralized'
    <3>1. authFun' => generalized
      BY DEF JobMoves, Deploy, CheckAddress, Call, DryRun, Attach, Estimate, Send, PollJob, Result,
        Authorize, account, ContractInv, ContractInOrder, AuthFunOfGeneralized
    <3>2. j \notin OwnCallData /\ Kind[j] = "sign" /\ at'[j] = "done" => generalized
      BY <1>2, <3>1
      DEF JobMoves, Deploy, CheckAddress, Call, DryRun, Attach, Estimate, Send, Resolves, PollJob, Result,
        Authorize, ContractInv, FateOK, ContractTypeOK, Put, AfterChecks
    <3> QED BY <1>1, <3>1, <3>2 DEF ContractInv, ContractInOrder, AuthFunOfGeneralized
  <2> QED BY <2>1, <2>2, <2>3, <2>4, <2>5, <2>6 DEF ContractInOrder
<1> QED BY <1>1, <1>5, <1>6, <1>7, <1>8, <1>9, <1>10, <1>11 DEF ContractInv

\* The chain executes a transaction, whatever its job made of it meanwhile.
LEMMA ExecutedStep ==
    ASSUME ContractInv, NEW j \in Jobs, Executed(j)
    PROVE  ContractInv'
<1>1. /\ UNCHANGED <<form, existing, outcome, bytecode, address, at, target, estimated, authFun, finished>>
      /\ fate[j] = "pool" /\ fate' \in {[fate EXCEPT ![j] = f] : f \in {"lost", "reverted", "ok"}}
      /\ contracts \subseteq contracts' /\ (generalized => generalized') /\ generalized' \in BOOLEAN
      /\ fate'[j] = "ok" /\ Kind[j] = "deploy" => j \in contracts'
  BY DEF Executed, Becomes, instance, ContractInv, ContractTypeOK
<1>2. fate \in [Jobs -> {"none", "pool", "lost", "reverted", "ok"}]
  BY DEF ContractInv, ContractTypeOK
<1>3. /\ fate'[j] \in {"lost", "reverted", "ok"}
      /\ \A k \in Jobs \ {j} : fate'[k] = fate[k]
      /\ \A k \in Jobs : fate'[k] = "none" <=> fate[k] = "none"
  BY <1>1, <1>2
<1>4. at[j] \notin {"mined", "idle", "compiled", "running", "estimating", "sending"}
  BY <1>1 DEF ContractInv, FateOK
<1>5. ContractTypeOK'
  BY <1>1, <1>2 DEF ContractInv, ContractTypeOK
<1>6. ReadyOK' /\ EstimatedOK' /\ AddressKept'
  BY <1>1 DEF ContractInv, ReadyOK, EstimatedOK, AddressKept
<1>7. OnChainOK' /\ FateOK'
  <2>1. OnChainOK'
    <3>1. \A k \in Jobs : Kind[k] = "deploy" /\ fate'[k] = "ok" => k \in contracts'
      BY <1>1, <1>3 DEF ContractInv, OnChainOK
    <3> QED BY <1>1, <3>1 DEF ContractInv, OnChainOK
  <2>2. FateOK'
    <3>1. at[j] \notin {"mined", "idle", "compiled", "running", "estimating", "sending"}
      BY <1>4
    <3>2. (Kind[j] = "sign" => at[j] \in {"idle", "done", "failed"}) /\ at' = at
      BY <1>1 DEF ContractInv, FateOK
    <3>3. \A k \in Jobs \ {j} : fate'[k] = fate[k]
      BY <1>3
    <3> QED BY <3>1, <3>2, <3>3 DEF ContractInv, FateOK
  <2> QED BY <2>1, <2>2
<1>8. FinishedOK'
  <2>1. \A k \in Jobs : Past(k)' = Past(k) /\ Ended(k)' = Ended(k)
    BY <1>1, <1>3 DEF Past, Ended
  <2>2. UNCHANGED <<form, at, finished>>
    BY <1>1
  <2> QED BY <2>1, <2>2 DEF ContractInv, ContractTypeOK, FinishedOK
<1>9. ContractInOrder'
  <2>1. AddressIsContract' /\ ValidatedMatches'
    BY <1>1 DEF ContractInv, ContractInOrder, AddressIsContract, ValidatedMatches
  <2>2. DeployedOnce' /\ EstimatedBeforePaid'
    BY <1>1, <1>3, ContractFlowAssumption
    DEF ContractInv, ContractInOrder, DeployedOnce, EstimatedBeforePaid
  <2>3. ResolvedWasExecuted'
    BY <1>1, <1>3 DEF ContractInv, ContractInOrder, ResolvedWasExecuted
  <2>4. AuthFunOfGeneralized'
    BY <1>1 DEF ContractInv, ContractInOrder, AuthFunOfGeneralized
  <2> QED BY <2>1, <2>2, <2>3, <2>4 DEF ContractInOrder
<1> QED BY <1>5, <1>6, <1>7, <1>8, <1>9 DEF ContractInv

\* What an instance and an account keep is what the chain has, however many
\* deployments, calls and signings overlap, and whichever of them reject though
\* their transaction is mined (Contract.ts:178-294 and 534-596, ga.ts:55-96,
\* Generalized.ts:60-102).
THEOREM ContractStaysInOrder == CSpec => []ContractInOrder
<1>1. CInit => ContractInv
  BY ContractFlowAssumption
  DEF CInit, ContractInv, ContractInOrder, ContractTypeOK, ReadyOK, OnChainOK, FateOK, EstimatedOK, AddressKept,
    FinishedOK, AddressIsContract, DeployedOnce, ResolvedWasExecuted, EstimatedBeforePaid, ValidatedMatches,
    AuthFunOfGeneralized, Ended, Past
<1>2. ContractInv /\ [CNext]_cvars => ContractInv'
  <2> SUFFICES ASSUME ContractInv, [CNext]_cvars PROVE ContractInv'
    OBVIOUS
  <2>1. CASE CNext
    BY <2>1, InitializeStep, JobStep, ExecutedStep DEF CNext, JobMoves
  <2>2. CASE UNCHANGED cvars
    BY <2>2
    DEF cvars, account, ContractInv, ContractInOrder, ContractTypeOK, ReadyOK, OnChainOK, FateOK, EstimatedOK,
      AddressKept, FinishedOK, AddressIsContract, DeployedOnce, ResolvedWasExecuted, EstimatedBeforePaid,
      ValidatedMatches, AuthFunOfGeneralized, Ended, Past
  <2> QED BY <2>1, <2>2
<1>3. ContractInv => ContractInOrder
  BY DEF ContractInv
<1> QED BY <1>1, <1>2, <1>3, PTL DEF CSpec

-----------------------------------------------------------------------------
(* Accounts of a Ledger, of MetaMask and of a discovery *)

\* The first n parts of what a call sends.
Parts(c, n) == [i \in 1..n |-> <<c, i>>]

AccountsTypeOK ==
    /\ device \in {"supported", "old", "closed"}
    /\ ready \in {"unset", "pending", "resolved", "rejected"}
    /\ asks \in [Signings \cup Addresses ->
                   {"idle", "busy", "sending", "checking", "joined", "asking", "done", "failed"}]
    /\ sent \in [Signings -> Nat]
    /\ DOMAIN signed = Signings

\* A call that is under way has the lock; an address is asked for after an
\* app of a supported version was seen, which no user undoes.
LockOK ==
    /\ \A c \in Signings \cup Addresses :
         /\ asks[c] \in {"sending", "checking", "joined", "asking"} => lock = c
         /\ asks[c] = "sending" => c \in Signings
    /\ \A c \in Addresses : asks[c] = "asking" => ready = "resolved"
    /\ ready = "resolved" => device = "supported"

\* While a call sends, what the device has got since its first part is of that call.
PartsOK == \A c \in Signings :
    /\ asks[c] \in {"idle", "busy"} => sent[c] = 0
    /\ asks[c] = "sending" /\ sent[c] > 0 => buffer = Parts(c, sent[c])

LedgerInv == AccountsTypeOK /\ LockOK /\ PartsOK /\ SignedWhole /\ AddressFromKnownApp

\* A sequence is the function of its items.
LEMMA SeqIsItsItems ==
    ASSUME NEW S, NEW q \in Seq(S)
    PROVE  q = [i \in 1..Len(q) |-> q[i]]
<1>1. PICK n \in Nat : q \in [1..n -> S]
  BY SeqDef
<1>2. Len(q) = n
  BY <1>1, LenProperties
<1> QED BY <1>1, <1>2

\* Tuples are sequences.
LEMMA TuplesOf ==
    ASSUME NEW S, NEW a \in S, NEW b \in S, NEW c \in S, NEW d \in S, NEW e \in S
    PROVE  <<a, b, c, d, e>> \in Seq(S) /\ <<a, b, c>> \in Seq(S)
OBVIOUS

\* A third item.
LEMMA AppendThird ==
    ASSUME NEW a, NEW b, NEW c
    PROVE  Append(<<a, b>>, c) = <<a, b, c>>
<1> DEFINE S == {a, b, c}  s == <<a, b>>  q == Append(s, c)
<1>1. s \in Seq(S) /\ Len(s) = 2 /\ s[1] = a /\ s[2] = b /\ c \in S
  OBVIOUS
<1> HIDE DEF S, s
<1>2. \A x \in S : /\ Append(s, x) \in Seq(S) /\ Len(Append(s, x)) = Len(s) + 1
                   /\ \A i \in 1..Len(s) : Append(s, x)[i] = s[i]
                   /\ Append(s, x)[Len(s) + 1] = x
  <2>1. s \in Seq(S)
    BY <1>1
  <2> QED BY <2>1, AppendProperties
<1>3. q \in Seq(S) /\ Len(q) = 3 /\ q[1] = a /\ q[2] = b /\ q[3] = c
  BY <1>1, <1>2
<1> HIDE DEF q
<1>4. q = [i \in 1..3 |-> q[i]]
  BY <1>3, SeqIsItsItems
<1>5. q = <<a, b, c>>
  BY <1>3, <1>4
<1> QED BY <1>5 DEF q, s

\* Two sequences, item by item.
LEMMA ConcatThreeTwo ==
    ASSUME NEW a, NEW b, NEW c, NEW d, NEW e
    PROVE  <<a, b, c>> \o <<d, e>> = <<a, b, c, d, e>>
<1> DEFINE S == {a, b, c, d, e}  s == <<a, b, c>>  u == <<d, e>>  q == s \o u
<1>1. s \in Seq(S) /\ Len(s) = 3 /\ s[1] = a /\ s[2] = b /\ s[3] = c
  OBVIOUS
<1>2. u \in Seq(S) /\ Len(u) = 2 /\ u[1] = d /\ u[2] = e
  OBVIOUS
<1> HIDE DEF S, s, u
<1>3. /\ s \o u \in Seq(S) /\ Len(s \o u) = Len(s) + Len(u)
      /\ \A i \in 1..Len(s) + Len(u) : (s \o u)[i] = IF i <= Len(s) THEN s[i] ELSE u[i - Len(s)]
  BY <1>1, <1>2, ConcatProperties, Zenon
<1>4. q \in Seq(S) /\ Len(q) = 5 /\ \A i \in 1..5 : q[i] = IF i <= 3 THEN s[i] ELSE u[i - 3]
  BY <1>1, <1>2, <1>3
<1> HIDE DEF q
<1>5. q = [i \in 1..5 |-> q[i]]
  BY <1>4, SeqIsItsItems
<1>6. q[1] = a /\ q[2] = b /\ q[3] = c /\ q[4] = d /\ q[5] = e
  BY <1>1, <1>2, <1>4
<1>7. q = <<a, b, c, d, e>>
  BY <1>5, <1>6
<1> QED BY <1>7 DEF q, s, u

\* A first part begins anew, another one is put after those before it.
LEMMA ReceivedParts ==
    ASSUME NEW c, NEW n \in Nat, n > 0 => buffer = Parts(c, n)
    PROVE  Received(c, n + 1) = Parts(c, n + 1)
<1>1. CASE n = 0
  <2>1. Received(c, n + 1) = <<<<c, 1>>>>
    BY <1>1 DEF Received
  <2>2. Parts(c, n + 1) = [i \in 1..1 |-> <<c, i>>]
    BY <1>1 DEF Parts
  <2>3. [i \in 1..1 |-> <<c, i>>] = <<<<c, 1>>>>
    OBVIOUS
  <2> QED BY <2>1, <2>2, <2>3
<1>2. CASE n # 0
  <2> DEFINE S == {<<c, i>> : i \in Nat}  s == Parts(c, n)
  <2>1. n > 0 /\ n + 1 # 1
    BY <1>2
  <2>2. Received(c, n + 1) = Append(s, <<c, n + 1>>)
    BY <2>1 DEF Received
  <2>3. s \in [1..n -> S] /\ s \in Seq(S) /\ Len(s) = n
    <3>1. s \in [1..n -> S]
      BY DEF Parts
    <3> HIDE DEF S, s
    <3> QED BY <3>1, SeqDef, LenProperties
  <2>4. <<c, n + 1>> \in S
    OBVIOUS
  <2>5. \A i \in 1..n : s[i] = <<c, i>>
    BY DEF Parts
  <2> HIDE DEF S, s
  <2>6. /\ Append(s, <<c, n + 1>>) \in Seq(S) /\ Len(Append(s, <<c, n + 1>>)) = n + 1
        /\ \A i \in 1..n : Append(s, <<c, n + 1>>)[i] = s[i]
        /\ Append(s, <<c, n + 1>>)[n + 1] = <<c, n + 1>>
    <3> HIDE DEF S
    <3>1. \A x \in S : /\ Append(s, x) \in Seq(S) /\ Len(Append(s, x)) = Len(s) + 1
                       /\ \A i \in 1..Len(s) : Append(s, x)[i] = s[i]
                       /\ Append(s, x)[Len(s) + 1] = x
      BY <2>3, AppendProperties
    <3> QED BY <2>3, <2>4, <3>1
  <2>7. \A i \in 1..n + 1 : Append(s, <<c, n + 1>>)[i] = <<c, i>>
    BY <2>5, <2>6
  <2>8. Append(s, <<c, n + 1>>) = [i \in 1..n + 1 |-> Append(s, <<c, n + 1>>)[i]]
    <3> DEFINE q == Append(s, <<c, n + 1>>)
    <3>1. q \in Seq(S) /\ Len(q) = n + 1
      BY <2>6
    <3> HIDE DEF q
    <3>2. q = [i \in 1..n + 1 |-> q[i]]
      BY <3>1, SeqIsItsItems
    <3> QED BY <3>2 DEF q
  <2> QED BY <2>2, <2>7, <2>8 DEF Parts
<1> QED BY <1>1, <1>2

\* Only a call that has the lock moves, and it keeps the types.
LEMMA LedgerStep ==
    ASSUME LedgerInv, LedgerNext
    PROVE  LedgerInv'
<1> USE AccountsAssumption
    DEF LedgerInv, AccountsTypeOK, LockOK, PartsOK, SignedWhole, AddressFromKnownApp, Ask, Answers
<1>1. ASSUME EnsureReady \/ OpenApp PROVE LedgerInv'
  BY <1>1 DEF EnsureReady, OpenApp
<1>2. ASSUME NEW c \in Signings \cup Addresses, Start(c) PROVE LedgerInv'
  BY <1>2 DEF Start
<1>3. ASSUME NEW c \in Signings \cup Addresses, Declined(c) PROVE LedgerInv'
  BY <1>3 DEF Declined
<1>4. ASSUME NEW c \in Signings \cup Addresses, CheckReady(c) PROVE LedgerInv'
  BY <1>4 DEF CheckReady
<1>5. ASSUME NEW c \in Signings \cup Addresses, Version(c) PROVE LedgerInv'
  BY <1>5 DEF Version
<1>6. ASSUME NEW c \in Signings \cup Addresses, GetAddress(c) PROVE LedgerInv'
  BY <1>6 DEF GetAddress
<1>7. ASSUME NEW c \in Signings \cup Addresses, SendPart(c), c \in Signings PROVE LedgerInv'
  <2>1. /\ asks[c] = "sending" /\ sent' = [sent EXCEPT ![c] = @ + 1]
        /\ buffer' = Received(c, sent[c] + 1) /\ UNCHANGED <<device, ready>>
        /\ IF sent[c] + 1 = Chunks[c] THEN signed' = [signed EXCEPT ![c] = buffer'] /\ Answers(c, "done")
                                      ELSE UNCHANGED <<signed, asks, lock>>
    BY <1>7 DEF SendPart
  <2>2. buffer' = Parts(c, sent[c] + 1)
    BY <1>7, <2>1, ReceivedParts
  <2>3. sent'[c] = sent[c] + 1 /\ sent' \in [Signings -> Nat] /\ \A d \in Signings \ {c} : sent'[d] = sent[d]
    BY <1>7, <2>1
  <2>4. CASE sent[c] + 1 = Chunks[c]
    <3>1. signed' = [signed EXCEPT ![c] = Parts(c, Chunks[c])]
      BY <2>1, <2>2, <2>4
    <3>2. SignedWhole'
      BY <3>1 DEF Parts
    <3>3. asks' = [asks EXCEPT ![c] = "done"]
      BY <2>1, <2>4
    <3>4. AccountsTypeOK'
      BY <1>7, <2>1, <2>3, <3>1, <3>3
    <3>5. LockOK' /\ AddressFromKnownApp'
      BY <1>7, <2>1, <2>4, <3>3
    <3>6. PartsOK'
      BY <1>7, <2>1, <2>3, <3>3
    <3> QED BY <3>2, <3>4, <3>5, <3>6
  <2>5. CASE sent[c] + 1 # Chunks[c]
    BY <1>7, <2>1, <2>2, <2>3, <2>5
  <2> QED BY <2>4, <2>5
<1>8. ASSUME NEW c \in Signings \cup Addresses, SendPart(c), c \notin Signings PROVE LedgerInv'
  <2>1. asks[c] = "sending"
    BY <1>8 DEF SendPart
  <2> QED BY <1>8, <2>1
<1> QED BY <1>1, <1>2, <1>3, <1>4, <1>5, <1>6, <1>7, <1>8 DEF LedgerNext

\* The listener for MetaMask lives as long as the wait for it.
MetaInv == listens \in BOOLEAN /\ ListensWhileWaiting

\* Looking for MetaMask, whatever the browser offers and however late.
LEMMA MetaStep ==
    ASSUME MetaInv, MetaNext
    PROVE  MetaInv'
<1> USE DEF MetaInv, ListensWhileWaiting
<1>1. CASE AskInjected
  BY <1>1 DEF AskInjected
<1>2. CASE Announce
  BY <1>2 DEF Announce
<1>3. CASE NoAnnouncement
  BY <1>3 DEF NoAnnouncement
<1>4. CASE MetaVersion
  BY <1>4 DEF MetaVersion
<1>5. ASSUME NEW c \in MetaCalls, GetProvider(c) PROVE MetaInv'
  BY <1>5 DEF GetProvider
<1>6. ASSUME NEW c \in MetaCalls, Snap(c) PROVE MetaInv'
  BY <1>6 DEF Snap
<1> QED BY <1>1, <1>2, <1>3, <1>4, <1>5, <1>6 DEF MetaNext

\* The next index to ask for is the number of accounts found.
DiscoverInv == found \in Seq(Nat) /\ index = Len(found) /\ DiscoveredInARow

\* Discovery, while accounts come into use.
LEMMA DiscoverStep ==
    ASSUME DiscoverInv, DiscoverNext
    PROVE  DiscoverInv'
<1>1. CASE \E i \in 0..MaxIndex : Use(i)
  BY <1>1 DEF DiscoverInv, DiscoveredInARow, Use
<1>2. CASE Discover
  <2>1. CASE UNCHANGED <<index, found>>
    BY <1>2, <2>1 DEF DiscoverInv, DiscoveredInARow, Discover
  <2>2. CASE index \in usedAccounts /\ index' = index + 1 /\ found' = Append(found, index)
    <3>1. index \in Nat /\ usedAccounts' = usedAccounts
      BY <1>2 DEF DiscoverInv, Discover
    <3>2. found' \in Seq(Nat) /\ Len(found') = index + 1
      BY <2>2, <3>1 DEF DiscoverInv
    <3>3. /\ \A n \in 1..index : found'[n] = found[n]
          /\ found'[index + 1] = index
      BY <2>2, <3>1 DEF DiscoverInv
    <3>4. ASSUME NEW n \in 1..index + 1 PROVE found'[n] = n - 1 /\ n - 1 \in usedAccounts
      <4>1. CASE n \in 1..index
        <5>1. n \in 1..Len(found) /\ found'[n] = found[n]
          BY <3>1, <3>3, <4>1 DEF DiscoverInv
        <5> QED BY <5>1 DEF DiscoverInv, DiscoveredInARow
      <4>2. CASE n = index + 1
        <5>1. n - 1 = index
          BY <3>1, <4>2
        <5>2. found'[n] = index
          BY <3>3, <4>2
        <5> QED BY <2>2, <5>1, <5>2
      <4> QED BY <3>1, <4>1, <4>2
    <3> QED BY <2>2, <3>1, <3>2, <3>4 DEF DiscoverInv, DiscoveredInARow
  <2> QED BY <1>2, <2>1, <2>2 DEF Discover
<1> QED BY <1>1, <1>2 DEF DiscoverNext

-----------------------------------------------------------------------------
(* Accounts of a mnemonic *)

\* The key of the wallet that accounts are derived from.
Coin == <<phrase, "seed", "ed25519 seed", 44 + Offset, 457 + Offset>>

\* The wallet derived from the seed of the phrase.
LEMMA WalletKey == WalletBySeed(mnemonicToSeed(phrase)) = [is |-> "wallet", key |-> Coin]
<1> DEFINE seed == <<phrase, "seed", "ed25519 seed">>  path == <<44, 457>>
<1>1. deriveKey(mnemonicToSeed(phrase), "ed25519 seed") = seed
  BY AppendThird DEF deriveKey, mnemonicToSeed
<1>2. DOMAIN path = 1..2 /\ path[1] = 44 /\ path[2] = 457
  OBVIOUS
<1>3. ~\E i \in DOMAIN path : path[i] + Offset >= 2 * Offset
  <2>1. Offset \in Nat /\ Offset > 457
    BY MnemonicAssumption
  <2> HIDE DEF path
  <2>2. ASSUME NEW i \in 1..2 PROVE path[i] + Offset < 2 * Offset
    BY <1>2, <2>1
  <2> QED BY <1>2, <2>1, <2>2
<1>4. [i \in DOMAIN path |-> path[i] + Offset] = <<44 + Offset, 457 + Offset>>
  OBVIOUS
<1>5. seed \o <<44 + Offset, 457 + Offset>> = Coin
  <2> DEFINE x == 44 + Offset  y == 457 + Offset  s == "seed"  e == "ed25519 seed"
  <2>1. Coin = <<phrase, s, e, x, y>> /\ seed = <<phrase, s, e>>
    BY DEF Coin
  <2> HIDE DEF x, y, s, e
  <2>2. <<phrase, s, e>> \o <<x, y>> = <<phrase, s, e, x, y>>
    BY ConcatThreeTwo
  <2> QED BY <2>1, <2>2 DEF x, y
<1> QED BY <1>1, <1>3, <1>4, <1>5 DEF WalletBySeed, derivePathFromKey

\* The account of an index, if its segment can be hardened.
LEMMA AccountKey ==
    ASSUME phrase \in Phrases, NEW n \in Nat
    PROVE  LET g == AccountByWallet(n, [is |-> "wallet", key |-> Coin]) IN
           /\ g.index = n
           /\ g.key # NoKey => g.key = Coin \o <<n + Offset, Offset, Offset>>
           /\ (g.key = NoKey) <=> (n >= Offset)
<1> DEFINE path == <<n, 0, 0>>  S == Phrases \cup {"seed", "ed25519 seed"} \cup Nat
           key == derivePathFromKey(Coin, path)
<1>1. DOMAIN path = 1..3 /\ path[1] = n /\ path[2] = 0 /\ path[3] = 0
  OBVIOUS
<1>2. (\E i \in DOMAIN path : path[i] + Offset >= 2 * Offset) <=> n >= Offset
  <2>1. Offset \in Nat /\ Offset > 457
    BY MnemonicAssumption
  <2> HIDE DEF path
  <2>2. path[2] + Offset < 2 * Offset /\ path[3] + Offset < 2 * Offset
    BY <1>1, <2>1
  <2>3. path[1] + Offset >= 2 * Offset <=> n >= Offset
    BY <1>1, <2>1
  <2> QED BY <1>1, <2>1, <2>2, <2>3
<1>3. [i \in DOMAIN path |-> path[i] + Offset] = <<n + Offset, Offset, Offset>>
  <2>1. Offset \in Nat
    BY MnemonicAssumption
  <2>2. 0 + Offset = Offset
    BY <2>1
  <2>3. [i \in DOMAIN path |-> path[i] + Offset] = <<n + Offset, 0 + Offset, 0 + Offset>>
    OBVIOUS
  <2> QED BY <2>2, <2>3
<1>4. key = IF n >= Offset THEN NoKey ELSE Coin \o <<n + Offset, Offset, Offset>>
  BY <1>2, <1>3 DEF derivePathFromKey
<1>5. Coin \in Seq(S) /\ <<n + Offset, Offset, Offset>> \in Seq(S)
  <2>0. Offset \in Nat
    BY MnemonicAssumption
  <2>1. 44 + Offset \in Nat /\ 457 + Offset \in Nat /\ n + Offset \in Nat
    BY <2>0
  <2>2. \A x \in Nat : x \in S
    OBVIOUS
  <2>3. phrase \in S /\ "seed" \in S /\ "ed25519 seed" \in S
    OBVIOUS
  <2> HIDE DEF S
  <2> DEFINE x == 44 + Offset  y == 457 + Offset  z == n + Offset  s == "seed"  e == "ed25519 seed"
  <2>4. x \in S /\ y \in S /\ z \in S /\ Offset \in S /\ s \in S /\ e \in S
    BY <2>0, <2>1, <2>2, <2>3
  <2>5. Coin = <<phrase, s, e, x, y>>
    BY DEF Coin
  <2> HIDE DEF x, y, z, s, e
  <2>6. <<phrase, s, e, x, y>> \in Seq(S) /\ <<z, Offset, Offset>> \in Seq(S)
    BY <2>3, <2>4, TuplesOf
  <2> QED BY <2>5, <2>6 DEF z
<1>6. Coin \o <<n + Offset, Offset, Offset>> # NoKey
  <2> HIDE DEF S
  <2>1. Coin \o <<n + Offset, Offset, Offset>> \in Seq(S)
    BY <1>5, ConcatProperties
  <2> QED BY <2>1, MnemonicAssumption DEF S
<1>7. AccountByWallet(n, [is |-> "wallet", key |-> Coin]) = [index |-> n, key |-> key]
  BY DEF AccountByWallet
<1> HIDE DEF key
<1>8. /\ AccountByWallet(n, [is |-> "wallet", key |-> Coin]).index = n
      /\ AccountByWallet(n, [is |-> "wallet", key |-> Coin]).key = key
  BY <1>7
<1> QED BY <1>4, <1>6, <1>8

\* What a factory holds always comes from its phrase, and so does what it gave.
MnemonicInv ==
    /\ phrase \in Phrases
    /\ held \in {MadeOf(phrase, is) : is \in {"mnemonic", "seed", "short seed", "wallet"}}
    /\ deriving \in [Callers -> Indexes \cup {NoKey}]
    /\ \A g \in derived : g.index \in Indexes
    /\ OneAccountPerIndex

\* It stays so when nothing is given.
LEMMA AccountsStay ==
    ASSUME MnemonicInv, UNCHANGED <<phrase, held, derived>>
    PROVE  OneAccountPerIndex'
<1>1. /\ held.is = "wallet" => held.key = Coin
      /\ \A g \in derived : g.key # NoKey => g.key = Coin \o <<g.index + Offset, Offset, Offset>>
      /\ \A g \in derived : (g.key = NoKey) <=> (g.index >= Offset)
  BY DEF MnemonicInv, OneAccountPerIndex, Coin
<1>2. Coin' = Coin
  BY DEF Coin
<1>3. /\ held'.is = "wallet" => held'.key = Coin'
      /\ \A g \in derived' : g.key # NoKey => g.key = Coin' \o <<g.index + Offset, Offset, Offset>>
      /\ \A g \in derived' : (g.key = NoKey) <=> (g.index >= Offset)
  BY <1>1, <1>2
<1> QED BY <1>3, Zenon DEF OneAccountPerIndex, Coin

\* An account is given of the one wallet.
LEMMA GivesCoin ==
    ASSUME MnemonicInv, NEW n \in Indexes,
           held' = WalletBySeed(mnemonicToSeed(phrase)), Give(n, held'),
           UNCHANGED phrase, deriving' \in [Callers -> Indexes \cup {NoKey}]
    PROVE  MnemonicInv'
<1> DEFINE g == AccountByWallet(n, [is |-> "wallet", key |-> Coin])
<1>1. held' = [is |-> "wallet", key |-> Coin]
  BY WalletKey
<1>2. derived' = derived \cup {g}
  BY <1>1 DEF Give
<1>3. n \in Nat
  BY MnemonicAssumption
<1>4. /\ g.index = n
      /\ g.key # NoKey => g.key = Coin \o <<n + Offset, Offset, Offset>>
      /\ (g.key = NoKey) <=> (n >= Offset)
  BY <1>3, AccountKey DEF MnemonicInv
<1>5. held' = MadeOf(phrase, "wallet")
  BY DEF MadeOf
<1>6. /\ \A a \in derived : a.key # NoKey => a.key = Coin \o <<a.index + Offset, Offset, Offset>>
      /\ \A a \in derived : (a.key = NoKey) <=> (a.index >= Offset)
  BY DEF MnemonicInv, OneAccountPerIndex, Coin
<1> HIDE DEF g
<1>7. /\ \A a \in derived' : a.key # NoKey => a.key = Coin \o <<a.index + Offset, Offset, Offset>>
      /\ \A a \in derived' : (a.key = NoKey) <=> (a.index >= Offset)
  BY <1>2, <1>4, <1>6
<1>8. OneAccountPerIndex'
  <2>1. Coin' = Coin
    BY DEF Coin
  <2>2. held'.key = Coin'
    BY <1>1, <2>1
  <2>3. /\ \A a \in derived' : a.key # NoKey => a.key = Coin' \o <<a.index + Offset, Offset, Offset>>
        /\ \A a \in derived' : (a.key = NoKey) <=> (a.index >= Offset)
    BY <1>7, <2>1
  <2> QED BY <2>2, <2>3, Zenon DEF OneAccountPerIndex, Coin
<1>9. \A a \in derived' : a.index \in Indexes
  BY <1>2, <1>4 DEF MnemonicInv
<1>10. held' \in {MadeOf(phrase, is) : is \in {"mnemonic", "seed", "short seed", "wallet"}}
  BY <1>5
<1> QED BY <1>8, <1>9, <1>10 DEF MnemonicInv

\* Every call works on the wallet of the phrase.
LEMMA MnemonicStep ==
    ASSUME MnemonicInv, MnNext
    PROVE  MnemonicInv'
<1>1. ASSUME NEW c \in Callers, SeedArrives(c) PROVE MnemonicInv'
  <2>1. deriving[c] \in Indexes /\ deriving' \in [Callers -> Indexes \cup {NoKey}]
    BY <1>1 DEF SeedArrives, MnemonicInv
  <2> QED BY <1>1, <2>1, GivesCoin DEF SeedArrives
<1>2. ASSUME NEW c \in Callers, NEW n \in Indexes, AtOnce(n, c) PROVE MnemonicInv'
  <2>1. PICK is \in {"mnemonic", "seed", "short seed", "wallet"} : held = MadeOf(phrase, is)
    BY DEF MnemonicInv
  <2>2. held.is = is /\ is # "short seed"
    BY <1>2, <2>1 DEF AtOnce, MadeOf, WalletBySeed
  <2>3. held' = WalletBySeed(mnemonicToSeed(phrase))
    <3>1. CASE is = "wallet"
      BY <1>2, <2>1, <2>2, <3>1 DEF AtOnce, MadeOf
    <3>2. CASE is = "mnemonic"
      <4>1. Seed = mnemonicToSeed(phrase)
        BY <2>1, <3>2 DEF Seed, MadeOf
      <4> QED BY <1>2, <2>2, <3>2, <4>1 DEF AtOnce
    <3>3. CASE is = "seed"
      <4>1. Seed = mnemonicToSeed(phrase)
        BY <2>1, <3>3 DEF Seed, MadeOf
      <4> QED BY <1>2, <2>2, <3>3, <4>1 DEF AtOnce
    <3> QED BY <2>2, <3>1, <3>2, <3>3
  <2> QED BY <1>2, <2>3, GivesCoin DEF AtOnce, MnemonicInv
<1>3. ASSUME NEW c \in Callers, NEW n \in Indexes, UNCHANGED <<phrase, held, derived>>,
             deriving' = [deriving EXCEPT ![c] = n]
      PROVE  MnemonicInv'
  BY <1>3, AccountsStay DEF MnemonicInv
<1> QED BY <1>1, <1>2, <1>3 DEF MnNext, initialize, initializeSync

\* Whatever calls overlap on one Ledger, one browser or one mnemonic: the
\* device signs the transaction of the call, an address comes from an app of a
\* known version, and an index has one account (AccountLedger.ts, LedgerFactory.ts,
\* MetamaskFactory.ts, MnemonicFactory.ts, BaseFactory.ts).
THEOREM AccountsStayInOrder == ASpec /\ MnSpec => []AccountsInOrder
<1> DEFINE AInv == LedgerInv /\ MetaInv /\ DiscoverInv
<1>1. AInit => AInv
  <2> SUFFICES ASSUME AInit PROVE AInv
    OBVIOUS
  <2>1. LedgerInv
    BY AccountsAssumption
    DEF AInit, LedgerInv, AccountsTypeOK, LockOK, PartsOK, SignedWhole, AddressFromKnownApp
  <2>2. MetaInv
    BY DEF AInit, MetaInv, ListensWhileWaiting
  <2>3. index = 0 /\ found = <<>>
    BY DEF AInit
  <2>4. DiscoverInv
    BY <2>3 DEF DiscoverInv, DiscoveredInARow
  <2> QED BY <2>1, <2>2, <2>4
<1>2. AInv /\ [ANext]_avars => AInv'
  <2> SUFFICES ASSUME AInv, [ANext]_avars PROVE AInv'
    OBVIOUS
  <2>1. UNCHANGED ledger => LedgerInv'
    BY DEF ledger, LedgerInv, AccountsTypeOK, LockOK, PartsOK, SignedWhole, AddressFromKnownApp
  <2>2. UNCHANGED metamask => MetaInv'
    BY DEF metamask, MetaInv, ListensWhileWaiting
  <2>3. UNCHANGED discovery => DiscoverInv'
    BY DEF discovery, DiscoverInv, DiscoveredInARow
  <2>4. CASE LedgerNext
    BY <2>2, <2>3, <2>4, LedgerStep DEF LedgerNext
  <2>5. CASE MetaNext
    BY <2>1, <2>3, <2>5, MetaStep DEF MetaNext
  <2>6. CASE DiscoverNext
    BY <2>1, <2>2, <2>6, DiscoverStep DEF DiscoverNext
  <2>7. CASE UNCHANGED avars
    BY <2>1, <2>2, <2>3, <2>7 DEF avars
  <2> QED BY <2>4, <2>5, <2>6, <2>7 DEF ANext
<1>3. MnInit => MnemonicInv
  <2> SUFFICES ASSUME MnInit PROVE MnemonicInv
    OBVIOUS
  <2>1. held.is = "wallet" => held.key = Coin
    <3> SUFFICES ASSUME held.is = "wallet" PROVE held.key = Coin
      OBVIOUS
    <3>1. PICK is \in {"mnemonic", "seed", "short seed", "wallet"} : held = MadeOf(phrase, is)
      BY DEF MnInit
    <3>2. CASE is = "wallet"
      BY <3>1, <3>2, WalletKey DEF MadeOf
    <3>3. CASE is # "wallet"
      <4>1. held.is = is
        BY <3>1, <3>3 DEF MadeOf
      <4> QED BY <3>3, <4>1
    <3> QED BY <3>2, <3>3
  <2> QED BY <2>1, MnemonicAssumption DEF MnInit, MnemonicInv, OneAccountPerIndex, Coin
<1>4. MnemonicInv /\ [MnNext]_mnvars => MnemonicInv'
  <2> SUFFICES ASSUME MnemonicInv, [MnNext]_mnvars PROVE MnemonicInv'
    OBVIOUS
  <2>1. CASE UNCHANGED mnvars
    <3>1. phrase' = phrase /\ held' = held /\ deriving' = deriving /\ derived' = derived
      BY <2>1 DEF mnvars
    <3> QED BY <3>1, AccountsStay DEF MnemonicInv
  <2> QED BY <2>1, MnemonicStep
<1>5. AInv /\ MnemonicInv => AccountsInOrder
  BY DEF LedgerInv, MetaInv, DiscoverInv, MnemonicInv, AccountsInOrder
<1> QED BY <1>1, <1>2, <1>3, <1>4, <1>5, PTL DEF ASpec, MnSpec

-----------------------------------------------------------------------------
(* Names *)

\* The fees of NAME_BID_RANGES are numbers of coins.
LEMMA FeesAreNumbers == \A n \in 1..31 : NAME_BID_RANGES[n] \in Nat
BY DEF NAME_BID_RANGES

\* What computeBidFee says is at least 5 % more.
LEMMA BidIsEnough ==
    ASSUME NEW fee \in Nat
    PROVE  computeBidFee(fee) \in Nat /\ 20 * (computeBidFee(fee) - fee) >= fee
BY DEF computeBidFee

Label == name.length - Suffix
NameOK == name \in [length : {n + Suffix : n \in PlainNames}, defect : {"none"} \cup Defects] /\ height \in Nat

\* An auction goes on at least as long as the chain said when the name was
\* claimed, and only a name that is auctioned has one.
AuctionOK ==
    /\ auction \in [fee : Nat, start : Nat, ends : Nat, bids : Nat, refused : {FALSE}, asked : BOOLEAN]
    /\ auction.asked <=> Label < 13
    /\ auction.ends >= ChainStart(Label, auction.start)
    /\ Label >= 13 => auction.ends = auction.start
AuctionInv == NameOK /\ (auction # NotAName => isName(name) /\ AuctionOK)

\* The label of a name has a length that is not zero.
LEMMA LabelFacts ==
    ASSUME NameOK
    PROVE  /\ name.length \in Nat /\ Label \in Nat /\ Label > 0 /\ name.length = Label + 6
           /\ \A h \in Nat : /\ ChainStart(Label, h) \in Nat
                             /\ Label < 13 => ChainStart(Label, h) > h
                             /\ Label >= 13 => ChainStart(Label, h) = h
<1>1. name.length \in Nat /\ Label \in Nat /\ Label > 0 /\ name.length = Label + 6
  BY NameRulesAssumption DEF NameOK, Label, Suffix
<1> QED BY <1>1 DEF ChainStart

\* A claim and the bids after it.
LEMMA AuctionStep ==
    ASSUME AuctionInv, [NrNext]_nrvars
    PROVE  AuctionInv'
<1>1. NameOK /\ /\ name.length \in Nat /\ Label \in Nat /\ Label > 0 /\ name.length = Label + 6
  BY LabelFacts DEF AuctionInv
<1>2. UNCHANGED name => Label' = Label /\ isName(name)' = isName(name)
  BY DEF Label, isName, nameToPunycode
<1>3. CASE ClaimName
  <2>1. isName(name) /\ nameToPunycode(name) = name.length /\ UNCHANGED <<name, height>>
    BY <1>3 DEF ClaimName, isName, nameToPunycode
  <2>2. getMinimumNameFee(name) = ChainMinimum(Label) /\ ChainMinimum(Label) \in Nat
    BY <1>1, <2>1, FeesAreNumbers DEF getMinimumNameFee, ChainMinimum, NAME_MAX_LENGTH_FEE, Label
  <2>3. isAuctionName(name) <=> Label < 13
    BY <1>1, <2>1 DEF isAuctionName, Suffix
  <2>4. /\ ChainStart(Label, height) \in Nat /\ height \in Nat
        /\ Label >= 13 => ChainStart(Label, height) = height
    BY <1>1, LabelFacts DEF NameOK
  <2>5. auction' = [fee |-> ChainMinimum(Label), start |-> height, ends |-> ChainStart(Label, height), bids |-> 0,
                    refused |-> FALSE, asked |-> isAuctionName(name)]
    <3>1. auction' = [fee |-> getMinimumNameFee(name), start |-> height, ends |-> ChainStart(Label, height),
                      bids |-> 0, refused |-> getMinimumNameFee(name) < ChainMinimum(Label),
                      asked |-> isAuctionName(name)]
      BY <1>3 DEF ClaimName, Label
    <3>2. (getMinimumNameFee(name) < ChainMinimum(Label)) = FALSE
      BY <2>2
    <3> QED BY <2>2, <3>1, <3>2
  <2>6. isAuctionName(name) \in BOOLEAN
    BY DEF isAuctionName
  <2>7. auction' \in [fee : Nat, start : Nat, ends : Nat, bids : Nat, refused : {FALSE}, asked : BOOLEAN]
    BY <2>2, <2>4, <2>5, <2>6
  <2>8. auction'.asked = isAuctionName(name) /\ auction'.ends = ChainStart(Label, height) /\ auction'.start = height
    BY <2>5
  <2>9. AuctionOK'
    <3>1. ChainStart(Label, auction.start)' = ChainStart(Label, height)
      BY <1>2, <2>1, <2>8 DEF ChainStart
    <3>2. auction'.asked <=> Label' < 13
      BY <1>2, <2>1, <2>3, <2>8
    <3>3. auction'.ends >= ChainStart(Label, auction.start)'
      BY <2>4, <2>8, <3>1
    <3>4. Label' >= 13 => auction'.ends = auction'.start
      BY <1>2, <2>1, <2>4, <2>8
    <3> QED BY <2>7, <3>2, <3>3, <3>4 DEF AuctionOK
  <2> QED BY <1>1, <1>2, <2>1, <2>9 DEF AuctionInv, NameOK
<1>4. CASE BidOnName
  <2>1. isName(name) /\ AuctionOK /\ isAuctionName(name) /\ UNCHANGED <<name, height>>
    BY <1>4 DEF BidOnName, AuctionInv
  <2>2. Label < 13
    BY <1>1, <2>1 DEF isAuctionName, isName, nameToPunycode, Suffix
  <2> DEFINE fee == computeBidFee(auction.fee)  ends == IF auction.ends < height + 120 THEN height + 120 ELSE auction.ends
             low == 20 * (fee - auction.fee) < auction.fee
  <2>3. fee \in Nat /\ low = FALSE
    BY <2>1, BidIsEnough DEF AuctionOK
  <2>4. ends \in Nat /\ ends >= auction.ends
    BY <1>1, <2>1 DEF AuctionOK, NameOK
  <2>5. auction' = [auction EXCEPT !.fee = fee, !.bids = @ + 1, !.ends = ends, !.refused = @ \/ low]
    BY <1>4 DEF BidOnName
  <2> HIDE DEF fee, ends, low
  <2>6. /\ auction' \in [fee : Nat, start : Nat, ends : Nat, bids : Nat, refused : {FALSE}, asked : BOOLEAN]
        /\ auction'.asked = auction.asked /\ auction'.start = auction.start /\ auction'.ends = ends
    <3> DEFINE bids1 == auction.bids + 1
    <3>0. auction \in [fee : Nat, start : Nat, ends : Nat, bids : Nat, refused : {FALSE}, asked : BOOLEAN]
      BY <2>1, Zenon DEF AuctionOK
    <3>1. auction.bids \in Nat /\ auction.refused \in {FALSE}
      BY <3>0
    <3>2. bids1 \in Nat
      BY <3>1
    <3>3. (auction.refused \/ low) = FALSE
      BY <2>3, <3>1
    <3> HIDE DEF bids1
    <3>4. auction' = [auction EXCEPT !.fee = fee, !.bids = bids1, !.ends = ends, !.refused = FALSE]
      BY <2>5, <3>3 DEF bids1
    <3> QED BY <2>3, <2>4, <3>0, <3>2, <3>4
  <2>7. ChainStart(Label, auction.start) \in Nat
    BY <1>1, <2>1, LabelFacts DEF AuctionOK
  <2>8. AuctionOK'
    <3>1. auction.ends \in Nat /\ auction.start \in Nat
      BY <2>1 DEF AuctionOK
    <3>2. ChainStart(Label, auction.start)' = ChainStart(Label, auction.start)
      BY <1>2, <2>1, <2>6 DEF ChainStart
    <3>3. auction'.ends >= ChainStart(Label, auction.start)'
      <4>1. auction.ends >= ChainStart(Label, auction.start)
        BY <2>1 DEF AuctionOK
      <4> QED BY <2>4, <2>6, <2>7, <3>1, <3>2, <4>1
    <3>4. (auction'.asked <=> Label' < 13) /\ ~(Label' >= 13)
      <4>1. auction.asked <=> Label < 13
        BY <2>1 DEF AuctionOK
      <4> QED BY <1>1, <1>2, <2>1, <2>2, <2>6, <4>1
    <3> QED BY <2>6, <3>3, <3>4 DEF AuctionOK
  <2> QED BY <1>1, <1>2, <2>1, <2>8 DEF AuctionInv, NameOK
<1>5. UNCHANGED <<name, auction>> => AuctionOK' = AuctionOK
  BY <1>2 DEF AuctionOK, ChainStart
<1>6. CASE Mine \/ UNCHANGED nrvars
  <2>1. UNCHANGED <<name, auction>> /\ height' \in Nat
    BY <1>1, <1>6 DEF Mine, nrvars, NameOK
  <2> QED BY <1>1, <1>2, <1>5, <2>1 DEF AuctionInv, NameOK
<1> QED BY <1>3, <1>4, <1>6 DEF NrNext

Updates == {"update", "extendTtl"}

\* The salt is of a call whose preclaim resolved, and what an update on its way
\* will write holds what it was given and, if it extends, what was there when it
\* was read.
NamesInv ==
    /\ stage \in [NameOps -> {"idle", "built", "failed", "rejected", "resolved", "mined", "done"}]
    /\ salt \in NameOps \cup {NoSalt}
    /\ DOMAIN merged = NameOps
    /\ SaltWasCommitted
    /\ \A o \in OnItsWay : Does[o] \in Updates =>
         /\ \A k \in DOMAIN Gives[o] : merged[o][k] = Gives[o][k]
         /\ Extends(o) /\ o \notin overtaken => DOMAIN pointers \subseteq DOMAIN merged[o]

\* What is given goes before what is there.
LEMMA PointersExtended ==
    ASSUME NEW f, NEW g
    PROVE  /\ DOMAIN g \subseteq DOMAIN Merge(f, g)
           /\ \A k \in DOMAIN f : Merge(f, g)[k] = f[k]
BY DEF Merge

\* The operations of one name, in any order.
LEMMA NamesStep ==
    ASSUME NamesInv, [NmNext]_nmvars
    PROVE  NamesInv'
<1> USE DEF OnItsWay
<1>1. ASSUME NEW o \in NameOps, Prepare(o) \/ Claim(o) \/ Bid(o) PROVE NamesInv'
  BY <1>1 DEF Prepare, Claim, Bid, Goes, chain, NamesInv, SaltWasCommitted, Updates, Extends
<1>2. ASSUME NEW o \in NameOps, Update(o) PROVE NamesInv'
  <2>1. UNCHANGED <<salt, pointers, overtaken>> /\ stage[o] = "idle" /\ Does[o] \in Updates
    BY <1>2 DEF Update, chain, Updates
  <2>2. CASE Goes(o, "failed") /\ UNCHANGED merged
    BY <2>1, <2>2 DEF Goes, NamesInv, SaltWasCommitted, Updates, Extends
  <2>3. CASE /\ Goes(o, "built")
             /\ merged' = [merged EXCEPT ![o] = IF Extends(o) THEN Merge(Gives[o], pointers) ELSE Gives[o]]
    <3> DEFINE m == IF Extends(o) THEN Merge(Gives[o], pointers) ELSE Gives[o]
    <3>1. /\ \A k \in DOMAIN Gives[o] : m[k] = Gives[o][k]
          /\ Extends(o) => DOMAIN pointers \subseteq DOMAIN m
      BY PointersExtended
    <3> HIDE DEF m
    <3>2. merged' = [merged EXCEPT ![o] = m]
      BY <2>3 DEF m
    <3> QED BY <2>1, <2>3, <3>1, <3>2 DEF Goes, NamesInv, SaltWasCommitted, Extends
  <2> QED BY <1>2, <2>2, <2>3 DEF Update
<1>3. ASSUME NEW o \in NameOps, Mined(o) PROVE NamesInv'
  <2>1. /\ o \in OnItsWay /\ stage' = [stage EXCEPT ![o] = Landed(stage[o])] /\ UNCHANGED <<salt, merged>>
        /\ IF pointers' = pointers THEN UNCHANGED overtaken
           ELSE overtaken' = {u \in OnItsWay : Extends(u)} \cup overtaken
    BY <1>3 DEF Mined, Goes, Changed
  <2>2. /\ Landed(stage[o]) \in {"mined", "done", "failed"}
        /\ stage[o] = "resolved" => Landed(stage[o]) = "done"
    BY <2>1 DEF Landed
  <2> QED BY <2>1, <2>2 DEF NamesInv, SaltWasCommitted, Extends
<1>4. ASSUME NEW o \in NameOps, Refused(o) \/ Resolved(o) PROVE NamesInv'
  BY <1>4 DEF Refused, Resolved, KeepsSalt, Goes, chain, NamesInv, SaltWasCommitted, Updates, Extends
<1>5. CASE ChainCloses
  BY <1>5 DEF ChainCloses, NamesInv, SaltWasCommitted, Updates, Extends
<1>6. CASE UNCHANGED nmvars
  BY <1>6 DEF nmvars, chain, NamesInv, SaltWasCommitted, Updates, Extends
<1> QED BY <1>1, <1>2, <1>3, <1>4, <1>5, <1>6 DEF NmNext

\* An update that is mined writes what it merged, whether its call waits, was
\* rejected or resolved long ago.
LEMMA UpdateWrites ==
    ASSUME NamesInv, NmNext, NEW o \in OnItsWay, stage'[o] = Landed(stage[o]), Does[o] \in Updates
    PROVE  pointers' = merged[o]
<1>1. o \in NameOps /\ stage[o] \in {"built", "rejected", "resolved"}
  BY DEF OnItsWay
<1>2. /\ Landed(stage[o]) \in {"mined", "done", "failed"}
      /\ stage[o] = "built" => Landed(stage[o]) = "mined"
  BY <1>1 DEF Landed
<1>3. ASSUME NEW u \in NameOps, Prepare(u) \/ Claim(u) \/ Bid(u) \/ Update(u) \/ Refused(u) \/ Resolved(u)
      PROVE  FALSE
  BY <1>1, <1>2, <1>3 DEF Prepare, Claim, Bid, Update, Refused, Resolved, Goes, NamesInv
<1>4. ~ChainCloses
  BY <1>1, <1>2 DEF ChainCloses
<1>5. PICK u \in NameOps : Mined(u)
  BY <1>3, <1>4 DEF NmNext
<1>6. u = o
  BY <1>1, <1>2, <1>5 DEF Mined, Goes, NamesInv
<1> QED BY <1>5, <1>6
  DEF Mined, ChainTakes, ChainPreclaims, ChainClaims, ChainBids, ChainUpdates, ChainTransfers, ChainRevokes, Updates

\* A name is claimed with a salt that was committed or, when its preclaim was not
\* waited for, posted; it keeps its pointers through updates that do not overtake
\* one another; and its fees are those the chain takes, whatever its length and
\* however many bids (aens.ts, tx/builder/helpers.ts, constants.ts).
THEOREM NamesAreKept == NmSpec /\ NrSpec => NamesKept
<1>1. NmInit => NamesInv
  BY NamesAssumption DEF NmInit, NamesInv, SaltWasCommitted, Updates, OnItsWay
<1>2. NrInit => AuctionInv
  BY DEF NrInit, AuctionInv, NameOK
<1>3. AuctionInv => BidsAreTaken /\ AuctionForeseen
  <2> SUFFICES ASSUME AuctionInv, Claimed
               PROVE  /\ ~auction.refused
                      /\ auction.asked <=> auction.ends > auction.start
                      /\ computeAuctionEndBlock(name, auction.start) <= auction.ends
    BY DEF BidsAreTaken, AuctionForeseen
  <2>1. NameOK /\ isName(name) /\ AuctionOK
    BY DEF AuctionInv, Claimed
  <2>2. Label \in Nat /\ Label > 0 /\ nameToPunycode(name) - Suffix = Label
    BY <2>1, LabelFacts DEF isName, nameToPunycode, Label
  <2>3. auction.start \in Nat /\ auction.ends \in Nat /\ ~auction.refused
    BY <2>1 DEF AuctionOK
  <2>4. computeAuctionEndBlock(name, auction.start) = ChainStart(Label, auction.start)
    BY <2>2, <2>3 DEF computeAuctionEndBlock, ChainStart
  <2>5. /\ ChainStart(Label, auction.start) \in Nat
        /\ Label < 13 => ChainStart(Label, auction.start) > auction.start
    BY <2>1, <2>3, LabelFacts
  <2> QED BY <2>1, <2>2, <2>3, <2>4, <2>5 DEF AuctionOK
<1>4. NamesInv /\ [NmNext]_nmvars => NamesInv'
  BY NamesStep
<1>5. AuctionInv /\ [NrNext]_nrvars => AuctionInv'
  BY AuctionStep
<1>6. NamesInv => SaltWasCommitted
  BY DEF NamesInv
<1> DEFINE Kept == \A o \in OnItsWay :
             stage'[o] = Landed(stage[o]) /\ Does[o] \in {"update", "extendTtl"} =>
               /\ \A k \in DOMAIN Gives[o] : pointers'[k] = Gives[o][k]
               /\ Extends(o) /\ o \notin overtaken => DOMAIN pointers \subseteq DOMAIN pointers'
<1>7. NamesInv /\ [NmNext]_nmvars => [Kept]_nmvars
  <2> SUFFICES ASSUME NamesInv, NmNext, NEW o \in OnItsWay,
                      stage'[o] = Landed(stage[o]), Does[o] \in Updates
               PROVE  /\ \A k \in DOMAIN Gives[o] : pointers'[k] = Gives[o][k]
                      /\ Extends(o) /\ o \notin overtaken => DOMAIN pointers \subseteq DOMAIN pointers'
    BY DEF Updates
  <2> QED BY UpdateWrites DEF NamesInv
<1>8. [][Kept]_nmvars => NoPointerLost
  BY PTL DEF NoPointerLost
<1> QED BY <1>1, <1>2, <1>3, <1>4, <1>5, <1>6, <1>7, <1>8, PTL DEF NmSpec, NrSpec, NamesKept

=============================================================================
