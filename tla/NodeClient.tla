------------------------------ MODULE NodeClient ------------------------------
(***************************************************************************)
(* GET requests of one Node (src/src/Node.ts) through its policies         *)
(* (utils/autorest.ts): the version check with the cached status, the      *)
(* combining of equal requests, the retries; and the promise kept by       *)
(* _isHyperchain.                                                          *)
(***************************************************************************)
EXTENDS Naturals, FiniteSets

CONSTANTS
    Requests, NoFetch,
    Paths, Path,    \* Path[r]: what r asks for; "status" is one of Paths
    HyperCalls,     \* the calls of _isHyperchain among Requests
    RetryCount,
    MaxFailures, MaxUpgrades       \* bounds
ASSUME NodeClientAssumption ==
    /\ "status" \in Paths /\ Path \in [Requests -> Paths] /\ HyperCalls \subseteq Requests
    /\ {RetryCount, MaxFailures, MaxUpgrades} \subseteq Nat
    /\ NoFetch \notin (Requests \X Paths) \cup Requests
    /\ NoFetch \notin {"good", "bad"}

VARIABLES
    supported, upgrades,    \* whether the version of the node is; it may change
    cachedStatus,           \* #cachedStatusPromise, NoFetch or what it says
    stage,                  \* of a request
    waits,                  \* the fetch a request waits for
    pending,                \* pendingGetRequests
    running,                \* fetches under way: <<who began it, path>>
    attempt,                \* of a fetch
    hyper,                  \* the call whose request #isHyperchainPromise is
    failures

nvars == <<supported, upgrades, cachedStatus, stage, waits, pending, running, attempt, hyper, failures>>

Over(r) == stage[r] \in {"served", "failed", "unsupported"}
-----------------------------------------------------------------------------
\* The node is replaced by another version.
Upgrade ==
    /\ upgrades < MaxUpgrades /\ upgrades' = upgrades + 1
    /\ supported' = ~supported
    /\ UNCHANGED <<cachedStatus, stage, waits, pending, running, attempt, hyper, failures>>

Starts(r, path) ==
    LET id == <<r, path>> IN
    /\ waits' = [waits EXCEPT ![r] = id]
    /\ pending' = [pending EXCEPT ![path] = id]
    /\ running' = running \cup {id} /\ attempt' = [attempt EXCEPT ![id] = 0]

\* mutant: every request is sent to the node.
Get_Alone(r, path) == Starts(r, path)

\* combine-get-requests: a request joins one that is under way.
Get(r, path) ==
    IF pending[path] # NoFetch
    THEN waits' = [waits EXCEPT ![r] = pending[path]] /\ UNCHANGED <<pending, running, attempt>>
    ELSE Starts(r, path)

\* A request begins with the version check; _isHyperchain with the promise
\* of the call before, if there is one.
Call(r) ==
    /\ stage[r] = "idle"
    /\ IF r \in HyperCalls /\ hyper # NoFetch
       THEN stage' = [stage EXCEPT ![r] = "sharing"] /\ UNCHANGED hyper
       ELSE /\ stage' = [stage EXCEPT ![r] = "checking"]
            /\ hyper' = IF r \in HyperCalls THEN r ELSE hyper
    /\ UNCHANGED <<supported, upgrades, cachedStatus, waits, pending, running, attempt, failures>>

Shares(r) ==
    /\ stage[r] = "sharing" /\ Over(hyper)
    /\ stage' = [stage EXCEPT ![r] = stage[hyper]]
    /\ UNCHANGED <<supported, upgrades, cachedStatus, waits, pending, running, attempt, hyper, failures>>

\* _getCachedStatus, and the comparison of the version.
VersionCheck(r) ==
    /\ stage[r] = "checking"
    /\ IF cachedStatus = NoFetch
       THEN stage' = [stage EXCEPT ![r] = "versioning"] /\ Get(r, "status")
       ELSE /\ stage' = [stage EXCEPT ![r] = IF cachedStatus = "bad" THEN "unsupported" ELSE "checked"]
            /\ UNCHANGED <<waits, pending, running, attempt>>
    /\ UNCHANGED <<supported, upgrades, cachedStatus, hyper, failures>>

Asks(r) ==
    /\ stage[r] = "checked"
    /\ stage' = [stage EXCEPT ![r] = "asking"] /\ Get(r, Path[r])
    /\ UNCHANGED <<supported, upgrades, cachedStatus, hyper, failures>>

-----------------------------------------------------------------------------
Retries(id) == IF id[1] \in HyperCalls /\ id[2] # "status" THEN 0 ELSE RetryCount

\* After a pause, again.
Retry(id) ==
    /\ id \in running /\ attempt[id] < Retries(id)
    /\ failures < MaxFailures /\ failures' = failures + 1
    /\ attempt' = [attempt EXCEPT ![id] = @ + 1]
    /\ UNCHANGED <<supported, upgrades, cachedStatus, stage, waits, pending, running, hyper>>

\* mutant: only the request that was sent is told.
Next_Stage_First(id, version, asked) ==
    stage' = [stage EXCEPT ![id[1]] = IF @ = "versioning" THEN version
                                      ELSE IF @ = "asking" THEN asked ELSE @]

Next_Stage(id, version, asked) ==
    stage' = [r \in Requests |-> IF waits[r] # id THEN stage[r]
                                 ELSE IF stage[r] = "versioning" THEN version
                                 ELSE IF stage[r] = "asking" THEN asked ELSE stage[r]]

\* mutant: the entry of the request is not deleted.
Ends_Kept(id) ==
    /\ id \in running /\ running' = running \ {id}
    /\ UNCHANGED pending

\* The request is over: the finally of combine-get-requests.
Ends(id) ==
    /\ id \in running /\ running' = running \ {id}
    /\ pending' = [pending EXCEPT ![id[2]] = NoFetch]

\* getStatus keeps a promise that resolved.
Succeeds(id) ==
    /\ Ends(id)
    /\ LET now == IF supported THEN "good" ELSE "bad" IN
       /\ cachedStatus' = IF id[2] = "status" THEN now ELSE cachedStatus
       /\ Next_Stage(id, IF supported THEN "checked" ELSE "unsupported", "served")
    /\ UNCHANGED <<supported, upgrades, waits, attempt, hyper, failures>>

\* mutant: a promise that is rejected is kept too.
Fails_Cached(id) ==
    /\ failures < MaxFailures /\ failures' = failures + 1
    /\ Ends(id)
    /\ cachedStatus' = IF id[2] = "status" THEN "bad" ELSE cachedStatus
    /\ Next_Stage(id, "failed", "failed")
    /\ UNCHANGED <<supported, upgrades, waits, attempt, hyper>>

\* With a status that is not retried, or after the last retry.
Fails(id) ==
    /\ failures < MaxFailures /\ failures' = failures + 1
    /\ Ends(id)
    /\ Next_Stage(id, "failed", "failed")
    /\ UNCHANGED <<supported, upgrades, cachedStatus, waits, attempt, hyper>>

-----------------------------------------------------------------------------
Ids == Requests \X Paths
NInit ==
    /\ supported \in BOOLEAN /\ upgrades = 0 /\ cachedStatus = NoFetch
    /\ stage = [r \in Requests |-> "idle"] /\ waits = [r \in Requests |-> NoFetch]
    /\ pending = [p \in Paths |-> NoFetch] /\ running = {} /\ attempt = [id \in Ids |-> 0]
    /\ hyper = NoFetch /\ failures = 0

Goes(r) == Shares(r) \/ VersionCheck(r) \/ Asks(r)
NNext ==
    \/ Upgrade
    \/ \E r \in Requests : Call(r) \/ Goes(r)
    \/ \E id \in Ids : Retry(id) \/ Succeeds(id) \/ Fails(id)

\* The code goes on; the node answers each request in the end.
NFairness == /\ \A r \in Requests : WF_nvars(Goes(r))
             /\ \A id \in Ids : WF_nvars(Succeeds(id))
NSpec == NInit /\ [][NNext]_nvars
NFairSpec == NSpec /\ NFairness

-----------------------------------------------------------------------------
(* Properties *)

\* At no time does the SDK ask a node twice for the same, version checks
\* included.
OneFetchPerPath == \A a, b \in running : a[2] = b[2] => a = b

\* Nobody waits for an answer that has already gone to others: the entry of
\* pendingGetRequests goes with its request.
NobodyWaitsForThePast == \A r \in Requests : stage[r] \in {"versioning", "asking"} => waits[r] \in running

\* Requests made at the same time share one answer, and none an old one.
FetchesInOrder == OneFetchPerPath /\ NobodyWaitsForThePast

\* A failure hurts those who waited for it, and none who call later: getStatus
\* keeps no promise that is rejected (Node.ts:81-92).  _isHyperchain does.
FailuresAreForgotten ==
    [][\A r \in Requests \ HyperCalls : ~Over(r) /\ stage'[r] \in {"failed", "unsupported"} =>
           \/ waits[r] \in running \ running'
           \/ stage'[r] = "unsupported" /\ (~supported \/ upgrades > 0)]_nvars

\* Every call settles.
EveryRequestSettles == <>[](\A r \in Requests : stage[r] = "idle" \/ Over(r))
=============================================================================
