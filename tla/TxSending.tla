------------------------------ MODULE TxSending ------------------------------
(***************************************************************************)
(* Transactions of one account sent concurrently: spend and                *)
(* sendTransaction (src/src/spend.ts, send-transaction.ts), the request    *)
(* queue and the retries under them (utils/autorest.ts), poll,             *)
(* awaitHeight and waitForTxConfirm (chain.ts), over a node whose blocks   *)
(* come, go and collect the mempool's garbage.                             *)
(***************************************************************************)
EXTENDS Integers, FiniteSets

CONSTANTS
    Calls,          \* calls of sendTransaction; a call stands for its transaction
    None,
    Scenes,         \* what the calls are asked for, and bounds: see SceneType
    Blocks,         \* option blocks of poll
    Confirm,        \* option confirm
    TtlDepth,       \* blocks a ttl prepared by the SDK allows
    Retries,        \* retryCount of the node
    CacheLag,       \* blocks a cached height may lag behind
    MaxHeight, MaxReorgs, MaxLost       \* bounds of the bounds

\* None: not made at all; plain: waitMined and ttl 0; ttl: waitMined, ttl prepared by the SDK;
\* confirm: plain with confirm; unwatched: waitMined false.
ModeNames == {"plain", "ttl", "confirm", "unwatched"}
SceneType == [mode : [Calls -> ModeNames \cup {None}],
              height : 0..MaxHeight, reorgs : 0..MaxReorgs, lost : 0..MaxLost]
ASSUME ScenesAssumption == Scenes \subseteq SceneType /\ Scenes # {}
ASSUME NumbersAssumption ==
    /\ {Blocks, Confirm, TtlDepth, CacheLag, Retries, MaxHeight, MaxReorgs, MaxLost} \subseteq Nat
    /\ Blocks > 0 /\ Confirm > 0 /\ TtlDepth > 0
ASSUME CallsAssumption == IsFiniteSet(Calls)
Reasons == {"invalid", "refused", "gone", "timeout", "notInChain"}
ASSUME NoneAssumption == None \notin Calls \cup ModeNames \cup Reasons /\ None \notin Int

VARIABLES
    scene,      \* chosen once
    \* the node
    height, mined, pool, reorgs, lost,
    \* the calls
    pc, nonce, ttl,
    after,      \* the call whose request this one's promise is chained to
    attempt, max, base, ret,
    why,        \* of a call that failed
    \* the SDK
    tail,       \* requestQueues.get(key)
    cache,      \* heightCache
    \* history
    posted,     \* times the node was asked to take the transaction
    unheard,    \* calls with an accepted POST whose answer was lost
    since       \* height when poll set its limit

node == <<height, mined, pool, reorgs>>
vars == <<scene, node, lost, pc, nonce, ttl, after, attempt, max, base, ret, why, tail, cache,
          posted, unheard, since>>
-----------------------------------------------------------------------------
(* The node *)

mode(c) == scene.mode[c]
OnChain == {c \in Calls : mined[c] > 0}
ChainNonce == Cardinality(OnChain)
Largest(S) == CHOOSE n \in S : \A m \in S : m <= n
Alive(c, h) == ttl[c] = 0 \/ ttl[c] >= h

\* A key block, with at most one of the account's transactions below it.
Mine ==
    /\ height < scene.height
    /\ height' = height + 1
    /\ \/ UNCHANGED <<mined, pool>>
       \/ \E c \in pool : /\ nonce[c] = ChainNonce + 1 /\ Alive(c, height + 1)
                          /\ mined' = [mined EXCEPT ![c] = height + 1]
                          /\ pool' = pool \ {c}
    /\ UNCHANGED reorgs

\* The last key block is abandoned.
Reorganise ==
    /\ reorgs < scene.reorgs /\ height > 0
    /\ reorgs' = reorgs + 1
    /\ height' = height - 1
    /\ mined' = [c \in Calls |-> IF mined[c] = height THEN 0 ELSE mined[c]]
    /\ pool' = pool \cup {c \in Calls : mined[c] = height}

\* Transactions that can no longer be mined leave the mempool.
CollectGarbage ==
    /\ \E c \in pool : /\ ~Alive(c, height + 1) \/ nonce[c] <= ChainNonce
                       /\ pool' = pool \ {c}
    /\ UNCHANGED <<height, mined, reorgs>>

NodeStep ==
    /\ Mine \/ Reorganise \/ CollectGarbage
    /\ UNCHANGED <<scene, lost, pc, nonce, ttl, after, attempt, max, base, ret, why, tail, cache,
                   posted, unheard, since>>

-----------------------------------------------------------------------------
(* Building, signing, verifying *)

Goes(c, to) == pc' = [pc EXCEPT ![c] = to]
Fails(c, reason) == Goes(c, "failed") /\ why' = [why EXCEPT ![c] = reason]

\* getHeight: a young enough cached height is taken for the height.
ReadsHeight(h) ==
    \/ h = height /\ cache' = height
    \/ h = cache /\ cache \in height - CacheLag .. height + CacheLag /\ UNCHANGED cache

\* buildTxAsync: the nonce the node suggests, the ttl the SDK adds.
Prepare(c) ==
    /\ pc[c] = "idle" /\ mode(c) # None
    /\ nonce' = [nonce EXCEPT ![c] = 1 + Largest({0} \cup {nonce[d] : d \in pool \cup OnChain})]
    /\ IF mode(c) = "ttl"
       THEN \E h \in 0..MaxHeight : /\ ReadsHeight(h)
                                    /\ ttl' = [ttl EXCEPT ![c] = h + TtlDepth]
       ELSE UNCHANGED <<ttl, cache>>
    /\ Goes(c, "signing")
    /\ UNCHANGED <<scene, node, lost, after, attempt, max, base, ret, why, tail, posted, unheard,
                   since>>

\* signTransaction takes its time; then verifyTransaction, against the height
\* of now.  The outcome of its other checks is a choice.
Verify(c) ==
    /\ pc[c] = "signing"
    /\ \/ Fails(c, "invalid")
       \/ (ttl[c] = 0 \/ ttl[c] > height) /\ Goes(c, "verified") /\ UNCHANGED why
    /\ UNCHANGED <<node, scene, lost, nonce, ttl, after, attempt, max, base, ret, tail, cache,
                   posted, unheard, since>>

-----------------------------------------------------------------------------
(* Posting *)

Settled(c) == c # None => pc[c] \notin {"queued", "posting"}

\* mutant: the queue is never told of the request.
Enqueue_Unset(c) ==
    /\ pc[c] = "verified"
    /\ after' = [after EXCEPT ![c] = tail]
    /\ Goes(c, "queued")
    /\ UNCHANGED <<tail, node, scene, lost, nonce, ttl, attempt, max, base, ret, why, cache,
                   posted, unheard, since>>

\* The request of a __queue is chained to the one before.
Enqueue(c) ==
    /\ pc[c] = "verified"
    /\ after' = [after EXCEPT ![c] = tail]
    /\ tail' = c
    /\ Goes(c, "queued")
    /\ UNCHANGED <<node, scene, lost, nonce, ttl, attempt, max, base, ret, why, cache, posted,
                   unheard, since>>

\* mutant: a failed request fails those chained to it.
Dequeue_Uncaught(c) ==
    /\ pc[c] = "queued" /\ Settled(after[c])
    /\ IF after[c] # None /\ pc[after[c]] = "failed" THEN Fails(c, "refused")
       ELSE Goes(c, "posting") /\ UNCHANGED why
    /\ UNCHANGED <<node, scene, lost, nonce, ttl, after, attempt, max, base, ret, tail, cache,
                   posted, unheard, since>>

\* It settles, one way or the other.
Dequeue(c) ==
    /\ pc[c] = "queued" /\ Settled(after[c])
    /\ Goes(c, "posting")
    /\ UNCHANGED <<node, scene, lost, nonce, ttl, after, attempt, max, base, ret, why, tail, cache,
                   posted, unheard, since>>

Acceptable(c) == nonce[c] > ChainNonce /\ Alive(c, height + 1) /\ c \notin pool \cup OnChain
Taken(c) == IF mode(c) = "unwatched" THEN "done" ELSE "looking"

\* mutant: one attempt too many.
Again_OneMore(c) ==
    IF attempt[c] <= Retries
    THEN attempt' = [attempt EXCEPT ![c] = @ + 1] /\ UNCHANGED <<pc, why>>
    ELSE Fails(c, "refused") /\ UNCHANGED attempt

\* After an answer that is no success: again, up to Retries times.
Again(c) ==
    IF attempt[c] < Retries
    THEN attempt' = [attempt EXCEPT ![c] = @ + 1] /\ UNCHANGED <<pc, why>>
    ELSE Fails(c, "refused") /\ UNCHANGED attempt

Asked(c) ==
    /\ pc[c] = "posting"
    /\ posted' = [posted EXCEPT ![c] = @ + 1]
    /\ UNCHANGED <<height, mined, reorgs, scene, nonce, ttl, after, max, base, ret, tail, cache, since>>

\* mutant: the error of the attempt before is thrown.
PostAccepted_OldError(c) ==
    /\ Asked(c) /\ Acceptable(c)
    /\ pool' = pool \cup {c}
    /\ IF attempt[c] > 0 THEN Fails(c, "refused") ELSE Goes(c, Taken(c)) /\ UNCHANGED why
    /\ UNCHANGED <<attempt, lost, unheard>>

PostAccepted(c) ==
    /\ Asked(c) /\ Acceptable(c)
    /\ pool' = pool \cup {c}
    /\ Goes(c, Taken(c))
    /\ UNCHANGED <<attempt, why, lost, unheard>>

\* Not acceptable, known already, or another reason of the node: status 400,
\* which __retry-code makes a reason to try again.
PostRefused(c) ==
    /\ Asked(c) /\ Again(c)
    /\ UNCHANGED <<pool, lost, unheard>>

\* The node took it, or not, and its answer is lost.
AnswerLost(c) ==
    /\ lost < scene.lost /\ lost' = lost + 1
    /\ Asked(c) /\ Again(c)
    /\ IF Acceptable(c) THEN pool' = pool \cup {c} /\ unheard' = unheard \cup {c}
       ELSE UNCHANGED <<pool, unheard>>

-----------------------------------------------------------------------------
(* poll *)

\* getTransactionByHash: mined, in the mempool, or unknown.
Look(c) ==
    /\ pc[c] = "looking"
    /\ \/ mined[c] > 0 /\ UNCHANGED why
          /\ Goes(c, IF mode(c) = "confirm" THEN "confirming" ELSE "done")
          /\ ret' = [ret EXCEPT ![c] = mined[c]]
       \/ c \in pool /\ UNCHANGED <<why, ret>>
          /\ Goes(c, IF max[c] = None THEN "limiting" ELSE "waiting")
       \/ c \notin pool \cup OnChain /\ Fails(c, "gone") /\ UNCHANGED ret
    /\ UNCHANGED <<node, scene, lost, nonce, ttl, after, attempt, max, base, tail, cache, posted,
                   unheard, since>>

\* mutant: the test of the ttl is gone.
Limit_Never(c) ==
    /\ pc[c] = "limiting"
    /\ max' = [max EXCEPT ![c] = -1]
    /\ since' = [since EXCEPT ![c] = height]
    /\ Goes(c, "waiting")
    /\ UNCHANGED <<cache, node, scene, lost, nonce, ttl, after, attempt, base, ret, why, tail,
                   posted, unheard>>

\* A transaction with a ttl is polled until it leaves the mempool.
Limit(c) ==
    /\ pc[c] = "limiting"
    /\ \/ ttl[c] # 0 /\ max' = [max EXCEPT ![c] = -1] /\ UNCHANGED cache
       \/ ttl[c] = 0 /\ \E h \in 0..MaxHeight : ReadsHeight(h) /\ max' = [max EXCEPT ![c] = h + Blocks]
    /\ since' = [since EXCEPT ![c] = height]
    /\ Goes(c, "waiting")
    /\ UNCHANGED <<node, scene, lost, nonce, ttl, after, attempt, base, ret, why, tail, posted, unheard>>

\* mutant: a transaction with a ttl is given up at the limit -1.
Wait_NoTtl(c) ==
    /\ pc[c] = "waiting"
    /\ \E h \in 0..MaxHeight : /\ ReadsHeight(h)
                               /\ IF h < max[c] THEN Goes(c, "looking") /\ UNCHANGED why
                                                ELSE Fails(c, "timeout")
    /\ UNCHANGED <<node, scene, lost, nonce, ttl, after, attempt, max, base, ret, tail, posted,
                   unheard, since>>

\* The pause, and the condition of the loop.
Wait(c) ==
    /\ pc[c] = "waiting"
    /\ \/ max[c] = -1 /\ Goes(c, "looking") /\ UNCHANGED <<cache, why>>
       \/ /\ max[c] # -1
          /\ \E h \in 0..MaxHeight :
                /\ ReadsHeight(h)
                /\ IF h < max[c] THEN Goes(c, "looking") /\ UNCHANGED why
                                 ELSE Fails(c, "timeout")
    /\ UNCHANGED <<node, scene, lost, nonce, ttl, after, attempt, max, base, ret, tail, posted,
                   unheard, since>>

-----------------------------------------------------------------------------
(* waitForTxConfirm *)

\* The height of the transaction now, 0 standing for -1; unknown is an error.
ConfirmFrom(c) ==
    /\ pc[c] = "confirming"
    /\ IF c \in pool \cup OnChain
       THEN base' = [base EXCEPT ![c] = mined[c]] /\ Goes(c, "awaiting") /\ UNCHANGED why
       ELSE Fails(c, "gone") /\ UNCHANGED base
    /\ UNCHANGED <<node, scene, lost, nonce, ttl, after, attempt, max, ret, tail, cache, posted,
                   unheard, since>>

\* awaitHeight asks the node each time.
AwaitHeight(c) ==
    /\ pc[c] = "awaiting"
    /\ height >= (IF base[c] = 0 THEN -1 ELSE base[c]) + Confirm
    /\ ret' = [ret EXCEPT ![c] = height]
    /\ cache' = height
    /\ Goes(c, "rechecking")
    /\ UNCHANGED <<node, scene, lost, nonce, ttl, after, attempt, max, base, why, tail, posted,
                   unheard, since>>

\* mutant: a transaction mined anew elsewhere counts as confirmed.
Recheck_AnyHeight(c) ==
    /\ pc[c] = "rechecking"
    /\ \/ mined[c] > 0 /\ Goes(c, "done") /\ UNCHANGED why
       \/ mined[c] = 0 /\ Fails(c, "notInChain")
    /\ UNCHANGED <<node, scene, lost, nonce, ttl, after, attempt, max, base, ret, tail, cache,
                   posted, unheard, since>>

Recheck(c) ==
    /\ pc[c] = "rechecking"
    /\ \/ mined[c] = 0 /\ Fails(c, IF c \in pool THEN "notInChain" ELSE "gone")
       \/ mined[c] > 0 /\ mined[c] = base[c] /\ Goes(c, "done") /\ UNCHANGED why
       \/ mined[c] > 0 /\ mined[c] # base[c] /\ Goes(c, "confirming") /\ UNCHANGED why
    /\ UNCHANGED <<node, scene, lost, nonce, ttl, after, attempt, max, base, ret, tail, cache,
                   posted, unheard, since>>

-----------------------------------------------------------------------------
Init ==
    /\ scene \in Scenes
    /\ height = 0 /\ mined = [c \in Calls |-> 0] /\ pool = {} /\ reorgs = 0 /\ lost = 0
    /\ pc = [c \in Calls |-> "idle"]
    /\ nonce = [c \in Calls |-> 0] /\ ttl = [c \in Calls |-> 0]
    /\ after = [c \in Calls |-> None] /\ attempt = [c \in Calls |-> 0]
    /\ max = [c \in Calls |-> None] /\ base = [c \in Calls |-> 0] /\ ret = [c \in Calls |-> 0]
    /\ why = [c \in Calls |-> None]
    /\ tail = None /\ cache = None
    /\ posted = [c \in Calls |-> 0] /\ unheard = {} /\ since = [c \in Calls |-> 0]

Acts(c) ==
    \/ Verify(c) \/ Enqueue(c) \/ Dequeue(c)
    \/ PostAccepted(c) \/ PostRefused(c) \/ AnswerLost(c)
    \/ Look(c) \/ Limit(c) \/ Wait(c)
    \/ ConfirmFrom(c) \/ AwaitHeight(c) \/ Recheck(c)

Next == NodeStep \/ \E c \in Calls : Prepare(c) \/ Acts(c)

Spec == Init /\ [][Next]_vars

\* The SDK's code goes on and its reads are answered, with the height in the
\* end; blocks come, and the mempool is cleaned.
ReadsOn(c) == Wait(c) /\ cache' = height
Fairness ==
    /\ \A c \in Calls : /\ WF_vars(Acts(c)) /\ SF_vars(ReadsOn(c))
    /\ WF_vars(Mine /\ NodeStep) /\ WF_vars(CollectGarbage /\ NodeStep)
FairSpec == Spec /\ Fairness

-----------------------------------------------------------------------------
(* Properties *)

Stages == {"idle", "signing", "verified", "queued", "posting", "looking", "limiting", "waiting",
           "confirming", "awaiting", "rechecking", "done", "failed"}
Heights == 0..MaxHeight

\* Every variable has its type, and a transaction is in one place at most.
TypeOK ==
    /\ height \in Heights /\ mined \in [Calls -> Heights] /\ pool \subseteq Calls \ OnChain
    /\ reorgs \in 0..MaxReorgs /\ lost \in 0..MaxLost
    /\ scene \in Scenes /\ pc \in [Calls -> Stages]
    /\ nonce \in [Calls -> 0..Cardinality(Calls)] /\ ttl \in [Calls -> 0..MaxHeight + TtlDepth]
    /\ after \in [Calls -> Calls \cup {None}] /\ tail \in Calls \cup {None}
    /\ attempt \in [Calls -> 0..Retries] /\ posted \in [Calls -> 0..Retries + 1]
    /\ max \in [Calls -> -1..MaxHeight + Blocks \cup {None}]
    /\ base \in [Calls -> Heights] /\ ret \in [Calls -> Heights] /\ since \in [Calls -> Heights]
    /\ why \in [Calls -> Reasons \cup {None}]
    /\ cache \in Heights \cup {None} /\ unheard \subseteq Calls

\* However the calls overlap, the node is asked to take one transaction of
\* the account at a time (genRequestQueuesPolicy), retries included.
OnePostAtATime == \A c, d \in Calls : pc[c] = "posting" /\ pc[d] = "posting" => c = d

\* A call is refused for its own transaction: the node was asked for it, as
\* often as the retries allow, whatever became of the requests before it in
\* the queue (the catch of autorest.ts:107, the loop of :239-253).
RefusedForItself == \A c \in Calls : why[c] = "refused" => posted[c] = Retries + 1

\* A call that failed as refused has left no transaction behind, unless the
\* answer of a POST was lost: then it is retried, refused as known, and
\* mined all the same.
RefusedStaysOut == \A c \in Calls : why[c] = "refused" /\ c \notin unheard => c \notin pool \cup OnChain

\* The queue of an account keeps its calls apart: one POST at a time, and a
\* call fails for what became of its own.
QueueInOrder == TypeOK /\ OnePostAtATime /\ RefusedForItself /\ RefusedStaysOut

\* poll gives a transaction up only when it has no ttl and the chain grew by
\* the blocks asked for, less what the cached height lags behind
\* (chain.ts:55-57, :105-108).  A reorganisation shrinks the chain.
TimedOutInTime ==
    [][\A c \in Calls : why[c] # "timeout" /\ why'[c] = "timeout" =>
            ttl[c] = 0 /\ (reorgs = 0 => height >= since[c] + Blocks - CacheLag)]_vars

\* What waitForTxConfirm resolves with is a height the chain had, Confirm
\* blocks above the one the transaction is in at that time, also when the
\* transaction was moved by a reorganisation while it waited.
ConfirmedDeep ==
    [][\A c \in Calls : pc[c] # "done" /\ pc'[c] = "done" /\ mode(c) = "confirm" =>
            mined[c] > 0 /\ ret'[c] >= mined[c] + Confirm]_vars

\* A call ends by what the chain did: given up only after the blocks asked
\* for, confirmed only at the depth asked for.
EndsByTheChain == TimedOutInTime /\ ConfirmedDeep

\* What the bounds of the model keep from being decided.
OutOfBounds(c) ==
    \/ max[c] # None /\ max[c] > scene.height
    \/ ttl[c] > scene.height \/ base[c] + Confirm > scene.height

\* Every call ends: queued requests get their turn, polling stops when the
\* transaction is mined, gone, or given up, confirmations arrive.
EveryCallEnds ==
    \A c \in Calls : pc[c] # "idle" ~> pc[c] \in {"done", "failed"} \/ OutOfBounds(c)
=============================================================================
