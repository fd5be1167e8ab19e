--------------------------- MODULE TxSending_proofs ---------------------------
(***************************************************************************)
(* Theorems about transactions of one account that are sent concurrently:  *)
(* the queue of requests under them, and when a call is given up or        *)
(* confirmed, for any number of calls, blocks, retries and reorganisations. *)
(***************************************************************************)
EXTENDS TxSending, QueueLemmas, FiniteSetTheorems

InQueue(c) == pc[c] \in {"queued", "posting"}
Early(c) == pc[c] \in {"idle", "signing", "verified", "queued", "posting"}
Prepared == {c \in Calls : nonce[c] > 0}

\* Each prepared transaction raises the nonces by one at most.
NonceOK ==
    /\ \A c \in Calls : nonce[c] \in Nat /\ nonce[c] <= Cardinality(Prepared)
    /\ \A c \in Calls : pc[c] = "idle" => nonce[c] = 0

\* The queue in the order of its tickets: a call that is not the first is
\* chained to one that waits no less than all before it; tail is the last.
QueueOrder(ticket) ==
    /\ \A c, d \in Calls : InQueue(c) /\ InQueue(d) /\ ticket[c] = ticket[d] => c = d
    /\ \A c, d \in Calls : InQueue(c) /\ InQueue(d) /\ ticket[d] < ticket[c] =>
           after[c] \in Calls /\ InQueue(after[c]) /\ ticket[d] <= ticket[after[c]]
    /\ \A c, d \in Calls : pc[c] = "posting" /\ InQueue(d) => ticket[c] <= ticket[d]
    /\ \A c \in Calls : InQueue(c) => tail \in Calls /\ InQueue(tail) /\ ticket[c] <= ticket[tail]
QueueOK == \E ticket \in [Calls -> Nat] : QueueOrder(ticket)

\* A failure has its reason; a refusal, all its attempts.
PostsOK == \A c \in Calls :
    /\ why[c] # None => pc[c] = "failed"
    /\ Early(c) => posted[c] = attempt[c] /\ max[c] = None
    /\ why[c] = "refused" => posted[c] = Retries + 1

\* What the node has of a call, it took with an answer that came or was lost.
PlacesOK == \A c \in pool \cup OnChain : c \in unheard \/ (~Early(c) /\ why[c] # "refused")

\* The limit of poll counts from a height that was not too old.
LimitsOK ==
    /\ \A c \in Calls : pc[c] = "waiting" => max[c] # None
    /\ \A c \in Calls : max[c] \notin {None, -1} =>
           ttl[c] = 0 /\ (reorgs = 0 => max[c] >= since[c] + Blocks - CacheLag)
    /\ reorgs = 0 => cache = None \/ cache <= height

\* A transaction is looked at again only when it would be deep enough.
ConfirmOK == \A c \in Calls : pc[c] = "rechecking" /\ base[c] > 0 => ret[c] >= base[c] + Confirm

Inv == TypeOK /\ NonceOK /\ QueueOK /\ PostsOK /\ PlacesOK /\ LimitsOK /\ ConfirmOK

-----------------------------------------------------------------------------
(* Heights and nonces *)

\* What the choice of the largest nonce finds.
LEMMA LargestOfBounded ==
    ASSUME NEW N \in Nat, NEW S, S \subseteq 0..N, S # {}
    PROVE  Largest(S) \in S /\ \A m \in S : m <= Largest(S)
<1>1. \E x \in S : \A y \in S : y <= x
  BY Greatest
<1> QED BY <1>1 DEF Largest

\* What a scene of the node is made of.
LEMMA SceneFacts ==
    ASSUME scene \in Scenes
    PROVE  /\ scene.mode \in [Calls -> ModeNames \cup {None}]
           /\ scene.height \in Nat /\ scene.height <= MaxHeight
           /\ scene.reorgs \in Nat /\ scene.reorgs <= MaxReorgs
           /\ scene.lost \in Nat /\ scene.lost <= MaxLost
<1>1. scene \in SceneType
  BY ScenesAssumption
<1> QED BY <1>1, NumbersAssumption DEF SceneType

\* The height the SDK reads is one the model has, and after no reorganisation
\* none of the future.
LEMMA HeightRead ==
    ASSUME TypeOK, LimitsOK, NEW h \in 0..MaxHeight, ReadsHeight(h)
    PROVE  /\ h \in Heights /\ cache' \in Heights \cup {None}
           /\ h >= height - CacheLag
           /\ reorgs = 0 => h <= height /\ (cache' = None \/ cache' <= height)
BY NumbersAssumption, NoneAssumption DEF TypeOK, LimitsOK, ReadsHeight, Heights

\* The invariant holds before the first call,
LEMMA InitInv == Init => Inv
<1> SUFFICES ASSUME Init PROVE Inv
  OBVIOUS
<1> USE NumbersAssumption, NoneAssumption, ScenesAssumption, CallsAssumption DEF Init
<1>1. Cardinality(Calls) \in Nat /\ Cardinality(Prepared) \in Nat
  <2>1. Prepared \subseteq Calls
    BY DEF Prepared
  <2> QED BY <2>1, FS_Subset, FS_CardinalityType
<1>2. TypeOK
  BY <1>1 DEF TypeOK, Heights, Stages, OnChain, Reasons
<1>3. NonceOK
  BY <1>1 DEF NonceOK
<1>4. QueueOK
  <2>1. [c \in Calls |-> 0] \in [Calls -> Nat]
    OBVIOUS
  <2> QED BY <2>1 DEF QueueOK, QueueOrder, InQueue
<1>5. PostsOK /\ LimitsOK /\ ConfirmOK
  BY DEF PostsOK, LimitsOK, ConfirmOK, Reasons
<1>6. PlacesOK
  BY DEF PlacesOK, OnChain
<1> QED BY <1>2, <1>3, <1>4, <1>5, <1>6 DEF Inv

-----------------------------------------------------------------------------
(* The queue *)

\* What no step of a call in the queue changes.
LEMMA QueueKept ==
    ASSUME Inv, UNCHANGED <<after, tail>>,
           \A c \in Calls : (InQueue(c)' <=> InQueue(c)) /\ (pc'[c] = "posting" => pc[c] = "posting")
    PROVE  QueueOK'
<1>1. PICK ticket \in [Calls -> Nat] : QueueOrder(ticket)
  BY DEF Inv, QueueOK
<1>2. QueueOrder(ticket)'
  BY <1>1 DEF QueueOrder, InQueue
<1> QED BY <1>2 DEF QueueOK

\* The call that posts is the first: when it leaves, the others keep their order.
LEMMA QueueLeft ==
    ASSUME Inv, NEW c \in Calls, pc[c] = "posting", UNCHANGED <<after, tail>>,
           NEW to, to \notin {"queued", "posting"}, pc' = [pc EXCEPT ![c] = to]
    PROVE  QueueOK'
<1>1. PICK ticket \in [Calls -> Nat] : QueueOrder(ticket)
  BY DEF Inv, QueueOK
<1>2. \A d \in Calls : InQueue(d)' <=> InQueue(d) /\ d # c
  BY DEF InQueue, Inv, TypeOK
<1>3. \A d \in Calls : /\ InQueue(d) => ticket[c] <= ticket[d]
                       /\ InQueue(d) /\ d # c => ticket[c] < ticket[d]
                       /\ ticket[d] \in Nat
  BY <1>1 DEF QueueOrder, InQueue
<1>4. QueueOrder(ticket)'
  <2>1. \A d, e \in Calls : InQueue(d)' /\ InQueue(e)' /\ ticket[d] = ticket[e] => d = e
    BY <1>1, <1>2 DEF QueueOrder
  <2>2. \A d, e \in Calls : InQueue(d)' /\ InQueue(e)' /\ ticket[e] < ticket[d] =>
            after'[d] \in Calls /\ InQueue(after[d])' /\ ticket[e] <= ticket[after'[d]]
    BY <1>1, <1>2, <1>3 DEF QueueOrder
  <2>3. \A d, e \in Calls : pc'[d] = "posting" /\ InQueue(e)' => ticket[d] <= ticket[e]
    BY <1>1, <1>2 DEF QueueOrder, Inv, TypeOK
  <2>4. \A d \in Calls : InQueue(d)' => tail' \in Calls /\ InQueue(tail)' /\ ticket[d] <= ticket[tail']
    BY <1>1, <1>2, <1>3 DEF QueueOrder
  <2> QED BY <2>1, <2>2, <2>3, <2>4 DEF QueueOrder, InQueue
<1> QED BY <1>4 DEF QueueOK

\* A call that is chained to the tail is the last.
LEMMA QueueEntered ==
    ASSUME Inv, NEW c \in Calls, Enqueue(c)
    PROVE  QueueOK'
<1>1. PICK ticket \in [Calls -> Nat] : QueueOrder(ticket)
  BY DEF Inv, QueueOK
<1>2. /\ pc[c] = "verified" /\ pc' = [pc EXCEPT ![c] = "queued"]
      /\ after' = [after EXCEPT ![c] = tail] /\ tail' = c
  BY DEF Enqueue, Goes
<1>3. \A d \in Calls : /\ InQueue(d)' <=> InQueue(d) \/ d = c
                       /\ pc'[d] = "posting" <=> pc[d] = "posting"
                       /\ d # c => after'[d] = after[d]
  BY <1>2 DEF InQueue, Inv, TypeOK
<1>4. ~InQueue(c) /\ after'[c] = tail
  BY <1>2 DEF InQueue, Inv, TypeOK
<1>5. PICK new \in [Calls -> Nat] :
      /\ \A d \in Calls : d # c => new[d] = ticket[d]
      /\ \A d \in Calls : InQueue(d) => /\ d # c /\ new[d] < new[c]
                                        /\ tail \in Calls /\ tail # c /\ InQueue(tail)
                                        /\ new[d] <= new[tail]
  <2> DEFINE last == IF tail \in Calls THEN ticket[tail] + 1 ELSE 0
  <2>1. /\ [ticket EXCEPT ![c] = last] \in [Calls -> Nat]
        /\ \A d \in Calls : [ticket EXCEPT ![c] = last][d] = IF d = c THEN last ELSE ticket[d]
    OBVIOUS
  <2>2. \A d \in Calls : InQueue(d) =>
            /\ d # c /\ tail \in Calls /\ tail # c /\ InQueue(tail)
            /\ ticket[d] \in Nat /\ ticket[d] <= ticket[tail]
    BY <1>1, <1>4 DEF QueueOrder
  <2>3. tail \in Calls => ticket[tail] \in Nat /\ last = ticket[tail] + 1
    OBVIOUS
  <2> HIDE DEF last
  <2>4. [ticket EXCEPT ![c] = last][c] = last
    BY <2>1
  <2>5. \A d \in Calls : InQueue(d) =>
            /\ [ticket EXCEPT ![c] = last][d] < [ticket EXCEPT ![c] = last][c]
            /\ [ticket EXCEPT ![c] = last][d] <= [ticket EXCEPT ![c] = last][tail]
    BY <2>1, <2>2, <2>3, <2>4
  <2> QED BY <2>1, <2>2, <2>5
<1>6. QueueOrder(new)'
  <2>1. \A d, e \in Calls : InQueue(d)' /\ InQueue(e)' /\ new[d] = new[e] => d = e
    BY <1>1, <1>3, <1>5 DEF QueueOrder
  <2>2. \A d, e \in Calls : InQueue(d)' /\ InQueue(e)' /\ new[e] < new[d] =>
            after'[d] \in Calls /\ InQueue(after[d])' /\ new[e] <= new[after'[d]]
    <3> SUFFICES ASSUME NEW d \in Calls, NEW e \in Calls, InQueue(d)', InQueue(e)', new[e] < new[d]
                 PROVE  after'[d] \in Calls /\ InQueue(after[d])' /\ new[e] <= new[after'[d]]
      OBVIOUS
    <3>1. CASE d = c
      BY <1>3, <1>4, <1>5, <3>1
    <3>2. CASE d # c
      <4>1. e # c /\ InQueue(d) /\ InQueue(e)
        BY <1>3, <1>5, <3>2
      <4> QED BY <1>1, <1>3, <1>4, <1>5, <3>2, <4>1 DEF QueueOrder
    <3> QED BY <3>1, <3>2
  <2>3. \A d, e \in Calls : pc'[d] = "posting" /\ InQueue(e)' => new[d] <= new[e]
    <3>1. \A d \in Calls : pc[d] = "posting" => InQueue(d)
      BY DEF InQueue
    <3> QED BY <1>1, <1>3, <1>5, <3>1 DEF QueueOrder
  <2>4. \A d \in Calls : InQueue(d)' => tail' \in Calls /\ InQueue(tail)' /\ new[d] <= new[tail']
    BY <1>2, <1>3, <1>5
  <2> QED BY <2>1, <2>2, <2>3, <2>4 DEF QueueOrder
<1> QED BY <1>5, <1>6 DEF QueueOK

\* A request goes when the one it is chained to has settled: it is the first.
LEMMA QueueGoes ==
    ASSUME Inv, NEW c \in Calls, Dequeue(c)
    PROVE  QueueOK'
<1>1. PICK ticket \in [Calls -> Nat] : QueueOrder(ticket)
  BY DEF Inv, QueueOK
<1>2. /\ pc[c] = "queued" /\ Settled(after[c]) /\ pc' = [pc EXCEPT ![c] = "posting"]
      /\ UNCHANGED <<after, tail>>
  BY DEF Dequeue, Goes
<1>3. \A d \in Calls : /\ InQueue(d)' <=> InQueue(d)
                       /\ pc'[d] = "posting" <=> pc[d] = "posting" \/ d = c
  BY <1>2 DEF InQueue, Inv, TypeOK
<1>4. \A d \in Calls : InQueue(d) => ticket[c] <= ticket[d]
  <2>1. after[c] \in Calls => ~InQueue(after[c])
    BY <1>2, NoneAssumption DEF Settled, InQueue
  <2>2. InQueue(c)
    BY <1>2 DEF InQueue
  <2> QED BY <1>1, <2>1, <2>2 DEF QueueOrder
<1>5. QueueOrder(ticket)'
  BY <1>1, <1>2, <1>3, <1>4 DEF QueueOrder, InQueue
<1> QED BY <1>5 DEF QueueOK

-----------------------------------------------------------------------------
(* The steps *)

\* no step of the chain breaks it,
LEMMA NodeStepKeeps ==
    ASSUME Inv, NodeStep
    PROVE  Inv'
<1> USE NumbersAssumption, NoneAssumption
<1>1. UNCHANGED <<scene, lost, pc, nonce, ttl, after, attempt, max, base, ret, why, tail, cache,
                  posted, unheard, since>>
  BY DEF NodeStep
<1>2. /\ height' \in Heights /\ mined' \in [Calls -> Heights] /\ reorgs' \in 0..MaxReorgs
      /\ pool' \subseteq Calls /\ \A c \in pool' : mined'[c] = 0
      /\ \A c \in Calls : c \in pool' \/ mined'[c] > 0 => c \in pool \/ mined[c] > 0
      /\ reorgs' = 0 => reorgs = 0 /\ height' >= height
  <2> USE SceneFacts DEF Inv, TypeOK, Heights, OnChain
  <2>1. CASE Mine
    BY <2>1 DEF Mine
  <2>2. CASE Reorganise
    BY <2>2 DEF Reorganise
  <2>3. CASE CollectGarbage
    BY <2>3 DEF CollectGarbage
  <2> QED BY <2>1, <2>2, <2>3 DEF NodeStep
<1>3. TypeOK'
  BY <1>1, <1>2 DEF Inv, TypeOK, OnChain
<1>4. QueueOK'
  BY <1>1, QueueKept DEF InQueue
<1>5. NonceOK' /\ PostsOK' /\ ConfirmOK'
  BY <1>1 DEF Inv, NonceOK, Prepared, PostsOK, Early, ConfirmOK
<1>6. PlacesOK'
  BY <1>1, <1>2 DEF Inv, TypeOK, PlacesOK, OnChain, Early
<1>7. LimitsOK'
  BY <1>1, <1>2 DEF Inv, TypeOK, LimitsOK, Heights
<1> QED BY <1>3, <1>4, <1>5, <1>6, <1>7 DEF Inv

\* The nonce is above all those of the account's transactions the node has.
LEMMA PrepareKeeps ==
    ASSUME Inv, NEW c \in Calls, Prepare(c)
    PROVE  Inv'
<1> USE NumbersAssumption, NoneAssumption
<1> DEFINE nonces == {0} \cup {nonce[d] : d \in pool \cup OnChain}
           n == 1 + Largest(nonces)
<1>1. /\ pc[c] = "idle" /\ pc' = [pc EXCEPT ![c] = "signing"]
      /\ nonce' = [nonce EXCEPT ![c] = n]
      /\ UNCHANGED <<scene, height, mined, pool, reorgs, lost, after, attempt, max, base, ret, why,
                     tail, posted, unheard, since>>
  BY DEF Prepare, Goes, node
<1>2. IsFiniteSet(Prepared) /\ Cardinality(Prepared) \in Nat /\ Cardinality(Calls) \in Nat
  <2>1. Prepared \subseteq Calls
    BY DEF Prepared
  <2> QED BY <2>1, CallsAssumption, FS_Subset, FS_CardinalityType
<1>3. n \in Nat /\ 0 < n /\ n <= Cardinality(Prepared) + 1
  <2>1. nonces \subseteq 0..Cardinality(Prepared) /\ nonces # {}
    BY <1>2 DEF Inv, TypeOK, NonceOK, OnChain
  <2>2. Largest(nonces) \in 0..Cardinality(Prepared)
    <3> HIDE DEF nonces
    <3> QED BY <1>2, <2>1, LargestOfBounded
  <2> QED BY <1>2, <2>2
<1> HIDE DEF n
<1>4. Cardinality(Prepared)' = Cardinality(Prepared) + 1 /\ Cardinality(Prepared') <= Cardinality(Calls)
  <2>1. Prepared' = Prepared \cup {c} /\ c \notin Prepared /\ Prepared' \subseteq Calls
    BY <1>1, <1>3 DEF Prepared, Inv, NonceOK, TypeOK
  <2> QED BY <1>2, <2>1, CallsAssumption, FS_AddElement, FS_Subset
<1>5. NonceOK'
  BY <1>1, <1>2, <1>3, <1>4 DEF Inv, NonceOK, TypeOK
<1>6. /\ ttl' \in [Calls -> 0..MaxHeight + TtlDepth] /\ \A d \in Calls : d # c => ttl'[d] = ttl[d]
      /\ cache' \in Heights \cup {None}
      /\ reorgs = 0 => cache' = None \/ cache' <= height
  <2>1. CASE mode(c) = "ttl"
    <3>1. PICK h \in 0..MaxHeight : ReadsHeight(h) /\ ttl' = [ttl EXCEPT ![c] = h + TtlDepth]
      BY <2>1 DEF Prepare
    <3>2. cache' \in Heights \cup {None} /\ (reorgs = 0 => cache' = None \/ cache' <= height)
      BY <3>1, HeightRead DEF Inv
    <3>3. h + TtlDepth \in 0..MaxHeight + TtlDepth
      OBVIOUS
    <3> QED BY <3>1, <3>2, <3>3 DEF Inv, TypeOK
  <2>2. CASE mode(c) # "ttl"
    BY <2>2 DEF Prepare, Inv, TypeOK, LimitsOK
  <2> QED BY <2>1, <2>2
<1>7. TypeOK'
  <2>1. n \in 0..Cardinality(Calls)
    BY <1>2, <1>3, <1>4
  <2>2. nonce' \in [Calls -> 0..Cardinality(Calls)] /\ pc' \in [Calls -> Stages]
    BY <1>1, <2>1 DEF Inv, TypeOK, Stages
  <2> QED BY <1>1, <1>6, <2>2 DEF Inv, TypeOK, OnChain
<1>8. QueueOK'
  BY <1>1, QueueKept DEF InQueue, Inv, TypeOK
<1>9. PostsOK' /\ PlacesOK' /\ ConfirmOK'
  BY <1>1 DEF Inv, TypeOK, PostsOK, PlacesOK, ConfirmOK, Early, OnChain
<1>10. LimitsOK'
  BY <1>1, <1>6 DEF Inv, TypeOK, LimitsOK, PostsOK, Early
<1> QED BY <1>5, <1>7, <1>8, <1>9, <1>10 DEF Inv

\* no call that verifies its transaction, or waits for its turn,
LEMMA BeforePost ==
    ASSUME Inv, NEW c \in Calls, Verify(c) \/ Enqueue(c) \/ Dequeue(c)
    PROVE  Inv'
<1> USE NumbersAssumption, NoneAssumption
<1>1. /\ pc' = [pc EXCEPT ![c] = pc'[c]] /\ pc'[c] \in {"failed", "verified", "queued", "posting"}
      /\ Early(c)
      /\ why' = [why EXCEPT ![c] = why'[c]]
      /\ why'[c] = why[c] \/ (why'[c] = "invalid" /\ pc'[c] = "failed")
      /\ tail' \in Calls \cup {None} /\ after' \in [Calls -> Calls \cup {None}]
      /\ UNCHANGED <<scene, height, mined, pool, reorgs, lost, nonce, ttl, attempt, max, base, ret,
                     cache, posted, unheard, since>>
  <2> USE DEF Inv, TypeOK, Early, Goes, Fails, node
  <2>1. CASE Verify(c)
    BY <2>1 DEF Verify
  <2>2. CASE Enqueue(c)
    BY <2>2 DEF Enqueue
  <2>3. CASE Dequeue(c)
    BY <2>3 DEF Dequeue
  <2> QED BY <2>1, <2>2, <2>3
<1>2. TypeOK'
  BY <1>1 DEF Inv, TypeOK, OnChain, Stages, Reasons
<1>3. QueueOK'
  <2>1. CASE Verify(c)
    <3>1. pc[c] = "signing" /\ pc'[c] \in {"failed", "verified"} /\ UNCHANGED <<after, tail>>
      BY <2>1 DEF Verify, Fails, Goes, Inv, TypeOK
    <3> QED BY <1>1, <3>1, QueueKept DEF InQueue, Inv, TypeOK
  <2> QED BY <2>1, QueueEntered, QueueGoes
<1>4. NonceOK' /\ PostsOK' /\ ConfirmOK' /\ LimitsOK'
  BY <1>1 DEF Inv, TypeOK, NonceOK, Prepared, PostsOK, ConfirmOK, LimitsOK, Early
<1>5. PlacesOK'
  BY <1>1 DEF Inv, TypeOK, PlacesOK, OnChain, Early
<1> QED BY <1>2, <1>3, <1>4, <1>5 DEF Inv

\* A POST is taken, refused, or its answer lost.
LEMMA PostKeeps ==
    ASSUME Inv, NEW c \in Calls, PostAccepted(c) \/ PostRefused(c) \/ AnswerLost(c)
    PROVE  Inv'
<1> USE NumbersAssumption, NoneAssumption
<1>1. /\ pc[c] = "posting" /\ posted' = [posted EXCEPT ![c] = @ + 1]
      /\ UNCHANGED <<height, mined, reorgs, scene, nonce, ttl, after, max, base, ret, tail, cache, since>>
  BY DEF PostAccepted, PostRefused, AnswerLost, Asked
<1>2. posted[c] = attempt[c] /\ why[c] = None /\ max[c] = None /\ attempt[c] \in 0..Retries
  BY <1>1 DEF Inv, TypeOK, PostsOK, Early
<1>3. \/ /\ pc' = [pc EXCEPT ![c] = Taken(c)] /\ UNCHANGED <<attempt, why, lost, unheard>>
         /\ pool' = pool \cup {c} /\ c \notin pool \cup OnChain
      \/ /\ Again(c)
         /\ \/ UNCHANGED <<pool, lost, unheard>>
            \/ /\ lost' = lost + 1 /\ lost < scene.lost
               /\ \/ /\ pool' = pool \cup {c} /\ unheard' = unheard \cup {c}
                     /\ c \notin pool \cup OnChain
                  \/ UNCHANGED <<pool, unheard>>
  BY DEF PostAccepted, PostRefused, AnswerLost, Goes, Acceptable
<1>4. Again(c) =>
      \/ /\ attempt[c] < Retries /\ attempt' = [attempt EXCEPT ![c] = @ + 1] /\ UNCHANGED <<pc, why>>
      \/ /\ attempt[c] = Retries /\ pc' = [pc EXCEPT ![c] = "failed"]
         /\ why' = [why EXCEPT ![c] = "refused"] /\ attempt' = attempt
  BY <1>2 DEF Again, Fails, Goes
<1>5. Taken(c) \in {"done", "looking"}
  BY DEF Taken
<1>6. lost' \in 0..MaxLost
  BY <1>3, SceneFacts DEF Inv, TypeOK
<1>7. TypeOK'
  <2>1. pool' \subseteq Calls \ OnChain' /\ unheard' \subseteq Calls
    BY <1>1, <1>3 DEF Inv, TypeOK, OnChain
  <2>2. posted' \in [Calls -> 0..Retries + 1] /\ attempt' \in [Calls -> 0..Retries]
    BY <1>1, <1>2, <1>3, <1>4 DEF Inv, TypeOK
  <2>3. pc' \in [Calls -> Stages] /\ why' \in [Calls -> Reasons \cup {None}]
    BY <1>3, <1>4, <1>5 DEF Inv, TypeOK, Stages, Reasons
  <2> QED BY <1>1, <1>6, <2>1, <2>2, <2>3 DEF Inv, TypeOK
<1>8. QueueOK'
  <2>1. CASE pc' = pc
    BY <1>1, <2>1, QueueKept DEF InQueue
  <2>2. CASE pc' # pc
    <3>1. \E to : to \notin {"queued", "posting"} /\ pc' = [pc EXCEPT ![c] = to]
      BY <1>3, <1>4, <1>5, <2>2
    <3> QED BY <1>1, <3>1, QueueLeft
  <2> QED BY <2>1, <2>2
<1>9. PostsOK'
  BY <1>1, <1>2, <1>3, <1>4, <1>5 DEF Inv, TypeOK, PostsOK, Early
<1>10. PlacesOK'
  <2>1. c \in pool \cup OnChain => c \in unheard
    BY <1>1 DEF Inv, PlacesOK, Early
  <2>2. OnChain' = OnChain
    BY <1>1 DEF OnChain
  <2>3. CASE pool' = pool /\ unheard' = unheard
    BY <1>1, <1>2, <1>3, <1>4, <1>5, <2>1, <2>2, <2>3 DEF Inv, TypeOK, PlacesOK, Early, OnChain
  <2>4. CASE pool' = pool \cup {c} /\ unheard' = unheard \cup {c} /\ Again(c)
    BY <1>1, <1>2, <1>4, <2>2, <2>4 DEF Inv, TypeOK, PlacesOK, Early, OnChain
  <2>5. CASE /\ pool' = pool \cup {c} /\ unheard' = unheard
             /\ pc' = [pc EXCEPT ![c] = Taken(c)] /\ why' = why
    BY <1>1, <1>2, <1>5, <2>2, <2>5 DEF Inv, TypeOK, PlacesOK, Early, OnChain, Reasons
  <2> QED BY <1>3, <2>3, <2>4, <2>5
<1>11. NonceOK' /\ LimitsOK' /\ ConfirmOK'
  BY <1>1, <1>3, <1>4, <1>5 DEF Inv, TypeOK, NonceOK, Prepared, LimitsOK, ConfirmOK
<1> QED BY <1>7, <1>8, <1>9, <1>10, <1>11 DEF Inv

\* After its POST a call is out of the queue for good, and posts no more.
LEMMA AfterPost ==
    ASSUME Inv, NEW c \in Calls, ~Early(c), NEW to \in Stages,
           to \notin {"idle", "signing", "verified", "queued", "posting"},
           pc' = [pc EXCEPT ![c] = to],
           \/ why' = why
           \/ to = "failed" /\ why' = [why EXCEPT ![c] = why'[c]] /\ why'[c] \in Reasons \ {"refused"},
           pc[c] # "failed",
           UNCHANGED <<scene, height, mined, pool, reorgs, lost, nonce, ttl, after, attempt, tail,
                       posted, unheard>>,
           \A d \in Calls : d # c => max'[d] = max[d]
    PROVE  /\ NonceOK' /\ QueueOK' /\ PostsOK' /\ PlacesOK'
           /\ pool' \subseteq Calls \ OnChain' /\ pc' \in [Calls -> Stages]
           /\ why' \in [Calls -> Reasons \cup {None}]
<1> USE NumbersAssumption, NoneAssumption
<1>0. why[c] = None
  BY DEF Inv, PostsOK
<1>1. QueueOK'
  BY QueueKept DEF InQueue, Early, Inv, TypeOK
<1>2. NonceOK' /\ PostsOK'
  BY <1>0 DEF Inv, TypeOK, NonceOK, Prepared, PostsOK, Early, Reasons
<1>3. PlacesOK'
  BY <1>0 DEF Inv, TypeOK, PlacesOK, Early, OnChain, Reasons
<1>4. /\ pool' \subseteq Calls \ OnChain' /\ pc' \in [Calls -> Stages]
      /\ why' \in [Calls -> Reasons \cup {None}]
  BY DEF Inv, TypeOK, OnChain, Reasons
<1> QED BY <1>1, <1>2, <1>3, <1>4

\* none that looks its transaction up,
LEMMA LookKeeps ==
    ASSUME Inv, NEW c \in Calls, Look(c)
    PROVE  Inv'
<1> USE NumbersAssumption, NoneAssumption
<1>1. /\ pc[c] = "looking"
      /\ UNCHANGED <<scene, height, mined, pool, reorgs, lost, nonce, ttl, after, attempt, max, base,
                     tail, cache, posted, unheard, since>>
      /\ ret' \in [Calls -> Heights] /\ \A d \in Calls : d # c => ret'[d] = ret[d]
  BY DEF Look, node, Inv, TypeOK
<1>2. PICK to \in {"confirming", "done", "limiting", "waiting", "failed"} :
      /\ pc' = [pc EXCEPT ![c] = to]
      /\ to = "waiting" => max[c] # None
      /\ \/ why' = why
         \/ to = "failed" /\ why' = [why EXCEPT ![c] = "gone"]
  BY DEF Look, Goes, Fails
<1>3. \/ why' = why
      \/ to = "failed" /\ why' = [why EXCEPT ![c] = why'[c]] /\ why'[c] \in Reasons \ {"refused"}
  BY <1>2 DEF Inv, TypeOK, Reasons
<1>4. /\ NonceOK' /\ QueueOK' /\ PostsOK' /\ PlacesOK'
      /\ pool' \subseteq Calls \ OnChain' /\ pc' \in [Calls -> Stages]
      /\ why' \in [Calls -> Reasons \cup {None}]
  <2>1. ~Early(c) /\ pc[c] # "failed"
    BY <1>1 DEF Early
  <2>2. to \in Stages /\ to \notin {"idle", "signing", "verified", "queued", "posting"}
    BY DEF Stages
  <2> QED BY <1>1, <1>2, <1>3, <2>1, <2>2, AfterPost
<1>5. TypeOK'
  BY <1>1, <1>4 DEF Inv, TypeOK
<1>6. LimitsOK' /\ ConfirmOK'
  BY <1>1, <1>2 DEF Inv, TypeOK, LimitsOK, ConfirmOK
<1> QED BY <1>4, <1>5, <1>6 DEF Inv

\* poll sets its limit, from a height that lags by CacheLag at most.
LEMMA LimitKeeps ==
    ASSUME Inv, NEW c \in Calls, Limit(c)
    PROVE  Inv'
<1> USE NumbersAssumption, NoneAssumption
<1>1. /\ pc[c] = "limiting" /\ pc' = [pc EXCEPT ![c] = "waiting"]
      /\ since' = [since EXCEPT ![c] = height]
      /\ UNCHANGED <<scene, height, mined, pool, reorgs, lost, nonce, ttl, after, attempt, base, ret,
                     why, tail, posted, unheard>>
  BY DEF Limit, node, Goes
<1>2. /\ max' = [max EXCEPT ![c] = max'[c]] /\ max'[c] \in -1..MaxHeight + Blocks
      /\ max'[c] # -1 => ttl[c] = 0 /\ max'[c] >= height + Blocks - CacheLag
      /\ cache' \in Heights \cup {None} /\ (reorgs = 0 => cache' = None \/ cache' <= height)
  <2>1. CASE max' = [max EXCEPT ![c] = -1] /\ UNCHANGED cache
    BY <2>1 DEF Inv, TypeOK, LimitsOK, Heights
  <2>2. CASE ttl[c] = 0 /\ \E h \in 0..MaxHeight : ReadsHeight(h) /\ max' = [max EXCEPT ![c] = h + Blocks]
    <3>1. PICK h \in 0..MaxHeight : ReadsHeight(h) /\ max' = [max EXCEPT ![c] = h + Blocks]
      BY <2>2
    <3>2. /\ h >= height - CacheLag /\ cache' \in Heights \cup {None}
          /\ reorgs = 0 => cache' = None \/ cache' <= height
      BY <3>1, HeightRead DEF Inv
    <3>3. max'[c] = h + Blocks /\ height \in Nat /\ max' = [max EXCEPT ![c] = max'[c]]
      BY <3>1 DEF Inv, TypeOK, Heights
    <3>4. h + Blocks \in -1..MaxHeight + Blocks /\ h + Blocks >= height + Blocks - CacheLag
      BY <3>2, <3>3
    <3> QED BY <2>2, <3>2, <3>3, <3>4
  <2> QED BY <2>1, <2>2 DEF Limit
<1>3. /\ NonceOK' /\ QueueOK' /\ PostsOK' /\ PlacesOK'
      /\ pool' \subseteq Calls \ OnChain' /\ pc' \in [Calls -> Stages]
      /\ why' \in [Calls -> Reasons \cup {None}]
  <2>1. ~Early(c) /\ pc[c] # "failed"
    BY <1>1 DEF Early
  <2>2. "waiting" \in Stages
    BY DEF Stages
  <2>3. \A d \in Calls : d # c => max'[d] = max[d]
    BY <1>2 DEF Inv, TypeOK
  <2> QED BY <1>1, <2>1, <2>2, <2>3, AfterPost
<1>4. TypeOK'
  BY <1>1, <1>2, <1>3 DEF Inv, TypeOK
<1>5. LimitsOK'
  BY <1>1, <1>2 DEF Inv, TypeOK, LimitsOK, Heights
<1>6. ConfirmOK'
  BY <1>1 DEF Inv, TypeOK, ConfirmOK
<1> QED BY <1>3, <1>4, <1>5, <1>6 DEF Inv

\* none that waits for the chain to grow,
LEMMA WaitKeeps ==
    ASSUME Inv, NEW c \in Calls, Wait(c)
    PROVE  Inv'
<1> USE NumbersAssumption, NoneAssumption
<1>1. /\ pc[c] = "waiting"
      /\ UNCHANGED <<scene, height, mined, pool, reorgs, lost, nonce, ttl, after, attempt, max, base,
                     ret, tail, posted, unheard, since>>
  BY DEF Wait, node
<1>2. PICK to \in {"looking", "failed"} :
      /\ pc' = [pc EXCEPT ![c] = to]
      /\ why' = why \/ (to = "failed" /\ why' = [why EXCEPT ![c] = "timeout"])
  BY DEF Wait, Goes, Fails
<1>3. cache' \in Heights \cup {None} /\ (reorgs = 0 => cache' = None \/ cache' <= height)
  <2>1. CASE UNCHANGED cache
    BY <2>1 DEF Inv, TypeOK, LimitsOK
  <2>2. CASE \E h \in 0..MaxHeight : ReadsHeight(h)
    BY <2>2, HeightRead DEF Inv
  <2> QED BY <2>1, <2>2 DEF Wait
<1>4. \/ why' = why
      \/ to = "failed" /\ why' = [why EXCEPT ![c] = why'[c]] /\ why'[c] \in Reasons \ {"refused"}
  BY <1>2 DEF Inv, TypeOK, Reasons
<1>5. /\ NonceOK' /\ QueueOK' /\ PostsOK' /\ PlacesOK'
      /\ pool' \subseteq Calls \ OnChain' /\ pc' \in [Calls -> Stages]
      /\ why' \in [Calls -> Reasons \cup {None}]
  <2>1. ~Early(c) /\ pc[c] # "failed"
    BY <1>1 DEF Early
  <2>2. to \in Stages /\ to \notin {"idle", "signing", "verified", "queued", "posting"}
    BY DEF Stages
  <2> QED BY <1>1, <1>2, <1>4, <2>1, <2>2, AfterPost
<1>6. TypeOK'
  BY <1>1, <1>3, <1>5 DEF Inv, TypeOK
<1>7. LimitsOK' /\ ConfirmOK'
  BY <1>1, <1>2, <1>3 DEF Inv, TypeOK, LimitsOK, ConfirmOK
<1> QED BY <1>5, <1>6, <1>7 DEF Inv

\* waitForTxConfirm
LEMMA ConfirmKeeps ==
    ASSUME Inv, NEW c \in Calls, ConfirmFrom(c) \/ AwaitHeight(c) \/ Recheck(c)
    PROVE  Inv'
<1> USE NumbersAssumption, NoneAssumption
<1>1. /\ pc[c] \in {"confirming", "awaiting", "rechecking"}
      /\ UNCHANGED <<scene, height, mined, pool, reorgs, lost, nonce, ttl, after, attempt, max,
                     tail, posted, unheard, since>>
      /\ base' \in [Calls -> Heights] /\ \A d \in Calls : d # c => base'[d] = base[d]
      /\ ret' \in [Calls -> Heights] /\ \A d \in Calls : d # c => ret'[d] = ret[d]
      /\ cache' \in {cache, height}
  <2> USE DEF Inv, TypeOK, node
  <2>1. CASE ConfirmFrom(c)
    BY <2>1 DEF ConfirmFrom
  <2>2. CASE AwaitHeight(c)
    BY <2>2 DEF AwaitHeight
  <2>3. CASE Recheck(c)
    BY <2>3 DEF Recheck
  <2> QED BY <2>1, <2>2, <2>3
<1>2. PICK to \in {"confirming", "awaiting", "rechecking", "done", "failed"} :
      /\ pc' = [pc EXCEPT ![c] = to]
      /\ why' = why \/ (to = "failed" /\ \E r \in {"gone", "notInChain"} : why' = [why EXCEPT ![c] = r])
      /\ to = "rechecking" => ret'[c] >= (IF base'[c] = 0 THEN -1 ELSE base'[c]) + Confirm
  <2>1. CASE ConfirmFrom(c)
    BY <2>1 DEF ConfirmFrom, Goes, Fails
  <2>2. CASE AwaitHeight(c)
    BY <2>2 DEF AwaitHeight, Goes, Inv, TypeOK
  <2>3. CASE Recheck(c)
    BY <2>3 DEF Recheck, Goes, Fails
  <2> QED BY <2>1, <2>2, <2>3
<1>3. \/ why' = why
      \/ to = "failed" /\ why' = [why EXCEPT ![c] = why'[c]] /\ why'[c] \in Reasons \ {"refused"}
  BY <1>2 DEF Inv, TypeOK, Reasons
<1>4. /\ NonceOK' /\ QueueOK' /\ PostsOK' /\ PlacesOK'
      /\ pool' \subseteq Calls \ OnChain' /\ pc' \in [Calls -> Stages]
      /\ why' \in [Calls -> Reasons \cup {None}]
  <2>1. ~Early(c) /\ pc[c] # "failed"
    BY <1>1 DEF Early
  <2>2. to \in Stages /\ to \notin {"idle", "signing", "verified", "queued", "posting"}
    BY DEF Stages
  <2> QED BY <1>1, <1>2, <1>3, <2>1, <2>2, AfterPost
<1>5. TypeOK'
  BY <1>1, <1>4 DEF Inv, TypeOK
<1>6. LimitsOK'
  BY <1>1, <1>2 DEF Inv, TypeOK, LimitsOK, Heights
<1>7. ConfirmOK'
  BY <1>1, <1>2 DEF Inv, TypeOK, ConfirmOK
<1> QED BY <1>4, <1>5, <1>6, <1>7 DEF Inv

\* and no other.
LEMMA StepInv == Inv /\ [Next]_vars => Inv'
<1> SUFFICES ASSUME Inv, [Next]_vars PROVE Inv'
  OBVIOUS
<1>1. CASE UNCHANGED vars
  <2>1. UNCHANGED <<scene, height, mined, pool, reorgs, lost, pc, nonce, ttl, after, attempt, max, base,
                    ret, why, tail, cache, posted, unheard, since>>
    BY <1>1 DEF vars, node
  <2>2. QueueOK'
    BY <2>1, QueueKept DEF InQueue
  <2>3. TypeOK' /\ NonceOK' /\ PostsOK'
    BY <2>1 DEF Inv, TypeOK, OnChain, NonceOK, Prepared, PostsOK, Early
  <2>4. PlacesOK' /\ LimitsOK' /\ ConfirmOK'
    BY <2>1 DEF Inv, PlacesOK, OnChain, Early, LimitsOK, ConfirmOK
  <2> QED BY <2>2, <2>3, <2>4 DEF Inv
<1> QED
  BY <1>1, NodeStepKeeps, PrepareKeeps, BeforePost, PostKeeps, LookKeeps, LimitKeeps, WaitKeeps, ConfirmKeeps
  DEF Next, Acts

-----------------------------------------------------------------------------
\* However calls overlap, the node is asked for one transaction of the
\* account at a time, and a call is refused for its own (autorest.ts:96-112,
\* :239-253).
THEOREM QueueKeepsOrder == Spec => []QueueInOrder
<1>1. Inv => QueueInOrder
  <2> SUFFICES ASSUME Inv PROVE QueueInOrder
    OBVIOUS
  <2>1. OnePostAtATime
    <3> SUFFICES ASSUME NEW c \in Calls, NEW d \in Calls, pc[c] = "posting", pc[d] = "posting"
                 PROVE  c = d
      BY DEF OnePostAtATime
    <3>1. PICK ticket \in [Calls -> Nat] : QueueOrder(ticket)
      BY DEF Inv, QueueOK
    <3>2. ticket[c] <= ticket[d] /\ ticket[d] <= ticket[c] /\ InQueue(c) /\ InQueue(d)
      BY <3>1 DEF QueueOrder, InQueue
    <3> QED BY <3>1, <3>2 DEF QueueOrder
  <2>2. RefusedForItself /\ RefusedStaysOut
    BY DEF Inv, TypeOK, PostsOK, PlacesOK, OnChain, RefusedForItself, RefusedStaysOut
  <2> QED BY <2>1, <2>2 DEF Inv, QueueInOrder
<1> QED BY <1>1, InitInv, StepInv, PTL DEF Spec

\* poll gives up only after the blocks asked for, and waitForTxConfirm
\* resolves only at the depth asked for (chain.ts:55-57, :105-108).
THEOREM CallsEndByTheChain == Spec => EndsByTheChain
<1> USE NumbersAssumption, NoneAssumption
<1> DEFINE Given == \A c \in Calls : why[c] # "timeout" /\ why'[c] = "timeout" =>
                        ttl[c] = 0 /\ (reorgs = 0 => height >= since[c] + Blocks - CacheLag)
           Deep == \A c \in Calls : pc[c] # "done" /\ pc'[c] = "done" /\ mode(c) = "confirm" =>
                       mined[c] > 0 /\ ret'[c] >= mined[c] + Confirm
<1>1. Inv /\ [Next]_vars => [Given]_vars
  <2> SUFFICES ASSUME Inv, Next, NEW c \in Calls, why[c] # "timeout", why'[c] = "timeout"
               PROVE  ttl[c] = 0 /\ (reorgs = 0 => height >= since[c] + Blocks - CacheLag)
    OBVIOUS
  <2>1. ~NodeStep
    BY DEF NodeStep
  <2>2. PICK d \in Calls : Prepare(d) \/ Acts(d)
    BY <2>1 DEF Next
  <2>3. Wait(c)
    <3> USE DEF Inv, TypeOK, Fails, Goes, Reasons
    <3>1. ~Prepare(d) /\ ~Verify(d) /\ ~Enqueue(d) /\ ~Dequeue(d)
      BY DEF Prepare, Verify, Enqueue, Dequeue
    <3>2. ~PostAccepted(d) /\ ~PostRefused(d) /\ ~AnswerLost(d)
      BY DEF PostAccepted, PostRefused, AnswerLost, Again
    <3>3. ~Look(d) /\ ~Limit(d) /\ ~ConfirmFrom(d) /\ ~AwaitHeight(d) /\ ~Recheck(d)
      BY DEF Look, Limit, ConfirmFrom, AwaitHeight, Recheck
    <3>4. Wait(d)
      BY <2>2, <3>1, <3>2, <3>3 DEF Acts
    <3>5. d = c
      BY <3>4 DEF Wait
    <3> QED BY <3>4, <3>5
  <2>4. PICK h \in 0..MaxHeight : ReadsHeight(h) /\ max[c] # -1 /\ ~(h < max[c])
    BY <2>3 DEF Wait
  <2>5. max[c] # None /\ max[c] \in Int
    BY <2>3 DEF Wait, Inv, LimitsOK, TypeOK
  <2>6. reorgs = 0 => h <= height
    BY <2>4, HeightRead DEF Inv
  <2>7. ttl[c] = 0 /\ (reorgs = 0 => max[c] >= since[c] + Blocks - CacheLag)
    BY <2>4, <2>5 DEF Inv, LimitsOK
  <2> QED BY <2>4, <2>5, <2>6, <2>7 DEF Inv, TypeOK, Heights
<1>2. Inv /\ [Next]_vars => [Deep]_vars
  <2> SUFFICES ASSUME Inv, Next, NEW c \in Calls, pc[c] # "done", pc'[c] = "done", mode(c) = "confirm"
               PROVE  mined[c] > 0 /\ ret'[c] >= mined[c] + Confirm
    OBVIOUS
  <2>1. PICK d \in Calls : Prepare(d) \/ Acts(d)
    BY DEF Next, NodeStep
  <2>2. Recheck(c)
    <3> USE DEF Inv, TypeOK, Fails, Goes
    <3>1. ~Prepare(d) /\ ~Verify(d) /\ ~Enqueue(d) /\ ~Dequeue(d)
      BY DEF Prepare, Verify, Enqueue, Dequeue
    <3>2. ~PostAccepted(d) /\ ~PostRefused(d) /\ ~AnswerLost(d)
      BY DEF PostAccepted, PostRefused, AnswerLost, Again, Taken
    <3>3. ~Look(d) /\ ~Limit(d) /\ ~Wait(d) /\ ~ConfirmFrom(d) /\ ~AwaitHeight(d)
      BY DEF Look, Limit, Wait, ConfirmFrom, AwaitHeight
    <3>4. Recheck(d)
      BY <2>1, <3>1, <3>2, <3>3 DEF Acts
    <3>5. d = c
      BY <3>4 DEF Recheck
    <3> QED BY <3>4, <3>5
  <2>3. pc[c] = "rechecking" /\ mined[c] > 0 /\ mined[c] = base[c] /\ ret' = ret
    BY <2>2 DEF Recheck, Goes, Fails, Inv, TypeOK
  <2> QED BY <2>3 DEF Inv, ConfirmOK
<1> QED BY <1>1, <1>2, InitInv, StepInv, PTL DEF Spec, EndsByTheChain, TimedOutInTime, ConfirmedDeep
===============================================================================
