---------------------- MODULE MiddlewareSubscriber_proofs ----------------------
(***************************************************************************)
(* Theorems about the subscriptions to a middleware, for any number of     *)
(* subscriptions, targets, sockets and requests.                           *)
(***************************************************************************)
EXTENDS MiddlewareSubscriber, QueueLemmas, FiniteSetTheorems

-----------------------------------------------------------------------------
(* The inductive invariant *)

\* Nothing has been sent over a socket that is not open yet.
UnopenedOK == \A s \in Sockets : rs[s] \in {"unused", "connecting"} =>
    up[s] = <<>> /\ down[s] = <<>> /\ server[s] = {}

\* The middleware serves no target that it refuses.
ServerOK == \A s \in Sockets : server[s] \cap Invalid = {}

\* The queue q holds first the requests whose replies d come back, in their order,
\* and then the requests u on their way.
InOrder(q, d, u) ==
    /\ Len(q) = Len(d) + Len(u)
    /\ \A i \in 1 .. Len(d) : (q[i].target \in d[i]) = q[i].sub
    /\ \A i \in 1 .. Len(u) : q[Len(d) + i] = u[i]

\* Until the first socket opens nothing waits for a reply; while it is in use,
\* and no other was opened, the queue is in order.
FirstOK == (\A s \in Sockets \ {1} : rs[s] = "unused") =>
    /\ rs[1] \in {"unused", "connecting"} =>
         cur = None /\ ~ closeDue /\ queue = <<>> /\ fault = "none"
    /\ rs[1] = "connecting" => 1 \in attached
    /\ rs[1] = "open" =>
         /\ cur = 1 /\ ~ closeDue /\ 1 \in attached /\ fault = "none"
         /\ InOrder(queue, down[1], up[1])

\* While no socket opens, and none is in use or will be after the callbacks of
\* a close, every subscription was told, or made too late to be.
LeftBehindOK ==
    (cur = None \/ closeDue) /\ (\A s \in Sockets : rs[s] # "connecting")
        => Active \subseteq told \cup late

SubscriberInv ==
    /\ TypeOK
    /\ IsFiniteSet(Active)
    /\ UnopenedOK
    /\ ServerOK
    /\ AskedForWanted
    /\ FirstOK
    /\ LeftBehindOK

-----------------------------------------------------------------------------
(* What the middleware will serve *)

\* Without requests it goes on serving what it serves.
LEMMA ServeNothing ==
    ASSUME NEW v, NEW t
    PROVE  WillServe(<<>>, v, t) <=> t \in v
BY DEF WillServe

\* One more request decides about its target, and changes no other.
LEMMA ServeOneMore ==
    ASSUME NEW q \in Seq(Requests), NEW r \in Requests, NEW v, NEW t
    PROVE  WillServe(q \o <<r>>, v, t) <=>
             IF t = r.target THEN r.sub /\ t \notin Invalid ELSE WillServe(q, v, t)
<1> DEFINE p == q \o <<r>>
<1>1. /\ Len(q) \in Nat /\ Len(p) = Len(q) + 1 /\ p \in Seq(Requests)
      /\ \A i \in 1 .. Len(q) : p[i] = q[i]
      /\ p[Len(q) + 1] = r
      /\ DOMAIN p = 1 .. Len(q) + 1 /\ DOMAIN q = 1 .. Len(q)
  BY ConcatProperties, LenProperties
<1> HIDE DEF p
<1>2. CASE t = r.target
  BY <1>1, <1>2 DEF WillServe
<1>3. CASE t # r.target
  <2>1. {i \in DOMAIN p : p[i].target = t} = {i \in DOMAIN q : q[i].target = t}
    BY <1>1, <1>3
  <2>2. \A i \in DOMAIN q : p[i] = q[i]
    BY <1>1
  <2> QED BY <1>3, <2>1, <2>2, SMTT(30) DEF WillServe
<1> QED BY <1>2, <1>3 DEF p

\* To read a request does not change what will be served in the end.
LEMMA ServeOneLess ==
    ASSUME NEW q \in Seq(Requests), q # <<>>, NEW v, v \cap Invalid = {}, NEW t
    PROVE  WillServe(Tail(q), After(v, Head(q)), t) <=> WillServe(q, v, t)
<1> DEFINE p == Tail(q)  r == Head(q)
<1>1. /\ Len(q) \in Nat \ {0} /\ Len(p) = Len(q) - 1
      /\ \A i \in 1 .. Len(q) - 1 : p[i] = q[i + 1]
      /\ r = q[1]
      /\ DOMAIN p = 1 .. Len(q) - 1 /\ DOMAIN q = 1 .. Len(q)
      /\ \A i \in 1 .. Len(q) : q[i] \in Requests
  BY HeadTailProperties, EmptySeq, LenProperties, ElementOfSeq
<1> HIDE DEF p, r
<1> DEFINE A == {i \in 1 .. Len(q) : q[i].target = t}
           B == {i \in 1 .. Len(q) - 1 : q[i + 1].target = t}
<1>2. /\ \A i \in B : i + 1 \in A
      /\ \A i \in A : i = 1 \/ i - 1 \in B
      /\ 1 \in A <=> r.target = t
  BY <1>1
<1>3. WillServe(q, v, t) <=>
        \/ A = {} /\ t \in v
        \/ t \notin Invalid /\ \E i \in A : q[i].sub /\ \A j \in A : j <= i
  BY <1>1 DEF WillServe
<1>4. WillServe(p, After(v, r), t) <=>
        \/ B = {} /\ t \in After(v, r)
        \/ t \notin Invalid /\ \E i \in B : q[i + 1].sub /\ \A j \in B : j <= i
  <2>1. {i \in DOMAIN p : p[i].target = t} = B /\ \A i \in B : p[i] = q[i + 1]
    BY <1>1
  <2> QED BY <2>1 DEF WillServe
<1>5. CASE B = {}
  <2>1. A = IF r.target = t THEN {1} ELSE {}
    BY <1>2, <1>5
  <2>2. t \in After(v, r) <=> IF r.target = t THEN r.sub /\ t \notin Invalid ELSE t \in v
    BY <1>1 DEF After, Requests
  <2>3. ASSUME r.target = t
        PROVE  WillServe(q, v, t) <=> t \notin Invalid /\ r.sub
    <3>1. A = {1}
      BY <2>1, <2>3
    <3> HIDE DEF A
    <3> QED BY <1>1, <1>3, <3>1
  <2> QED BY <1>3, <1>4, <1>5, <2>1, <2>2, <2>3 DEF p, r
<1>6. CASE B # {}
  <2>1. A # {} /\ B \subseteq Nat \ {0} /\ A \subseteq Nat
    BY <1>1, <1>2, <1>6
  <2> HIDE DEF A, B
  <2>2. ASSUME NEW i \in B, q[i + 1].sub, \A j \in B : j <= i
        PROVE  i + 1 \in A /\ \A j \in A : j <= i + 1
    <3>1. i + 1 \in A /\ i \in Nat \ {0}
      BY <1>2, <2>1
    <3>2. ASSUME NEW j \in A PROVE j <= i + 1
      <4>1. j \in Nat /\ (j = 1 \/ j - 1 <= i)
        BY <1>2, <2>1, <2>2
      <4> QED BY <3>1, <4>1
    <3> QED BY <3>1, <3>2
  <2>3. ASSUME NEW i \in A, q[i].sub, \A j \in A : j <= i
        PROVE  i - 1 \in B /\ q[(i - 1) + 1].sub /\ \A j \in B : j <= i - 1
    <3>1. PICK b \in B : TRUE
      BY <1>6
    <3>2. i # 1
      <4>1. b \in Nat \ {0} /\ b + 1 <= i
        BY <1>2, <2>1, <2>3, <3>1
      <4> QED BY <4>1, <2>1
    <3>3. i \in Nat \ {0} /\ i - 1 \in B /\ (i - 1) + 1 = i
      BY <1>2, <2>1, <3>2
    <3>4. \A j \in B : j + 1 <= i /\ j \in Nat
      BY <1>2, <2>1, <2>3
    <3>5. \A j \in B : j <= i - 1
      BY <3>3, <3>4
    <3> QED BY <2>3, <3>3, <3>5
  <2>4. (\E i \in A : q[i].sub /\ \A j \in A : j <= i)
          => \E i \in B : q[i + 1].sub /\ \A j \in B : j <= i
    <3> SUFFICES ASSUME NEW i \in A, q[i].sub, \A j \in A : j <= i
                 PROVE  \E k \in B : q[k + 1].sub /\ \A j \in B : j <= k
      OBVIOUS
    <3>1. i - 1 \in B /\ q[(i - 1) + 1].sub /\ \A j \in B : j <= i - 1
      BY <2>3
    <3> QED BY <3>1
  <2> QED BY <1>3, <1>4, <1>6, <2>1, <2>2, <2>4 DEF p, r
<1> QED BY <1>5, <1>6

\* The sequences of a finite set hold its elements, each of them once.
LEMMA SequencesOfSet ==
    ASSUME NEW W, IsFiniteSet(W), NEW order \in SetToSeqs(W)
    PROVE  /\ order \in Seq(W) /\ Len(order) \in Nat /\ DOMAIN order = 1 .. Len(order)
           /\ \A t \in W : \E i \in 1 .. Len(order) : order[i] = t
           /\ \A i, j \in 1 .. Len(order) : order[i] = order[j] => i = j
<1> DEFINE n == Cardinality(W)  D == 1 .. n
<1>1. n \in Nat
  BY FS_CardinalityType
<1> HIDE DEF n
<1>2. order \in [D -> W] /\ \A i, j \in D : i # j => order[i] # order[j]
  BY DEF SetToSeqs, n
<1>3. order \in Seq(W) /\ Len(order) = n /\ DOMAIN order = D
  BY <1>1, <1>2, SeqDef
<1>4. IsFiniteSet(D) /\ Cardinality(D) = n
  BY <1>1, FS_Interval
<1>5. order \in Injection(D, W)
  BY <1>2 DEF Injection, IsInjective
<1>6. order \in Surjection(D, W)
  BY <1>4, <1>5, FS_Injection DEF n
<1> QED BY <1>1, <1>2, <1>3, <1>6 DEF Surjection

\* Asked for each of the targets W on a new connection, the middleware will serve
\* those of them that are valid.
LEMMA ServeAll ==
    ASSUME NEW W, W \subseteq Targets, IsFiniteSet(W), NEW order \in SetToSeqs(W),
           NEW reqs, reqs = [i \in DOMAIN order |-> [sub |-> TRUE, target |-> order[i]]]
    PROVE  /\ reqs \in Seq(Requests)
           /\ \A t : WillServe(reqs, {}, t) <=> t \in W \ Invalid
<1>1. /\ order \in Seq(W) /\ Len(order) \in Nat /\ DOMAIN order = 1 .. Len(order)
      /\ \A t \in W : \E i \in 1 .. Len(order) : order[i] = t
      /\ \A i, j \in 1 .. Len(order) : order[i] = order[j] => i = j
  BY SequencesOfSet
<1>2. \A i \in 1 .. Len(order) : order[i] \in W
  BY <1>1, ElementOfSeq
<1>3. reqs \in [1 .. Len(order) -> Requests]
  BY <1>1, <1>2 DEF Requests
<1>4. reqs \in Seq(Requests)
  BY <1>1, <1>3, SeqDef
<1>5. ASSUME NEW t PROVE WillServe(reqs, {}, t) <=> t \in W \ Invalid
  <2> DEFINE A == {i \in DOMAIN reqs : reqs[i].target = t}
  <2>1. \A i \in 1 .. Len(order) : i \in A <=> order[i] = t
    BY <1>1
  <2>2. A \subseteq 1 .. Len(order) /\ \A i \in A : reqs[i].sub
    BY <1>1, <1>3
  <2>3. WillServe(reqs, {}, t) <=>
          t \notin Invalid /\ \E i \in A : reqs[i].sub /\ \A j \in A : j <= i
    BY DEF WillServe
  <2> HIDE DEF A
  <2>4. CASE t \in W
    <3>1. PICK i \in 1 .. Len(order) : order[i] = t
      BY <1>1, <2>4
    <3>2. i \in A /\ \A j \in A : j = i
      BY <1>1, <2>1, <2>2, <3>1
    <3>3. i \in Nat
      BY <1>1
    <3> QED BY <2>2, <2>3, <2>4, <3>2, <3>3
  <2>5. CASE t \notin W
    BY <1>2, <2>1, <2>2, <2>3, <2>5
  <2> QED BY <2>4, <2>5
<1> QED BY <1>4, <1>5

-----------------------------------------------------------------------------
(* The invariant is inductive *)

\* One request is the last that waits for a reply; it travels when there is a
\* socket that is open.
LEMMA SendOne ==
    ASSUME TypeOK, NEW sub \in BOOLEAN, NEW target \in Targets, NEW r,
           r = [sub |-> sub, target |-> target], SendSubscribe(sub, target)
    PROVE  /\ r \in Requests /\ r.sub = sub /\ r.target = target
           /\ queue' = IF cur = None THEN queue ELSE queue \o <<r>>
           /\ up' = IF cur # None /\ rs[cur] = "open"
                    THEN [up EXCEPT ![cur] = @ \o <<r>>] ELSE up
           /\ queue' \in Seq(Requests) /\ up' \in [Sockets -> Seq(Requests)]
<1>1. r \in Requests /\ r.sub = sub /\ r.target = target /\ <<r>> \in Seq(Requests)
  BY DEF Requests
<1>2. /\ queue' = IF cur = None THEN queue ELSE queue \o <<r>>
      /\ up' = IF cur # None /\ rs[cur] = "open"
               THEN [up EXCEPT ![cur] = @ \o <<r>>] ELSE up
  BY DEF SendSubscribe, Send
<1>3. \A q \in Seq(Requests) : q \o <<r>> \in Seq(Requests)
  BY <1>1, ConcatProperties
<1>4. queue' \in Seq(Requests)
  BY <1>2, <1>3 DEF TypeOK
<1>5. up' \in [Sockets -> Seq(Requests)]
  <2>1. CASE cur # None /\ rs[cur] = "open"
    <3>1. cur \in Sockets /\ up[cur] \in Seq(Requests)
      BY <2>1 DEF TypeOK
    <3> QED BY <1>2, <1>3, <2>1, <3>1 DEF TypeOK
  <2>2. CASE ~ (cur # None /\ rs[cur] = "open")
    BY <1>2, <2>2 DEF TypeOK
  <2> QED BY <2>1, <2>2
<1> QED BY <1>1, <1>2, <1>4, <1>5

\* No subscription is lost or won by the steps that leave subs alone, and the
\* targets wanted are those of the active ones.
LEMMA ActiveOf ==
    ASSUME TypeOK
    PROVE  /\ Active \subseteq Subs
           /\ Wanted \subseteq Targets
           /\ \A x \in Subs : TargetOf[x] \in Targets
           /\ \A x \in Active : TargetOf[x] \in Wanted
BY DEF Active, Wanted, Targets

\* As many subscriptions as there are, they want finitely many targets.
LEMMA WantedFinite ==
    ASSUME IsFiniteSet(Active)
    PROVE  IsFiniteSet(Wanted)
<1> DEFINE f == [x \in Active |-> TargetOf[x]]
<1>1. f \in Surjection(Active, Wanted)
  BY DEF Surjection, Wanted
<1> QED BY <1>1, FS_Surjection

\* A new subscription is active from its call on.
LEMMA ActiveMore ==
    ASSUME TypeOK, NEW x \in Subs, subs' = [subs EXCEPT ![x] = "active"]
    PROVE  Active' = Active \cup {x} /\ Wanted' = Wanted \cup {TargetOf[x]}
<1>1. Active' = Active \cup {x}
  BY DEF TypeOK, Active
<1> QED BY <1>1 DEF Wanted

\* One that ends is not.
LEMMA ActiveLess ==
    ASSUME TypeOK, NEW x \in Subs, subs' = [subs EXCEPT ![x] = "gone"]
    PROVE  Active' = Active \ {x} /\ Wanted' = {TargetOf[y] : y \in Active \ {x}}
<1>1. Active' = Active \ {x}
  BY DEF TypeOK, Active
<1> QED BY <1>1 DEF Wanted

\* What a call of subscribe does, in its three cases.
LEMMA SubscribeCases ==
    ASSUME TypeOK, NEW x \in Subs, Subscribe(x)
    PROVE  /\ x \notin Active
           /\ Active' = Active \cup {x} /\ Wanted' = Wanted \cup {TargetOf[x]}
           /\ \/ Wanted = {} /\ Reconnect /\ UNCHANGED <<queue, up, late>>
              \/ /\ Wanted # {} /\ UNCHANGED <<cur, rs, attached>>
                 /\ TargetOf[x] \in Wanted /\ UNCHANGED <<queue, up>>
              \/ /\ Wanted # {} /\ UNCHANGED <<cur, rs, attached>>
                 /\ TargetOf[x] \notin Wanted /\ SendSubscribe(TRUE, TargetOf[x])
BY ActiveMore DEF Subscribe, Active

\* And one of the function that subscribe returned.
LEMMA UnsubscribeCases ==
    ASSUME TypeOK, NEW x \in Subs, Unsubscribe(x)
    PROVE  /\ Active' = Active \ {x} /\ Wanted' = {TargetOf[y] : y \in Active \ {x}}
           /\ \/ TargetOf[x] \in Wanted' /\ UNCHANGED <<queue, up>>
              \/ TargetOf[x] \notin Wanted' /\ SendSubscribe(FALSE, TargetOf[x])
           /\ \/ Wanted' = {} /\ rs' = CloseCurrent /\ attached' = attached \ {cur} /\ cur' = None
              \/ Wanted' # {} /\ UNCHANGED <<rs, attached, cur>>
BY ActiveLess DEF Unsubscribe

\* Every step keeps the types.
LEMMA TypesStep ==
    ASSUME TypeOK, IsFiniteSet(Active), [Next]_vars
    PROVE  TypeOK'
<1>1. CloseCurrent \in [Sockets -> {"unused", "connecting", "open", "closing", "closed"}]
  BY DEF TypeOK, CloseCurrent
<1>2. Reconnect =>
        /\ cur' = None /\ attached' \subseteq Sockets
        /\ rs' \in [Sockets -> {"unused", "connecting", "open", "closing", "closed"}]
  BY <1>1 DEF TypeOK, Reconnect
<1>3. ASSUME NEW x \in Subs, Subscribe(x) PROVE TypeOK'
  <2>1. subs' = [subs EXCEPT ![x] = "active"] /\ told' = told \ {x}
        /\ UNCHANGED <<closeDue, fault, down, server>> /\ late' \subseteq late \cup {x}
    BY <1>3 DEF Subscribe
  <2>2. TargetOf[x] \in Targets
    BY ActiveOf
  <2>3. queue' \in Seq(Requests) /\ up' \in [Sockets -> Seq(Requests)]
    <3>1. SendSubscribe(TRUE, TargetOf[x]) => queue' \in Seq(Requests) /\ up' \in [Sockets -> Seq(Requests)]
      BY <2>2, SendOne
    <3> QED BY <1>3, <3>1, SubscribeCases DEF TypeOK
  <2>4. /\ cur' \in Sockets \cup {None} /\ attached' \subseteq Sockets
        /\ rs' \in [Sockets -> {"unused", "connecting", "open", "closing", "closed"}]
    BY <1>2, <1>3, SubscribeCases DEF TypeOK
  <2> QED BY <2>1, <2>3, <2>4 DEF TypeOK
<1>4. ASSUME NEW x \in Subs, Unsubscribe(x) PROVE TypeOK'
  <2>1. subs' = [subs EXCEPT ![x] = "gone"] /\ UNCHANGED <<closeDue, fault, told, late, down, server>>
    BY <1>4 DEF Unsubscribe
  <2>2. TargetOf[x] \in Targets
    BY ActiveOf
  <2>3. queue' \in Seq(Requests) /\ up' \in [Sockets -> Seq(Requests)]
    <3>1. SendSubscribe(FALSE, TargetOf[x]) => queue' \in Seq(Requests) /\ up' \in [Sockets -> Seq(Requests)]
      BY <2>2, SendOne
    <3> QED BY <1>4, <3>1, UnsubscribeCases DEF TypeOK
  <2>4. /\ cur' \in Sockets \cup {None} /\ attached' \subseteq Sockets
        /\ rs' \in [Sockets -> {"unused", "connecting", "open", "closing", "closed"}]
    BY <1>1, <1>4, UnsubscribeCases DEF TypeOK
  <2> QED BY <2>1, <2>3, <2>4 DEF TypeOK
<1>5. ASSUME UserReconnects PROVE TypeOK'
  BY <1>2, <1>5 DEF TypeOK, UserReconnects
<1>6. ASSUME UserCloses PROVE TypeOK'
  BY <1>6 DEF TypeOK, UserCloses
<1>7. ASSUME CloseDone PROVE TypeOK'
  BY <1>7 DEF TypeOK, CloseDone, Reset
<1>8. ASSUME NEW s \in Sockets, Opened(s) PROVE TypeOK'
  <2>1. PICK order \in SetToSeqs(Wanted) :
           /\ queue' = queue \o [i \in DOMAIN order |-> [sub |-> TRUE, target |-> order[i]]]
           /\ up' = [up EXCEPT ![s] = [i \in DOMAIN order |-> [sub |-> TRUE, target |-> order[i]]]]
    BY <1>8 DEF Opened
  <2> DEFINE reqs == [i \in DOMAIN order |-> [sub |-> TRUE, target |-> order[i]]]
  <2>2. IsFiniteSet(Wanted) /\ Wanted \subseteq Targets
    BY ActiveOf, WantedFinite
  <2>3. reqs \in Seq(Requests)
    BY <2>2, ServeAll
  <2>4. queue' \in Seq(Requests)
    BY <2>1, <2>3, ConcatProperties DEF TypeOK
  <2>5. up' \in [Sockets -> Seq(Requests)]
    BY <2>1, <2>3 DEF TypeOK
  <2> QED BY <1>8, <2>4, <2>5 DEF TypeOK, Opened
<1>9. ASSUME NEW s \in Sockets, Closed(s) PROVE TypeOK'
  <2>1. <<>> \in Seq(Requests) /\ <<>> \in Seq(Replies)
    OBVIOUS
  <2>2. up' \in [Sockets -> Seq(Requests)] /\ down' \in [Sockets -> Seq(Replies)]
        /\ server' \in [Sockets -> SUBSET Targets]
    BY <1>9, <2>1 DEF TypeOK, Closed
  <2>3. rs' \in [Sockets -> {"unused", "connecting", "open", "closing", "closed"}]
    BY <1>9 DEF TypeOK, Closed
  <2>4. cur' \in Sockets \cup {None} /\ attached' \subseteq Sockets /\ closeDue' \in BOOLEAN
    BY <1>9 DEF TypeOK, Closed, Reset
  <2>5. told' \subseteq Subs
    BY <1>9, ActiveOf DEF TypeOK, Closed
  <2> QED BY <1>9, <2>2, <2>3, <2>4, <2>5 DEF TypeOK, Closed
<1>10. ASSUME NEW s \in Sockets, Reply(s) PROVE TypeOK'
  <2>1. Tail(down[s]) \in Seq(Replies) /\ (queue # <<>> => Tail(queue) \in Seq(Requests))
    BY <1>10, HeadTailProperties DEF TypeOK, Reply
  <2>2. down' \in [Sockets -> Seq(Replies)] /\ queue' \in Seq(Requests)
    BY <1>10, <2>1 DEF TypeOK, Reply
  <2>3. fault' \in {"none", "mismatch", "empty"}
    BY <1>10 DEF TypeOK, Reply
  <2> QED BY <1>10, <2>2, <2>3 DEF TypeOK, Reply
<1>11. ASSUME NEW s \in Sockets, Serve(s) PROVE TypeOK'
  <2> DEFINE r == Head(up[s])
             answer == IF r.sub /\ r.target \in Invalid THEN {r.target} ELSE After(server[s], r)
  <2>1. up[s] # <<>> /\ up' = [up EXCEPT ![s] = Tail(@)]
        /\ server' = [server EXCEPT ![s] = After(@, r)]
        /\ down' = [down EXCEPT ![s] = Append(@, answer)]
        /\ UNCHANGED <<subs, cur, rs, attached, queue, closeDue, fault, told, late>>
    BY <1>11 DEF Serve
  <2>2. r \in Requests /\ Tail(up[s]) \in Seq(Requests)
    BY <2>1, HeadTailProperties DEF TypeOK
  <2> HIDE DEF r
  <2>3. After(server[s], r) \subseteq Targets /\ answer \in Replies
    BY <2>2 DEF TypeOK, After, Requests, Replies
  <2> HIDE DEF answer
  <2>4. Append(down[s], answer) \in Seq(Replies)
    BY <2>3, AppendProperties DEF TypeOK
  <2>5. up' \in [Sockets -> Seq(Requests)] /\ server' \in [Sockets -> SUBSET Targets]
        /\ down' \in [Sockets -> Seq(Replies)]
    BY <2>1, <2>2, <2>3, <2>4 DEF TypeOK
  <2> QED BY <2>1, <2>5 DEF TypeOK
<1>12. ASSUME UNCHANGED vars PROVE TypeOK'
  BY <1>12 DEF TypeOK, vars
<1> QED BY <1>3, <1>4, <1>5, <1>6, <1>7, <1>8, <1>9, <1>10, <1>11, <1>12 DEF Next

\* Every step leaves finitely many subscriptions active.
LEMMA FiniteStep ==
    ASSUME TypeOK, IsFiniteSet(Active), [Next]_vars
    PROVE  IsFiniteSet(Active')
<1>1. ASSUME NEW x \in Subs, Subscribe(x) PROVE IsFiniteSet(Active')
  <2>1. Active' = Active \cup {x}
    BY <1>1, SubscribeCases
  <2>2. IsFiniteSet(Active \cup {x})
    BY FS_AddElement
  <2> QED BY <2>1, <2>2
<1>2. ASSUME NEW x \in Subs, Unsubscribe(x) PROVE IsFiniteSet(Active')
  <2>1. Active' = Active \ {x}
    BY <1>2, UnsubscribeCases
  <2>2. IsFiniteSet(Active \ {x})
    BY FS_RemoveElement
  <2> QED BY <2>1, <2>2
<1>3. subs' = subs => Active' = Active
  BY DEF Active
<1> QED
  BY <1>1, <1>2, <1>3 DEF Next, UserReconnects, UserCloses, CloseDone, Opened, Closed,
    Reply, Serve, vars

\* Nothing is sent over a socket before it opens.
LEMMA UnopenedStep ==
    ASSUME TypeOK, TypeOK', UnopenedOK, [Next]_vars
    PROVE  UnopenedOK'
<1> SUFFICES ASSUME NEW s \in Sockets, rs'[s] \in {"unused", "connecting"}
             PROVE  up'[s] = <<>> /\ down'[s] = <<>> /\ server'[s] = {}
  BY DEF UnopenedOK
<1>1. CloseCurrent[s] \in {"unused", "connecting"} => rs[s] \in {"unused", "connecting"}
  BY DEF CloseCurrent
<1>2. Reconnect => rs[s] \in {"unused", "connecting"}
  BY <1>1 DEF TypeOK, Reconnect, CloseCurrent
<1>3. ASSUME NEW x \in Subs, Subscribe(x) PROVE rs[s] \in {"unused", "connecting"} /\ up'[s] = up[s]
  <2>1. rs[s] \in {"unused", "connecting"}
    BY <1>2, <1>3, SubscribeCases
  <2>2. SendSubscribe(TRUE, TargetOf[x]) => up'[s] = up[s]
    BY <2>1 DEF SendSubscribe, Send, TypeOK
  <2> QED BY <1>3, <2>1, <2>2, SubscribeCases
<1>4. ASSUME NEW x \in Subs, Unsubscribe(x) PROVE rs[s] \in {"unused", "connecting"} /\ up'[s] = up[s]
  <2>1. rs[s] \in {"unused", "connecting"}
    BY <1>1, <1>4, UnsubscribeCases
  <2>2. SendSubscribe(FALSE, TargetOf[x]) => up'[s] = up[s]
    BY <2>1 DEF SendSubscribe, Send, TypeOK
  <2> QED BY <1>4, <2>1, <2>2, UnsubscribeCases
<1>5. ASSUME NEW x \in Subs, Subscribe(x) \/ Unsubscribe(x)
      PROVE  up'[s] = <<>> /\ down'[s] = <<>> /\ server'[s] = {}
  BY <1>3, <1>4, <1>5 DEF UnopenedOK, Subscribe, Unsubscribe
<1>6. ASSUME UserReconnects PROVE up'[s] = <<>> /\ down'[s] = <<>> /\ server'[s] = {}
  BY <1>2, <1>6 DEF UnopenedOK, UserReconnects
<1>7. ASSUME UserCloses PROVE up'[s] = <<>> /\ down'[s] = <<>> /\ server'[s] = {}
  BY <1>7 DEF UnopenedOK, UserCloses, TypeOK
<1>8. ASSUME CloseDone PROVE up'[s] = <<>> /\ down'[s] = <<>> /\ server'[s] = {}
  BY <1>8 DEF UnopenedOK, CloseDone
<1>9. ASSUME NEW v \in Sockets, Opened(v) PROVE up'[s] = <<>> /\ down'[s] = <<>> /\ server'[s] = {}
  <2>1. v # s
    BY <1>9 DEF Opened, TypeOK
  <2> QED BY <1>9, <2>1 DEF UnopenedOK, Opened, TypeOK
<1>10. ASSUME NEW v \in Sockets, Closed(v) PROVE up'[s] = <<>> /\ down'[s] = <<>> /\ server'[s] = {}
  <2>1. v # s
    BY <1>10 DEF Closed, TypeOK
  <2> QED BY <1>10, <2>1 DEF UnopenedOK, Closed, TypeOK
<1>11. ASSUME NEW v \in Sockets, Reply(v) PROVE up'[s] = <<>> /\ down'[s] = <<>> /\ server'[s] = {}
  BY <1>11 DEF UnopenedOK, Reply, TypeOK
<1>12. ASSUME NEW v \in Sockets, Serve(v) PROVE up'[s] = <<>> /\ down'[s] = <<>> /\ server'[s] = {}
  <2>1. v # s
    BY <1>12 DEF UnopenedOK, Serve
  <2> QED BY <1>12, <2>1 DEF UnopenedOK, Serve, TypeOK
<1>13. ASSUME UNCHANGED vars PROVE up'[s] = <<>> /\ down'[s] = <<>> /\ server'[s] = {}
  BY <1>13 DEF UnopenedOK, vars
<1> QED BY <1>5, <1>6, <1>7, <1>8, <1>9, <1>10, <1>11, <1>12, <1>13 DEF Next

\* The middleware never serves a target that it refuses.
LEMMA ServerStep ==
    ASSUME TypeOK, ServerOK, [Next]_vars
    PROVE  ServerOK'
<1>1. ASSUME NEW s \in Sockets, Serve(s) PROVE ServerOK'
  <2>1. After(server[s], Head(up[s])) \cap Invalid = {}
    BY DEF ServerOK, After
  <2> QED BY <1>1, <2>1 DEF ServerOK, Serve, TypeOK
<1>2. ASSUME NEW s \in Sockets, Closed(s) PROVE ServerOK'
  BY <1>2 DEF ServerOK, Closed, TypeOK
<1>3. server' = server => ServerOK'
  BY DEF ServerOK
<1> QED
  BY <1>1, <1>2, <1>3 DEF Next, Subscribe, Unsubscribe, UserReconnects, UserCloses,
    CloseDone, Opened, Reply, vars

\* A subscription that is left without a socket was told, or is late.
LEMMA LeftBehindStep ==
    ASSUME TypeOK, LeftBehindOK, [Next]_vars
    PROVE  LeftBehindOK'
<1>1. Reconnect => \E s \in Sockets : rs'[s] = "connecting"
  BY DEF Reconnect, CloseCurrent, TypeOK
<1>2. None \notin Sockets
  BY SubscriberAssumption DEF Sockets
<1>3. ASSUME NEW x \in Subs, Subscribe(x) PROVE LeftBehindOK'
  <2>1. CASE Wanted = {}
    BY <1>1, <1>3, <2>1 DEF LeftBehindOK, Subscribe
  <2>2. CASE Wanted # {}
    <3>1. UNCHANGED <<cur, rs, closeDue>> /\ told' = told \ {x} /\ Active' = Active \cup {x} /\ x \notin Active
          /\ late' = IF (\E s \in Sockets : rs[s] = "connecting") \/ (cur # None /\ ~ closeDue)
                     THEN late ELSE late \cup {x}
      BY <1>3, <2>2, SubscribeCases DEF Subscribe
    <3> QED BY <3>1 DEF LeftBehindOK
  <2> QED BY <2>1, <2>2
<1>4. ASSUME NEW x \in Subs, Unsubscribe(x) PROVE LeftBehindOK'
  <2>1. Active' = Active \ {x} /\ UNCHANGED <<closeDue, told, late>>
    BY <1>4, UnsubscribeCases DEF Unsubscribe
  <2>2. CASE Wanted' = {}
    BY <2>1, <2>2 DEF LeftBehindOK, Wanted
  <2>3. CASE Wanted' # {}
    BY <1>4, <2>1, <2>3, UnsubscribeCases DEF LeftBehindOK
  <2> QED BY <2>2, <2>3
<1>5. ASSUME UserReconnects PROVE LeftBehindOK'
  BY <1>1, <1>5 DEF LeftBehindOK, UserReconnects
<1>6. ASSUME UserCloses PROVE LeftBehindOK'
  <2>1. UNCHANGED <<cur, closeDue, told, late, subs>> /\ rs' = [rs EXCEPT ![cur] = "closing"]
        /\ rs[cur] = "open"
    BY <1>6 DEF UserCloses
  <2>2. (\A s \in Sockets : rs'[s] # "connecting") => \A s \in Sockets : rs[s] # "connecting"
    BY <2>1 DEF TypeOK
  <2> QED BY <2>1, <2>2 DEF LeftBehindOK, Active
<1>7. ASSUME CloseDone PROVE LeftBehindOK'
  BY <1>7 DEF LeftBehindOK, CloseDone, Active
<1>8. ASSUME NEW s \in Sockets, Opened(s) PROVE LeftBehindOK'
  BY <1>2, <1>8 DEF LeftBehindOK, Opened
<1>9. ASSUME NEW s \in Sockets, Closed(s) PROVE LeftBehindOK'
  BY <1>9 DEF LeftBehindOK, Closed, Active
<1>10. UNCHANGED <<cur, closeDue, rs, told, late, subs>> => LeftBehindOK'
  BY DEF LeftBehindOK, Active
<1> QED
  BY <1>3, <1>4, <1>5, <1>6, <1>7, <1>8, <1>9, <1>10 DEF Next, Reply, Serve, vars

\* What a request over the open current socket changes of what will be served.
LEMMA AskedOne ==
    ASSUME TypeOK, TypeOK', cur # None, rs[cur] = "open", NEW sub \in BOOLEAN,
           NEW target \in Targets, SendSubscribe(sub, target), UNCHANGED <<cur, server>>, NEW t
    PROVE  WillServe(up'[cur], server'[cur], t) <=>
             IF t = target THEN sub /\ t \notin Invalid ELSE WillServe(up[cur], server[cur], t)
<1> DEFINE r == [sub |-> sub, target |-> target]
<1>1. r \in Requests /\ r.sub = sub /\ r.target = target
  BY DEF Requests
<1>2. up'[cur] = up[cur] \o <<r>> /\ up[cur] \in Seq(Requests)
  BY DEF SendSubscribe, Send, TypeOK
<1> HIDE DEF r
<1>3. WillServe(up[cur] \o <<r>>, server[cur], t) <=>
        IF t = target THEN sub /\ t \notin Invalid ELSE WillServe(up[cur], server[cur], t)
  BY <1>1, <1>2, ServeOneMore
<1> QED BY <1>2, <1>3

\* What was asked for over the current socket fits the subscriptions.
LEMMA AskedStep ==
    ASSUME SubscriberInv, TypeOK', [Next]_vars
    PROVE  AskedForWanted'
<1>0. TypeOK /\ IsFiniteSet(Active) /\ UnopenedOK /\ ServerOK /\ AskedForWanted
  BY DEF SubscriberInv
<1> SUFFICES ASSUME cur' # None, rs'[cur'] = "open", NEW t \in Targets
             PROVE  WillServe(up'[cur'], server'[cur'], t) <=> t \in Wanted' \ Invalid
  BY DEF AskedForWanted
<1>1. cur' \in Sockets
  BY DEF TypeOK
<1>2. Reconnect => cur' = None
  BY DEF Reconnect
<1>3. ASSUME NEW x \in Subs, Subscribe(x)
      PROVE  WillServe(up'[cur'], server'[cur'], t) <=> t \in Wanted' \ Invalid
  <2>1. /\ Wanted # {} /\ UNCHANGED <<cur, rs, server>> /\ Wanted' = Wanted \cup {TargetOf[x]}
        /\ \/ TargetOf[x] \in Wanted /\ UNCHANGED <<queue, up>>
           \/ TargetOf[x] \notin Wanted /\ SendSubscribe(TRUE, TargetOf[x])
    BY <1>0, <1>2, <1>3, SubscribeCases DEF Subscribe
  <2>2. WillServe(up[cur], server[cur], t) <=> t \in Wanted \ Invalid
    BY <1>0, <2>1 DEF AskedForWanted
  <2>3. CASE TargetOf[x] \in Wanted /\ UNCHANGED <<queue, up>>
    BY <2>1, <2>2, <2>3
  <2>4. CASE TargetOf[x] \notin Wanted /\ SendSubscribe(TRUE, TargetOf[x])
    <3>1. TargetOf[x] \in Targets
      BY <1>0, ActiveOf
    <3>2. WillServe(up'[cur], server'[cur], t) <=>
            IF t = TargetOf[x] THEN t \notin Invalid ELSE WillServe(up[cur], server[cur], t)
      BY <1>0, <2>1, <2>4, <3>1, AskedOne
    <3> QED BY <2>1, <2>2, <3>2
  <2> QED BY <2>1, <2>3, <2>4
<1>4. ASSUME NEW x \in Subs, Unsubscribe(x)
      PROVE  WillServe(up'[cur'], server'[cur'], t) <=> t \in Wanted' \ Invalid
  <2>1. /\ UNCHANGED <<cur, rs, server>> /\ Wanted' = {TargetOf[y] : y \in Active \ {x}}
        /\ \/ TargetOf[x] \in Wanted' /\ UNCHANGED <<queue, up>>
           \/ TargetOf[x] \notin Wanted' /\ SendSubscribe(FALSE, TargetOf[x])
    BY <1>0, <1>4, UnsubscribeCases DEF Unsubscribe
  <2>2. WillServe(up[cur], server[cur], t) <=> t \in Wanted \ Invalid
    BY <1>0, <2>1 DEF AskedForWanted
  <2>3. t # TargetOf[x] => (t \in Wanted' <=> t \in Wanted)
    BY <2>1 DEF Wanted
  <2>4. CASE TargetOf[x] \in Wanted' /\ UNCHANGED <<queue, up>>
    <3>1. Wanted' = Wanted
      BY <2>1, <2>4 DEF Wanted
    <3> QED BY <2>1, <2>2, <2>4, <3>1
  <2>5. CASE TargetOf[x] \notin Wanted' /\ SendSubscribe(FALSE, TargetOf[x])
    <3>1. TargetOf[x] \in Targets
      BY <1>0, ActiveOf
    <3>2. WillServe(up'[cur], server'[cur], t) <=>
            IF t = TargetOf[x] THEN FALSE ELSE WillServe(up[cur], server[cur], t)
      BY <1>0, <2>1, <2>5, <3>1, AskedOne
    <3> QED BY <2>1, <2>2, <2>3, <2>5, <3>2
  <2> QED BY <2>1, <2>4, <2>5
<1>5. ASSUME UserReconnects
      PROVE  WillServe(up'[cur'], server'[cur'], t) <=> t \in Wanted' \ Invalid
  BY <1>2, <1>5 DEF UserReconnects
<1>6. ASSUME UserCloses
      PROVE  WillServe(up'[cur'], server'[cur'], t) <=> t \in Wanted' \ Invalid
  BY <1>0, <1>6 DEF UserCloses, TypeOK
<1>7. ASSUME CloseDone
      PROVE  WillServe(up'[cur'], server'[cur'], t) <=> t \in Wanted' \ Invalid
  BY <1>7 DEF CloseDone, Reset
<1>8. ASSUME NEW s \in Sockets, Opened(s)
      PROVE  WillServe(up'[cur'], server'[cur'], t) <=> t \in Wanted' \ Invalid
  <2>1. PICK order \in SetToSeqs(Wanted) :
           up' = [up EXCEPT ![s] = [i \in DOMAIN order |-> [sub |-> TRUE, target |-> order[i]]]]
    BY <1>8 DEF Opened
  <2> DEFINE reqs == [i \in DOMAIN order |-> [sub |-> TRUE, target |-> order[i]]]
  <2>2. IsFiniteSet(Wanted) /\ Wanted \subseteq Targets
    BY <1>0, ActiveOf, WantedFinite
  <2>3. WillServe(reqs, {}, t) <=> t \in Wanted \ Invalid
    BY <2>2, ServeAll
  <2>4. cur' = s /\ rs[s] = "connecting" /\ UNCHANGED <<subs, server>>
    BY <1>8 DEF Opened
  <2>5. up'[s] = reqs /\ server'[s] = {} /\ Wanted' = Wanted
    BY <1>0, <2>1, <2>4 DEF TypeOK, UnopenedOK, Wanted, Active
  <2> QED BY <2>3, <2>4, <2>5
<1>9. ASSUME NEW s \in Sockets, Closed(s)
      PROVE  WillServe(up'[cur'], server'[cur'], t) <=> t \in Wanted' \ Invalid
  <2>1. cur' = cur /\ UNCHANGED subs /\ rs' = [rs EXCEPT ![s] = "closed"]
        /\ up' = [up EXCEPT ![s] = <<>>] /\ server' = [server EXCEPT ![s] = {}]
    BY <1>9 DEF Closed, Reset
  <2>2. cur # s /\ rs[cur] = "open" /\ up'[cur] = up[cur] /\ server'[cur] = server[cur]
    BY <1>0, <1>1, <2>1 DEF TypeOK
  <2> QED BY <1>0, <2>1, <2>2 DEF AskedForWanted, Wanted, Active
<1>10. ASSUME NEW s \in Sockets, Serve(s)
      PROVE  WillServe(up'[cur'], server'[cur'], t) <=> t \in Wanted' \ Invalid
  <2>1. UNCHANGED <<subs, cur, rs>> /\ up[s] # <<>> /\ up' = [up EXCEPT ![s] = Tail(@)]
        /\ server' = [server EXCEPT ![s] = After(@, Head(up[s]))]
    BY <1>10 DEF Serve
  <2>2. WillServe(up[cur], server[cur], t) <=> t \in Wanted' \ Invalid
    BY <1>0, <2>1 DEF AskedForWanted, Wanted, Active
  <2>3. CASE s = cur
    <3>1. WillServe(Tail(up[cur]), After(server[cur], Head(up[cur])), t) <=> WillServe(up[cur], server[cur], t)
      BY <1>0, <2>1, <2>3, ServeOneLess DEF TypeOK, ServerOK
    <3>2. up'[cur] = Tail(up[cur]) /\ server'[cur] = After(server[cur], Head(up[cur]))
      BY <1>0, <2>1, <2>3 DEF TypeOK
    <3> QED BY <2>1, <2>2, <3>1, <3>2
  <2>4. CASE s # cur
    BY <1>0, <1>1, <2>1, <2>2, <2>4 DEF TypeOK
  <2> QED BY <2>3, <2>4
<1>11. ASSUME UNCHANGED <<subs, cur, rs, up, server>>
      PROVE  WillServe(up'[cur'], server'[cur'], t) <=> t \in Wanted' \ Invalid
  BY <1>0, <1>11 DEF AskedForWanted, Wanted, Active
<1> QED
  BY <1>3, <1>4, <1>5, <1>6, <1>7, <1>8, <1>9, <1>10, <1>11 DEF Next, Reply, vars

\* A sequence that grew by one element at its end.
LEMMA OneMore ==
    ASSUME NEW S, NEW s \in Seq(S), NEW x \in S
    PROVE  /\ s \o <<x>> \in Seq(S) /\ Len(s) \in Nat /\ Len(s \o <<x>>) = Len(s) + 1
           /\ \A i \in 1 .. Len(s) : (s \o <<x>>)[i] = s[i]
           /\ (s \o <<x>>)[Len(s) + 1] = x
BY ConcatProperties, LenProperties

\* The queue of the first socket stays in order when a request is sent,
LEMMA InOrderSent ==
    ASSUME NEW q \in Seq(Requests), NEW d \in Seq(Replies), NEW u \in Seq(Requests),
           NEW r \in Requests, InOrder(q, d, u)
    PROVE  InOrder(q \o <<r>>, d, u \o <<r>>)
<1>1. /\ Len(q) \in Nat /\ Len(d) \in Nat /\ Len(u) \in Nat
      /\ Len(q) = Len(d) + Len(u)
  BY LenProperties DEF InOrder
<1>2. /\ Len(q \o <<r>>) = Len(q) + 1 /\ Len(u \o <<r>>) = Len(u) + 1
      /\ \A i \in 1 .. Len(q) : (q \o <<r>>)[i] = q[i]
      /\ \A i \in 1 .. Len(u) : (u \o <<r>>)[i] = u[i]
      /\ (q \o <<r>>)[Len(q) + 1] = r /\ (u \o <<r>>)[Len(u) + 1] = r
  BY OneMore
<1>3. \A i \in 1 .. Len(d) : i \in 1 .. Len(q)
  BY <1>1
<1>4. ASSUME NEW i \in 1 .. Len(u) + 1
      PROVE  (q \o <<r>>)[Len(d) + i] = (u \o <<r>>)[i]
  <2>1. CASE i = Len(u) + 1
    <3>1. Len(d) + i = Len(q) + 1
      BY <1>1, <2>1
    <3> QED BY <1>2, <2>1, <3>1
  <2>2. CASE i # Len(u) + 1
    <3>1. i \in 1 .. Len(u) /\ Len(d) + i \in 1 .. Len(q)
      BY <1>1, <2>2
    <3> QED BY <1>2, <3>1 DEF InOrder
  <2> QED BY <2>1, <2>2
<1>5. Len(q \o <<r>>) = Len(d) + Len(u \o <<r>>)
  BY <1>1, <1>2
<1> QED BY <1>2, <1>3, <1>4, <1>5 DEF InOrder

\* when the middleware replies to the next one,
LEMMA InOrderServed ==
    ASSUME NEW q \in Seq(Requests), NEW d \in Seq(Replies), NEW u \in Seq(Requests),
           u # <<>>, NEW a \in Replies, (Head(u).target \in a) = Head(u).sub, InOrder(q, d, u)
    PROVE  InOrder(q, Append(d, a), Tail(u))
<1>1. /\ Len(q) \in Nat /\ Len(d) \in Nat /\ Len(u) \in Nat \ {0}
      /\ Len(q) = Len(d) + Len(u)
      /\ Len(Tail(u)) = Len(u) - 1 /\ Head(u) = u[1]
      /\ \A i \in 1 .. Len(u) - 1 : Tail(u)[i] = u[i + 1]
  BY LenProperties, HeadTailProperties, EmptySeq DEF InOrder
<1>2. /\ Len(Append(d, a)) = Len(d) + 1
      /\ \A i \in 1 .. Len(d) : Append(d, a)[i] = d[i]
      /\ Append(d, a)[Len(d) + 1] = a
  BY AppendProperties, LenProperties
<1>3. q[Len(d) + 1] = Head(u)
  BY <1>1 DEF InOrder
<1>4. ASSUME NEW i \in 1 .. Len(d) + 1
      PROVE  (q[i].target \in Append(d, a)[i]) = q[i].sub
  <2>1. CASE i = Len(d) + 1
    BY <1>2, <1>3, <2>1
  <2>2. CASE i # Len(d) + 1
    <3>1. i \in 1 .. Len(d)
      BY <1>1, <2>2
    <3> QED BY <1>2, <3>1 DEF InOrder
  <2> QED BY <2>1, <2>2
<1>5. ASSUME NEW i \in 1 .. Len(u) - 1
      PROVE  q[(Len(d) + 1) + i] = Tail(u)[i]
  <2>1. i + 1 \in 1 .. Len(u) /\ (Len(d) + 1) + i = Len(d) + (i + 1)
    BY <1>1
  <2> QED BY <1>1, <2>1 DEF InOrder
<1>6. Len(q) = (Len(d) + 1) + (Len(u) - 1)
  BY <1>1
<1> QED BY <1>1, <1>2, <1>4, <1>5, <1>6 DEF InOrder

\* and when the oldest reply is taken for that of the oldest request.
LEMMA InOrderReplied ==
    ASSUME NEW q \in Seq(Requests), NEW d \in Seq(Replies), NEW u \in Seq(Requests),
           d # <<>>, InOrder(q, d, u)
    PROVE  /\ q # <<>> /\ (Head(q).target \in Head(d)) = Head(q).sub
           /\ InOrder(Tail(q), Tail(d), u)
<1>1. /\ Len(q) \in Nat /\ Len(d) \in Nat \ {0} /\ Len(u) \in Nat
      /\ Len(q) = Len(d) + Len(u)
      /\ Len(Tail(d)) = Len(d) - 1 /\ Head(d) = d[1]
      /\ \A i \in 1 .. Len(d) - 1 : Tail(d)[i] = d[i + 1]
  BY LenProperties, HeadTailProperties, EmptySeq DEF InOrder
<1>2. q # <<>>
  BY <1>1
<1>3. /\ Len(Tail(q)) = Len(q) - 1 /\ Head(q) = q[1]
      /\ \A i \in 1 .. Len(q) - 1 : Tail(q)[i] = q[i + 1]
  BY <1>2, LenProperties, HeadTailProperties
<1>4. (Head(q).target \in Head(d)) = Head(q).sub
  BY <1>1, <1>3 DEF InOrder
<1>5. ASSUME NEW i \in 1 .. Len(d) - 1
      PROVE  (Tail(q)[i].target \in Tail(d)[i]) = Tail(q)[i].sub
  <2>1. i + 1 \in 1 .. Len(d) /\ i \in 1 .. Len(q) - 1
    BY <1>1
  <2> QED BY <1>1, <1>3, <2>1 DEF InOrder
<1>6. ASSUME NEW i \in 1 .. Len(u)
      PROVE  Tail(q)[(Len(d) - 1) + i] = u[i]
  <2>1. (Len(d) - 1) + i \in 1 .. Len(q) - 1 /\ ((Len(d) - 1) + i) + 1 = Len(d) + i
    BY <1>1
  <2> QED BY <1>3, <2>1 DEF InOrder
<1>7. Len(q) - 1 = (Len(d) - 1) + Len(u)
  BY <1>1
<1> QED BY <1>1, <1>2, <1>3, <1>4, <1>5, <1>6, <1>7 DEF InOrder

\* All the requests of a socket that has just opened are on their way.
LEMMA InOrderOpened ==
    ASSUME NEW q \in Seq(Requests)
    PROVE  InOrder(<<>> \o q, <<>>, q)
<1>1. <<>> \o q = q /\ Len(q) \in Nat
  BY ConcatEmptySeq, LenProperties
<1> QED BY <1>1 DEF InOrder

\* A request sent over the first socket, while it is in use.
LEMMA FirstSent ==
    ASSUME TypeOK, cur = 1, rs[1] = "open", InOrder(queue, down[1], up[1]), 1 \in Sockets,
           NEW sub \in BOOLEAN, NEW target \in Targets, SendSubscribe(sub, target), UNCHANGED down
    PROVE  InOrder(queue', down'[1], up'[1])
<1> DEFINE r == [sub |-> sub, target |-> target]
<1>1. r \in Requests /\ cur # None
  BY SubscriberAssumption DEF Requests
<1>2. queue' = queue \o <<r>> /\ up'[1] = up[1] \o <<r>> /\ down'[1] = down[1]
  BY <1>1 DEF SendSubscribe, Send, TypeOK
<1>3. queue \in Seq(Requests) /\ up[1] \in Seq(Requests) /\ down[1] \in Seq(Replies)
  BY DEF TypeOK
<1> HIDE DEF r
<1> QED BY <1>1, <1>2, <1>3, InOrderSent

\* The replies of the first socket are taken for those of their own requests
\* until there is a second one.
LEMMA FirstStep ==
    ASSUME SubscriberInv, TypeOK', [Next]_vars
    PROVE  FirstOK'
<1>0. TypeOK /\ IsFiniteSet(Active) /\ UnopenedOK /\ FirstOK /\ 1 \in Sockets /\ None # 1
  BY SubscriberAssumption DEF SubscriberInv, Sockets
<1> SUFFICES ASSUME \A s \in Sockets \ {1} : rs'[s] = "unused"
             PROVE  /\ rs'[1] \in {"unused", "connecting"} =>
                         cur' = None /\ ~ closeDue' /\ queue' = <<>> /\ fault' = "none"
                    /\ rs'[1] = "connecting" => 1 \in attached'
                    /\ rs'[1] = "open" =>
                         /\ cur' = 1 /\ ~ closeDue' /\ 1 \in attached' /\ fault' = "none"
                         /\ InOrder(queue', down'[1], up'[1])
  BY DEF FirstOK
<1> DEFINE Before ==
      /\ rs[1] \in {"unused", "connecting"} =>
           cur = None /\ ~ closeDue /\ queue = <<>> /\ fault = "none"
      /\ rs[1] = "connecting" => 1 \in attached
      /\ rs[1] = "open" =>
           /\ cur = 1 /\ ~ closeDue /\ 1 \in attached /\ fault = "none"
           /\ InOrder(queue, down[1], up[1])
    After1 ==
      /\ rs'[1] \in {"unused", "connecting"} =>
           cur' = None /\ ~ closeDue' /\ queue' = <<>> /\ fault' = "none"
      /\ rs'[1] = "connecting" => 1 \in attached'
      /\ rs'[1] = "open" =>
           /\ cur' = 1 /\ ~ closeDue' /\ 1 \in attached' /\ fault' = "none"
           /\ InOrder(queue', down'[1], up'[1])
<1>1. (\A s \in Sockets \ {1} : rs[s] = "unused") => Before
  BY <1>0 DEF FirstOK
<1>2. ASSUME Reconnect
      PROVE  /\ Before /\ rs[1] = "unused" /\ rs'[1] = "connecting"
             /\ cur' = None /\ attached' = (attached \ {cur}) \cup {1}
  <2>1. PICK v \in Sockets : /\ rs[v] = "unused" /\ rs' = [CloseCurrent EXCEPT ![v] = "connecting"]
                             /\ attached' = (attached \ {cur}) \cup {v} /\ cur' = None
    BY <1>2 DEF Reconnect
  <2>2. rs'[v] = "connecting"
    BY <2>1 DEF CloseCurrent
  <2>3. v = 1
    BY <2>2
  <2>4. \A s \in Sockets \ {1} : rs[s] = "unused"
    BY <2>1, <2>3 DEF CloseCurrent
  <2> QED BY <1>1, <2>1, <2>2, <2>3, <2>4
<1>3. ASSUME NEW x \in Subs, Subscribe(x) PROVE After1
  <2>1. UNCHANGED <<closeDue, fault, down>>
    BY <1>3 DEF Subscribe
  <2>2. CASE Wanted = {}
    <3>1. Reconnect /\ UNCHANGED queue
      BY <1>3, <2>2 DEF Subscribe
    <3> QED BY <1>2, <2>1, <3>1
  <2>3. CASE Wanted # {}
    <3>1. UNCHANGED <<cur, rs, attached>>
          /\ (UNCHANGED <<queue, up>> \/ SendSubscribe(TRUE, TargetOf[x]))
      BY <1>3, <2>3 DEF Subscribe
    <3>2. Before
      BY <1>1, <3>1
    <3>3. TargetOf[x] \in Targets
      BY <1>0, ActiveOf
    <3>4. CASE UNCHANGED <<queue, up>>
      BY <2>1, <3>1, <3>2, <3>4
    <3>5. CASE SendSubscribe(TRUE, TargetOf[x])
      <4>1. cur = None => UNCHANGED <<queue, up>>
        BY <3>5 DEF SendSubscribe
      <4>2. rs[1] = "open" => InOrder(queue', down'[1], up'[1])
        BY <1>0, <2>1, <3>2, <3>3, <3>5, FirstSent
      <4> QED BY <2>1, <3>1, <3>2, <4>1, <4>2
    <3> QED BY <3>1, <3>4, <3>5
  <2> QED BY <2>2, <2>3
<1>4. ASSUME NEW x \in Subs, Unsubscribe(x) PROVE After1
  <2>1. UNCHANGED <<closeDue, fault, down>>
        /\ (UNCHANGED <<queue, up>> \/ SendSubscribe(FALSE, TargetOf[x]))
    BY <1>4 DEF Unsubscribe
  <2>2. \/ rs' = CloseCurrent /\ attached' = attached \ {cur} /\ cur' = None
        \/ UNCHANGED <<rs, attached, cur>>
    BY <1>4 DEF Unsubscribe
  <2>3. Before
    BY <1>1, <2>2 DEF CloseCurrent
  <2>4. TargetOf[x] \in Targets
    BY <1>0, ActiveOf
  <2>5. cur = None => UNCHANGED <<queue, up>>
    BY <2>1 DEF SendSubscribe
  <2>6. CASE rs' = CloseCurrent /\ attached' = attached \ {cur} /\ cur' = None
    <3>1. rs'[1] = IF cur = 1 /\ rs[1] = "open" THEN "closing" ELSE rs[1]
      BY <1>0, <2>6 DEF CloseCurrent
    <3> QED BY <1>0, <2>1, <2>3, <2>5, <2>6, <3>1
  <2>7. CASE UNCHANGED <<rs, attached, cur>>
    <3>1. ASSUME rs[1] = "open" PROVE InOrder(queue', down'[1], up'[1])
      <4>1. CASE UNCHANGED <<queue, up>>
        BY <2>1, <2>3, <3>1, <4>1
      <4>2. CASE SendSubscribe(FALSE, TargetOf[x])
        BY <1>0, <2>1, <2>3, <2>4, <3>1, <4>2, FirstSent
      <4> QED BY <2>1, <4>1, <4>2
    <3> QED BY <2>1, <2>3, <2>5, <2>7, <3>1
  <2> QED BY <2>2, <2>6, <2>7
<1>5. ASSUME UserReconnects PROVE After1
  BY <1>2, <1>5 DEF UserReconnects
<1>6. ASSUME UserCloses PROVE After1
  <2>1. cur \in Sockets /\ rs[cur] = "open" /\ rs' = [rs EXCEPT ![cur] = "closing"]
    BY <1>0, <1>6 DEF UserCloses, TypeOK
  <2>2. cur = 1 /\ rs'[1] = "closing"
    BY <1>0, <2>1 DEF TypeOK
  <2> QED BY <2>2
<1>7. ASSUME CloseDone PROVE After1
  <2>1. closeDue /\ UNCHANGED rs
    BY <1>7 DEF CloseDone
  <2>2. rs[1] \notin {"unused", "connecting", "open"}
    BY <1>1, <2>1
  <2> QED BY <2>1, <2>2
<1>8. ASSUME NEW s \in Sockets, Opened(s) PROVE After1
  <2>1. rs[s] = "connecting" /\ rs' = [rs EXCEPT ![s] = "open"] /\ cur' = s
        /\ UNCHANGED <<attached, closeDue, fault, down>>
    BY <1>8 DEF Opened
  <2>2. s = 1 /\ rs'[1] = "open"
    BY <1>0, <2>1 DEF TypeOK
  <2>3. Before
    BY <1>0, <1>1, <2>1, <2>2 DEF TypeOK
  <2>4. PICK order \in SetToSeqs(Wanted) :
           /\ queue' = queue \o [i \in DOMAIN order |-> [sub |-> TRUE, target |-> order[i]]]
           /\ up' = [up EXCEPT ![s] = [i \in DOMAIN order |-> [sub |-> TRUE, target |-> order[i]]]]
    BY <1>8 DEF Opened
  <2> DEFINE reqs == [i \in DOMAIN order |-> [sub |-> TRUE, target |-> order[i]]]
  <2>5. reqs \in Seq(Requests)
    <3>1. IsFiniteSet(Wanted) /\ Wanted \subseteq Targets
      BY <1>0, ActiveOf, WantedFinite
    <3> QED BY <3>1, ServeAll
  <2>6. queue = <<>> /\ down[1] = <<>> /\ up'[1] = reqs /\ queue' = queue \o reqs
    BY <1>0, <2>1, <2>2, <2>3, <2>4 DEF TypeOK, UnopenedOK
  <2> HIDE DEF reqs
  <2>7. InOrder(queue', down'[1], up'[1])
    BY <2>1, <2>5, <2>6, InOrderOpened
  <2> QED BY <2>1, <2>2, <2>3, <2>7
<1>9. ASSUME NEW s \in Sockets, Closed(s) PROVE After1
  <2>1. rs[s] # "unused" /\ rs' = [rs EXCEPT ![s] = "closed"]
    BY <1>9 DEF Closed
  <2>2. rs'[s] = "closed"
    BY <1>0, <2>1 DEF TypeOK
  <2>3. s = 1
    BY <2>2
  <2> QED BY <2>2, <2>3
<1>10. ASSUME NEW s \in Sockets, Reply(s) PROVE After1
  <2>1. down[s] # <<>> /\ down' = [down EXCEPT ![s] = Tail(@)]
        /\ UNCHANGED <<cur, rs, attached, closeDue, up>>
    BY <1>10 DEF Reply
  <2>2. Before /\ s = 1 /\ rs[1] \notin {"unused", "connecting"}
    BY <1>0, <1>1, <2>1 DEF UnopenedOK
  <2>3. CASE rs[1] = "open"
    <3>1. InOrder(queue, down[1], up[1]) /\ 1 \in attached /\ fault = "none"
      BY <2>2, <2>3
    <3>2. queue \in Seq(Requests) /\ up[1] \in Seq(Requests) /\ down[1] \in Seq(Replies)
      BY <1>0 DEF TypeOK
    <3>3. /\ queue # <<>> /\ (Head(queue).target \in Head(down[1])) = Head(queue).sub
          /\ InOrder(Tail(queue), Tail(down[1]), up[1])
      BY <2>1, <2>2, <3>1, <3>2, InOrderReplied
    <3>4. queue' = Tail(queue) /\ fault' = "none"
      BY <1>10, <2>2, <3>1, <3>3 DEF Reply, Expected
    <3>5. down'[1] = Tail(down[1])
      BY <1>0, <2>1, <2>2 DEF TypeOK
    <3> QED BY <2>1, <2>2, <2>3, <3>3, <3>4, <3>5
  <2>4. CASE rs[1] # "open"
    BY <2>1, <2>2, <2>4
  <2> QED BY <2>3, <2>4
<1>11. ASSUME NEW s \in Sockets, Serve(s) PROVE After1
  <2> DEFINE r == Head(up[s])
             a == IF r.sub /\ r.target \in Invalid THEN {r.target} ELSE After(server[s], r)
  <2>1. up[s] # <<>> /\ up' = [up EXCEPT ![s] = Tail(@)]
        /\ down' = [down EXCEPT ![s] = Append(@, a)]
        /\ UNCHANGED <<cur, rs, attached, queue, closeDue, fault>>
    BY <1>11 DEF Serve
  <2>2. Before /\ s = 1 /\ rs[1] \notin {"unused", "connecting"}
    BY <1>0, <1>1, <2>1 DEF UnopenedOK
  <2>3. CASE rs[1] = "open"
    <3>1. InOrder(queue, down[1], up[1])
      BY <2>2, <2>3
    <3>2. queue \in Seq(Requests) /\ up[1] \in Seq(Requests) /\ down[1] \in Seq(Replies)
          /\ server[1] \subseteq Targets
      BY <1>0 DEF TypeOK
    <3>3. r \in Requests
      BY <2>1, <2>2, <3>2, HeadTailProperties
    <3>4. a \in Replies /\ (r.target \in a) = r.sub
      <4> HIDE DEF r
      <4>1. r.target \in Targets /\ r.sub \in BOOLEAN
        BY <3>3 DEF Requests
      <4> QED BY <2>2, <3>2, <4>1 DEF Replies, After
    <3>5. down'[1] = Append(down[1], a) /\ up'[1] = Tail(up[1])
      BY <1>0, <2>1, <2>2 DEF TypeOK
    <3>6. InOrder(queue, Append(down[1], a), Tail(up[1]))
      BY <2>1, <2>2, <3>1, <3>2, <3>4, InOrderServed
    <3> QED BY <2>1, <2>2, <2>3, <3>5, <3>6
  <2>4. CASE rs[1] # "open"
    BY <2>1, <2>2, <2>4
  <2> QED BY <2>3, <2>4
<1>12. ASSUME UNCHANGED vars PROVE After1
  BY <1>1, <1>12 DEF vars
<1> QED BY <1>3, <1>4, <1>5, <1>6, <1>7, <1>8, <1>9, <1>10, <1>11, <1>12 DEF Next

-----------------------------------------------------------------------------
(* The theorems *)

\* The inductive invariant holds in every reachable state.
THEOREM SubscriberInvariance == Spec => []SubscriberInv
<1>1. Init => SubscriberInv
  <2> SUFFICES ASSUME Init PROVE SubscriberInv
    OBVIOUS
  <2>1. Active = {} /\ IsFiniteSet(Active)
    BY FS_EmptySet DEF Init, Active
  <2>2. TypeOK
    <3>1. <<>> \in Seq(Requests) /\ <<>> \in Seq(Replies)
      OBVIOUS
    <3> QED BY <3>1 DEF Init, TypeOK
  <2>3. 1 \in Sockets
    BY SubscriberAssumption DEF Sockets
  <2>4. UnopenedOK /\ ServerOK /\ AskedForWanted /\ LeftBehindOK
    BY <2>1 DEF Init, UnopenedOK, ServerOK, AskedForWanted, LeftBehindOK
  <2>5. FirstOK
    BY <2>3 DEF Init, FirstOK
  <2> QED BY <2>1, <2>2, <2>4, <2>5 DEF SubscriberInv
<1>2. SubscriberInv /\ [Next]_vars => SubscriberInv'
  <2> SUFFICES ASSUME SubscriberInv, [Next]_vars PROVE SubscriberInv'
    OBVIOUS
  <2>1. TypeOK'
    BY TypesStep DEF SubscriberInv
  <2>2. AskedForWanted' /\ FirstOK'
    BY <2>1, AskedStep, FirstStep
  <2>3. IsFiniteSet(Active') /\ UnopenedOK' /\ ServerOK' /\ LeftBehindOK'
    BY <2>1, FiniteStep, UnopenedStep, ServerStep, LeftBehindStep DEF SubscriberInv
  <2> QED BY <2>1, <2>2, <2>3 DEF SubscriberInv
<1> QED BY <1>1, <1>2, PTL DEF Spec

\* The middleware is asked over the socket in use for what the subscribers want,
\* and replies are taken for those of their own requests until a second socket is
\* opened (MiddlewareSubscriber.ts:88-125 and 136-146).
THEOREM SocketsStayInStep == Spec => []SocketInStep
<1>1. SubscriberInv => SocketInStep
  BY SubscriberAssumption
  DEF SubscriberInv, SocketInStep, FirstOK, FirstSocketInOrder, InOrder
<1> QED BY <1>1, SubscriberInvariance, PTL

\* No subscription is left without a socket unless its subscriber was told, or
\* subscribed when the others already had been (MiddlewareSubscriber.ts:104-107 and
\* 136-146).
THEOREM NoneLeftBehind == Spec => []NobodyLeftBehind
<1>1. SubscriberInv => NobodyLeftBehind
  BY DEF SubscriberInv, LeftBehindOK, NobodyLeftBehind
<1> QED BY <1>1, SubscriberInvariance, PTL

=============================================================================
