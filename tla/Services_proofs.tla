---------------------------- MODULE Services_proofs ----------------------------
(***************************************************************************)
(* Theorems about the services of a node, each of them on its own: the dry *)
(* runs, the requests of a node, the sessions of an oracle, and the pages  *)
(* of the middleware, for any number of calls, nodes, queries, sessions    *)
(* and items.                                                              *)
(***************************************************************************)
EXTENDS Oracle, DryRun, NodeClient, MiddlewarePages, QueueLemmas, FiniteSetTheorems

-----------------------------------------------------------------------------
(* Dry runs *)

DryRunTypeOK ==
    /\ onNode \in [Calls -> Nodes \cup {Unset}]
    /\ top \in [Calls -> Tops \cup {Unset}]
    /\ state \in [Calls -> {"idle", "pending", "failed"} \cup Nodes]
    /\ batches \in [Tops -> Seq(Calls)]
    /\ timers \subseteq Tops \X Nodes
    /\ handlers \subseteq [rs : Seq(Calls), node : Nodes, at : {"block", "run"}]

\* The batches that wait are those with a timeout, and each has one.
TimersOK == \A k \in Tops :
    \/ batches[k] = <<>> /\ \A n \in Nodes : <<k, n>> \notin timers
    \/ batches[k] # <<>> /\ \E n \in Nodes : \A m \in Nodes : <<k, m>> \in timers <=> m = n

\* A call waits in the batch of its own block, or in one handler.
PlacesOK ==
    /\ \A k \in Tops : \A c \in Elements(batches[k]) : state[c] = "pending" /\ top[c] = k
    /\ \A h \in handlers : \A c \in Elements(h.rs) :
           /\ state[c] = "pending"
           /\ \A k \in Tops : c \notin Elements(batches[k])
           /\ \A g \in handlers : c \in Elements(g.rs) => g = h
    /\ \A c \in Calls : state[c] = "pending" =>
           (\E k \in Tops : c \in Elements(batches[k])) \/ \E h \in handlers : c \in Elements(h.rs)

DryRunInv == DryRunTypeOK /\ TimersOK /\ PlacesOK /\ SameTop

\* The elements of a sequence are of its set.
LEMMA ElementsIn ==
    ASSUME NEW S, NEW s \in Seq(S)
    PROVE  Elements(s) \subseteq S /\ Elements(<<>>) = {}
<1>1. Len(s) \in Nat /\ DOMAIN s = 1 .. Len(s) /\ \A i \in 1 .. Len(s) : s[i] \in S
  BY ElementOfSeq, LenProperties
<1> QED BY <1>1 DEF Elements

\* One more element at the end is one more in the set.
LEMMA ElementsAppend ==
    ASSUME NEW S, NEW s \in Seq(S), NEW x \in S
    PROVE  Elements(Append(s, x)) = Elements(s) \cup {x}
<1>1. Len(s) \in Nat /\ DOMAIN s = 1 .. Len(s) /\ \A i \in 1 .. Len(s) : s[i] \in S
  BY ElementOfSeq, LenProperties
<1>2. /\ Append(s, x) \in Seq(S) /\ DOMAIN Append(s, x) = 1 .. Len(s) + 1
      /\ \A i \in 1 .. Len(s) : Append(s, x)[i] = s[i]
      /\ Append(s, x)[Len(s) + 1] = x
  BY AppendProperties, LenProperties
<1> QED BY <1>1, <1>2 DEF Elements

\* The elements of a sequence of one.
LEMMA ElementsSingle ==
    ASSUME NEW S, NEW x \in S
    PROVE  Elements(<<x>>) = {x} /\ <<x>> \in Seq(S)
BY DEF Elements

\* The invariant holds before the first call,
LEMMA DryRunInit == DInit => DryRunInv
<1> SUFFICES ASSUME DInit PROVE DryRunInv
  OBVIOUS
<1>1. \A k \in Tops : batches[k] = <<>> /\ Elements(batches[k]) = {}
  BY DEF DInit, Elements
<1> QED
  BY <1>1 DEF DInit, DryRunInv, DryRunTypeOK, TimersOK, PlacesOK, SameTop

\* What a call that is made leaves in order, before it is put into a batch
\* or a handler.
LEMMA CallMade ==
    ASSUME DryRunInv, NEW c \in Calls, Made(c)
    PROVE  /\ state[c] = "idle" /\ state' = [state EXCEPT ![c] = "pending"]
           /\ \A d \in Calls \ {c} : top'[d] = top[d]
           /\ onNode'[c] \in Nodes /\ top'[c] \in Tops
           /\ onNode' \in [Calls -> Nodes \cup {Unset}] /\ top' \in [Calls -> Tops \cup {Unset}]
           /\ \A k \in Tops : c \notin Elements(batches[k])
           /\ \A h \in handlers : c \notin Elements(h.rs)
BY DEF DryRunInv, DryRunTypeOK, PlacesOK, Made

\* A call that is not combined is a request of its own.
LEMMA ImmediateStep ==
    ASSUME DryRunInv, NEW c \in Calls, Immediate(c)
    PROVE  DryRunInv'
<1> DEFINE h == Handler(<<c>>, onNode'[c], top')
<1>0. Made(c) /\ handlers' = handlers \cup {h} /\ UNCHANGED <<batches, timers>>
  BY DEF Immediate
<1>1. /\ state[c] = "idle" /\ state' = [state EXCEPT ![c] = "pending"]
      /\ \A d \in Calls \ {c} : top'[d] = top[d]
      /\ onNode'[c] \in Nodes /\ top'[c] \in Tops
      /\ onNode' \in [Calls -> Nodes \cup {Unset}] /\ top' \in [Calls -> Tops \cup {Unset}]
      /\ \A k \in Tops : c \notin Elements(batches[k])
      /\ \A g \in handlers : c \notin Elements(g.rs)
  BY <1>0, CallMade
<1>2. /\ h \in [rs : Seq(Calls), node : Nodes, at : {"block", "run"}]
      /\ Elements(h.rs) = {c}
  <2>1. <<c>> \in Seq(Calls) /\ Elements(<<c>>) = {c}
    BY ElementsSingle
  <2>2. h.rs = <<c>> /\ h.node = onNode'[c] /\ h.at \in {"block", "run"}
        /\ h = [rs |-> h.rs, node |-> h.node, at |-> h.at]
    BY DEF Handler
  <2> HIDE DEF h
  <2> QED BY <1>1, <2>1, <2>2
<1> HIDE DEF h
<1>3. DryRunTypeOK'
  BY <1>0, <1>1, <1>2 DEF DryRunInv, DryRunTypeOK
<1>4. TimersOK'
  BY <1>0 DEF DryRunInv, TimersOK
<1>5. /\ \A k \in Tops : Elements(batches[k]) \subseteq Calls
      /\ \A g \in handlers : Elements(g.rs) \subseteq Calls
  <2>1. \A s \in Seq(Calls) : Elements(s) \subseteq Calls
    BY ElementsIn
  <2> QED BY <2>1 DEF DryRunInv, DryRunTypeOK
<1>6. PlacesOK'
  <2>1. \A k \in Tops : \A d \in Elements(batches'[k]) : state'[d] = "pending" /\ top'[d] = k
    BY <1>0, <1>1, <1>5 DEF DryRunInv, DryRunTypeOK, PlacesOK
  <2>2. \A g \in handlers' : \A d \in Elements(g.rs) :
           /\ state'[d] = "pending"
           /\ \A k \in Tops : d \notin Elements(batches'[k])
           /\ \A i \in handlers' : d \in Elements(i.rs) => i = g
    BY <1>0, <1>1, <1>2, <1>5 DEF DryRunInv, DryRunTypeOK, PlacesOK
  <2>3. \A d \in Calls : state'[d] = "pending" =>
           (\E k \in Tops : d \in Elements(batches'[k])) \/ \E g \in handlers' : d \in Elements(g.rs)
    BY <1>0, <1>1, <1>2, <1>5 DEF DryRunInv, DryRunTypeOK, PlacesOK
  <2> QED BY <2>1, <2>2, <2>3 DEF PlacesOK
<1>7. SameTop'
  BY <1>0, <1>1, <1>2, <1>5 DEF DryRunInv, SameTop
<1> QED BY <1>3, <1>4, <1>6, <1>7 DEF DryRunInv

\* A combined call joins the batch of its height, or begins it.
LEMMA CombinedStep ==
    ASSUME DryRunInv, NEW c \in Calls, Combined(c)
    PROVE  DryRunInv'
<1> DEFINE k == top'[c]
<1>1. /\ state[c] = "idle" /\ state' = [state EXCEPT ![c] = "pending"]
      /\ \A d \in Calls \ {c} : top'[d] = top[d]
      /\ onNode'[c] \in Nodes /\ k \in Tops
      /\ onNode' \in [Calls -> Nodes \cup {Unset}] /\ top' \in [Calls -> Tops \cup {Unset}]
      /\ \A l \in Tops : c \notin Elements(batches[l])
      /\ \A g \in handlers : c \notin Elements(g.rs)
  BY CallMade DEF Combined
<1>2. /\ batches' = [batches EXCEPT ![k] = Append(@, c)]
      /\ timers' = IF batches[k] = <<>> THEN timers \cup {<<k, onNode'[c]>>} ELSE timers
      /\ handlers' = handlers
  BY DEF Combined, Key
<1> HIDE DEF k
<1>3. /\ Append(batches[k], c) \in Seq(Calls) /\ Append(batches[k], c) # <<>>
      /\ Elements(Append(batches[k], c)) = Elements(batches[k]) \cup {c}
      /\ \A l \in Tops : Elements(batches[l]) \subseteq Calls
      /\ \A g \in handlers : Elements(g.rs) \subseteq Calls
  <2>1. \A l \in Tops : batches[l] \in Seq(Calls)
    BY DEF DryRunInv, DryRunTypeOK
  <2>2. \A g \in handlers : g.rs \in Seq(Calls)
    BY DEF DryRunInv, DryRunTypeOK
  <2>3. \A s \in Seq(Calls) : Elements(s) \subseteq Calls
    BY ElementsIn
  <2>4. /\ Append(batches[k], c) \in Seq(Calls) /\ Append(batches[k], c) # <<>>
        /\ Elements(Append(batches[k], c)) = Elements(batches[k]) \cup {c}
    <3>1. batches[k] \in Seq(Calls)
      BY <1>1, <2>1
    <3>2. Elements(Append(batches[k], c)) = Elements(batches[k]) \cup {c}
      BY <3>1, ElementsAppend
    <3> QED BY <3>1, <3>2, AppendProperties
  <2> QED BY <2>1, <2>2, <2>3, <2>4
<1>4. /\ DOMAIN batches = Tops
      /\ \A l \in Tops : batches'[l] = IF l = k THEN Append(batches[k], c) ELSE batches[l]
      /\ \A l \in Tops : Elements(batches'[l]) =
             IF l = k THEN Elements(batches[k]) \cup {c} ELSE Elements(batches[l])
  BY <1>2, <1>3 DEF DryRunInv, DryRunTypeOK
<1>5. DryRunTypeOK'
  BY <1>1, <1>2, <1>3 DEF DryRunInv, DryRunTypeOK
<1>6. TimersOK'
  <2> SUFFICES ASSUME NEW l \in Tops
               PROVE  \/ batches'[l] = <<>> /\ \A n \in Nodes : <<l, n>> \notin timers'
                      \/ /\ batches'[l] # <<>>
                         /\ \E n \in Nodes : \A m \in Nodes : <<l, m>> \in timers' <=> m = n
    BY DEF TimersOK
  <2>1. CASE l # k
    BY <1>2, <1>4, <2>1 DEF DryRunInv, TimersOK
  <2>2. CASE l = k /\ batches[k] # <<>>
    BY <1>1, <1>2, <1>3, <1>4, <2>2 DEF DryRunInv, TimersOK
  <2>3. CASE l = k /\ batches[k] = <<>>
    <3>1. timers' = timers \cup {<<k, onNode'[c]>>} /\ \A n \in Nodes : <<k, n>> \notin timers
      BY <1>1, <1>2, <2>3 DEF DryRunInv, TimersOK
    <3>2. \A m \in Nodes : <<k, m>> \in timers' <=> m = onNode'[c]
      BY <3>1
    <3> QED BY <1>1, <1>3, <1>4, <2>3, <3>2
  <2> QED BY <2>1, <2>2, <2>3
<1>7. PlacesOK'
  <2>1. \A l \in Tops : \A d \in Elements(batches'[l]) : state'[d] = "pending" /\ top'[d] = l
    BY <1>1, <1>3, <1>4 DEF DryRunInv, DryRunTypeOK, PlacesOK, k
  <2>2. \A g \in handlers' : \A d \in Elements(g.rs) :
           /\ state'[d] = "pending"
           /\ \A l \in Tops : d \notin Elements(batches'[l])
           /\ \A i \in handlers' : d \in Elements(i.rs) => i = g
    BY <1>1, <1>2, <1>3, <1>4 DEF DryRunInv, DryRunTypeOK, PlacesOK
  <2>3. \A d \in Calls : state'[d] = "pending" =>
           (\E l \in Tops : d \in Elements(batches'[l])) \/ \E g \in handlers' : d \in Elements(g.rs)
    BY <1>1, <1>2, <1>4 DEF DryRunInv, DryRunTypeOK, PlacesOK
  <2> QED BY <2>1, <2>2, <2>3 DEF PlacesOK
<1>8. SameTop'
  BY <1>1, <1>2, <1>3 DEF DryRunInv, SameTop
<1> QED BY <1>5, <1>6, <1>7, <1>8 DEF DryRunInv

\* The batch moves, whole, from the map into a handler.
LEMMA TimeOutStep ==
    ASSUME DryRunInv, NEW k \in Tops, NEW n \in Nodes, TimeOut(k, n)
    PROVE  DryRunInv'
<1> DEFINE h == Handler(batches[k], n, top)
<1>1. /\ <<k, n>> \in timers /\ timers' = timers \ {<<k, n>>}
      /\ batches[k] # <<>> /\ batches' = [batches EXCEPT ![k] = <<>>]
      /\ handlers' = handlers \cup {h}
      /\ UNCHANGED <<onNode, top, state>>
  BY DEF TimeOut
<1>2. h.rs = batches[k] /\ h \in [rs : Seq(Calls), node : Nodes, at : {"block", "run"}]
  BY DEF Handler, DryRunInv, DryRunTypeOK
<1> HIDE DEF h
<1>3. /\ \A l \in Tops : Elements(batches[l]) \subseteq Calls
      /\ \A g \in handlers : Elements(g.rs) \subseteq Calls
      /\ Elements(<<>>) = {}
  <2>1. \A l \in Tops : batches[l] \in Seq(Calls)
    BY DEF DryRunInv, DryRunTypeOK
  <2>2. \A g \in handlers : g.rs \in Seq(Calls)
    BY DEF DryRunInv, DryRunTypeOK
  <2>3. \A s \in Seq(Calls) : Elements(s) \subseteq Calls
    BY ElementsIn
  <2>4. Elements(<<>>) = {}
    BY DEF Elements
  <2> QED BY <2>1, <2>2, <2>3, <2>4
<1>4. /\ \A l \in Tops : batches'[l] = IF l = k THEN <<>> ELSE batches[l]
      /\ \A l \in Tops : Elements(batches'[l]) = IF l = k THEN {} ELSE Elements(batches[l])
  BY <1>1, <1>3 DEF DryRunInv, DryRunTypeOK
<1>5. DryRunTypeOK'
  <2>1. <<>> \in Seq(Calls)
    OBVIOUS
  <2> QED BY <1>1, <1>2, <2>1 DEF DryRunInv, DryRunTypeOK
<1>6. TimersOK'
  <2> SUFFICES ASSUME NEW l \in Tops
               PROVE  \/ batches'[l] = <<>> /\ \A m \in Nodes : <<l, m>> \notin timers'
                      \/ /\ batches'[l] # <<>>
                         /\ \E i \in Nodes : \A m \in Nodes : <<l, m>> \in timers' <=> m = i
    BY DEF TimersOK
  <2>1. CASE l # k
    BY <1>1, <1>4, <2>1 DEF DryRunInv, TimersOK
  <2>2. CASE l = k
    BY <1>1, <1>4, <2>2 DEF DryRunInv, TimersOK
  <2> QED BY <2>1, <2>2
<1>7. PlacesOK'
  <2>1. \A l \in Tops : \A d \in Elements(batches'[l]) : state'[d] = "pending" /\ top'[d] = l
    BY <1>1, <1>4 DEF DryRunInv, PlacesOK
  <2>2. \A g \in handlers' : \A d \in Elements(g.rs) :
           /\ state'[d] = "pending"
           /\ \A l \in Tops : d \notin Elements(batches'[l])
           /\ \A i \in handlers' : d \in Elements(i.rs) => i = g
    <3>1. \A d \in Elements(h.rs) : /\ state[d] = "pending" /\ top[d] = k
                                   /\ \A g \in handlers : d \notin Elements(g.rs)
      BY <1>2 DEF DryRunInv, PlacesOK
    <3>2. \A d \in Elements(h.rs) : \A l \in Tops : d \notin Elements(batches'[l])
      BY <1>4, <3>1 DEF DryRunInv, PlacesOK
    <3> QED BY <1>1, <1>4, <3>1, <3>2 DEF DryRunInv, PlacesOK
  <2>3. \A d \in Calls : state'[d] = "pending" =>
           (\E l \in Tops : d \in Elements(batches'[l])) \/ \E g \in handlers' : d \in Elements(g.rs)
    BY <1>1, <1>2, <1>4 DEF DryRunInv, PlacesOK
  <2> QED BY <2>1, <2>2, <2>3 DEF PlacesOK
<1>8. SameTop'
  BY <1>1, <1>2 DEF DryRunInv, SameTop, PlacesOK
<1> QED BY <1>5, <1>6, <1>7, <1>8 DEF DryRunInv

\* Settling the calls of a handler, and them alone, ends it.
LEMMA SettleStep ==
    ASSUME DryRunInv, NEW h \in handlers, NEW to, Settle(h, to),
           \A c \in Elements(h.rs) : to[c] \in {"failed"} \cup Nodes
    PROVE  DryRunInv'
<1>1. /\ state' = [c \in Calls |-> IF c \in Elements(h.rs) THEN to[c] ELSE state[c]]
      /\ handlers' = handlers \ {h}
      /\ UNCHANGED <<onNode, top, batches, timers>>
  BY DEF Settle
<1>2. /\ \A l \in Tops : Elements(batches[l]) \subseteq Calls
      /\ \A g \in handlers : Elements(g.rs) \subseteq Calls
  <2>1. \A l \in Tops : batches[l] \in Seq(Calls)
    BY DEF DryRunInv, DryRunTypeOK
  <2>2. \A g \in handlers : g.rs \in Seq(Calls)
    BY DEF DryRunInv, DryRunTypeOK
  <2>3. \A s \in Seq(Calls) : Elements(s) \subseteq Calls
    BY ElementsIn
  <2> QED BY <2>1, <2>2, <2>3
<1>3. \A c \in Calls : state'[c] = "pending" <=> state[c] = "pending" /\ c \notin Elements(h.rs)
  BY <1>1, DryRunAssumption
<1>4. DryRunTypeOK'
  BY <1>1, <1>2 DEF DryRunInv, DryRunTypeOK
<1>5. TimersOK' /\ SameTop'
  BY <1>1 DEF DryRunInv, TimersOK, SameTop
<1>6. PlacesOK'
  <2>1. \A l \in Tops : \A d \in Elements(batches'[l]) : state'[d] = "pending" /\ top'[d] = l
    BY <1>1, <1>2, <1>3 DEF DryRunInv, PlacesOK
  <2>2. \A g \in handlers' : \A d \in Elements(g.rs) :
           /\ state'[d] = "pending"
           /\ \A l \in Tops : d \notin Elements(batches'[l])
           /\ \A i \in handlers' : d \in Elements(i.rs) => i = g
    BY <1>1, <1>2, <1>3 DEF DryRunInv, PlacesOK
  <2>3. \A d \in Calls : state'[d] = "pending" =>
           (\E l \in Tops : d \in Elements(batches'[l])) \/ \E g \in handlers' : d \in Elements(g.rs)
    BY <1>1, <1>3 DEF DryRunInv, PlacesOK
  <2> QED BY <2>1, <2>2, <2>3 DEF PlacesOK
<1> QED BY <1>4, <1>5, <1>6 DEF DryRunInv

\* A batch is sent: its block is read, then the node answers all of its calls.
LEMMA RunsStep ==
    ASSUME DryRunInv, NEW h \in handlers, Runs(h)
    PROVE  DryRunInv'
<1>0. /\ Elements(h.rs) \subseteq Calls
      /\ h \in [rs : Seq(Calls), node : Nodes, at : {"block", "run"}]
  BY ElementsIn DEF DryRunInv, DryRunTypeOK
<1>1. CASE BlockRead(h)
  <2> DEFINE g == [h EXCEPT !.at = "run"]
  <2>1. /\ g \in [rs : Seq(Calls), node : Nodes, at : {"block", "run"}] /\ g.rs = h.rs
        /\ handlers' = (handlers \ {h}) \cup {g}
        /\ UNCHANGED <<onNode, top, state, batches, timers>>
    BY <1>0, <1>1 DEF BlockRead
  <2> HIDE DEF g
  <2>2. DryRunTypeOK' /\ TimersOK' /\ SameTop'
    BY <2>1 DEF DryRunInv, DryRunTypeOK, TimersOK, SameTop
  <2>3. PlacesOK'
    BY <2>1 DEF DryRunInv, PlacesOK
  <2> QED BY <2>2, <2>3 DEF DryRunInv
<1>2. CASE RequestFails(h)
  <2>1. \A c \in Elements(h.rs) : [c2 \in Calls |-> "failed"][c] \in {"failed"} \cup Nodes
    BY <1>0
  <2> QED BY <1>2, <2>1, SettleStep DEF RequestFails
<1>3. CASE Ran(h)
  <2>1. PICK to \in [Elements(h.rs) -> {"failed", h.node}] : Settle(h, to)
    BY <1>3 DEF Ran
  <2>2. \A c \in Elements(h.rs) : to[c] \in {"failed"} \cup Nodes
    BY <1>0, <2>1
  <2> QED BY <2>1, <2>2, SettleStep
<1> QED BY <1>1, <1>2, <1>3 DEF Runs

\* and no step breaks it.
LEMMA DryRunStep == DryRunInv /\ [DNext]_dvars => DryRunInv'
<1> SUFFICES ASSUME DryRunInv, [DNext]_dvars PROVE DryRunInv'
  OBVIOUS
<1>1. CASE UNCHANGED dvars
  BY <1>1 DEF dvars, DryRunInv, DryRunTypeOK, TimersOK, PlacesOK, SameTop
<1> QED BY <1>1, ImmediateStep, CombinedStep, TimeOutStep, RunsStep DEF DNext

\* No timeout finds an empty batch, no batch waits without a timeout, and no
\* call is in two requests or lost between them (chain.ts:311-364).
THEOREM BatchesKeepOrder == DSpec => []BatchesInOrder
<1>1. DryRunInv => BatchesInOrder
  <2> SUFFICES ASSUME DryRunInv PROVE BatchesInOrder
    OBVIOUS
  <2>1. TimersMatchBatches
    <3> SUFFICES ASSUME NEW k \in Tops
                 PROVE  Cardinality({n \in Nodes : <<k, n>> \in timers})
                            = IF batches[k] = <<>> THEN 0 ELSE 1
      BY DEF TimersMatchBatches
    <3>1. CASE batches[k] = <<>>
      <4>1. {n \in Nodes : <<k, n>> \in timers} = {}
        BY <3>1 DEF DryRunInv, TimersOK
      <4> QED BY <3>1, <4>1, FS_EmptySet
    <3>2. CASE batches[k] # <<>>
      <4>1. PICK n \in Nodes : \A m \in Nodes : <<k, m>> \in timers <=> m = n
        BY <3>2 DEF DryRunInv, TimersOK
      <4>2. {m \in Nodes : <<k, m>> \in timers} = {n}
        BY <4>1
      <4>3. Cardinality({n}) = 1
        BY FS_Singleton
      <4> QED BY <3>2, <4>2, <4>3
    <3> QED BY <3>1, <3>2
  <2>2. WaitsInOnePlace
    <3> SUFFICES ASSUME NEW c \in Calls
                 PROVE  Cardinality({k \in Tops : c \in Elements(batches[k])}
                                       \cup {h \in handlers : c \in Elements(h.rs)})
                            = IF state[c] = "pending" THEN 1 ELSE 0
      BY DEF WaitsInOnePlace
    <3> DEFINE places == {k \in Tops : c \in Elements(batches[k])}
                             \cup {h \in handlers : c \in Elements(h.rs)}
    <3>1. CASE state[c] # "pending"
      <4>1. places = {}
        BY <3>1 DEF DryRunInv, PlacesOK
      <4> QED BY <3>1, <4>1, FS_EmptySet
    <3>2. CASE state[c] = "pending"
      <4>1. \E p : places = {p}
        <5>1. CASE \E k \in Tops : c \in Elements(batches[k])
          <6>1. PICK k \in Tops : c \in Elements(batches[k])
            BY <5>1
          <6>2. places = {k}
            BY <6>1 DEF DryRunInv, PlacesOK
          <6> QED BY <6>2
        <5>2. CASE \E h \in handlers : c \in Elements(h.rs)
          <6>1. PICK h \in handlers : c \in Elements(h.rs)
            BY <5>2
          <6>2. places = {h}
            BY <6>1 DEF DryRunInv, PlacesOK
          <6> QED BY <6>2
        <5> QED BY <3>2, <5>1, <5>2 DEF DryRunInv, PlacesOK
      <4>2. PICK p : places = {p}
        BY <4>1
      <4>3. Cardinality({p}) = 1
        BY FS_Singleton
      <4> QED BY <3>2, <4>2, <4>3
    <3> QED BY <3>1, <3>2
  <2> QED BY <2>1, <2>2 DEF BatchesInOrder, DryRunInv
<1> QED BY <1>1, DryRunInit, DryRunStep, PTL DEF DSpec

-----------------------------------------------------------------------------
(* The requests of a node *)

NodeTypeOK ==
    /\ supported \in BOOLEAN /\ upgrades \in Nat
    /\ cachedStatus \in {NoFetch, "good", "bad"}
    /\ stage \in [Requests -> {"idle", "sharing", "checking", "versioning", "checked", "asking",
                               "served", "failed", "unsupported"}]
    /\ waits \in [Requests -> Ids \cup {NoFetch}]
    /\ pending \in [Paths -> Ids \cup {NoFetch}]
    /\ running \subseteq Ids
    /\ hyper \in Requests \cup {NoFetch}

\* pendingGetRequests has the fetches under way, each under its path.
PendingOK ==
    /\ \A id \in running : pending[id[2]] = id
    /\ \A p \in Paths : pending[p] # NoFetch => pending[p] \in running /\ pending[p][2] = p

\* A promise of another call is taken over by calls of _isHyperchain only.
SharingOK == \A r \in Requests : stage[r] = "sharing" => r \in HyperCalls

\* What the node said of its version was so then, and is unless it changed.
StatusOK == cachedStatus = "bad" => ~supported \/ upgrades > 0

NodeInv == NodeTypeOK /\ PendingOK /\ SharingOK /\ StatusOK /\ NobodyWaitsForThePast

\* The invariant holds before the first call,
LEMMA NodeInit == NInit => NodeInv
<1> SUFFICES ASSUME NInit PROVE NodeInv
  OBVIOUS
<1> QED
  BY NodeClientAssumption
  DEF NInit, NodeInv, NodeTypeOK, PendingOK, SharingOK, StatusOK, NobodyWaitsForThePast

\* A request joins the fetch of its path, or begins the only one.
LEMMA GetStep ==
    ASSUME NodeInv, NEW r \in Requests, NEW p \in Paths, Get(r, p), NEW to \in {"versioning", "asking"},
           stage' = [stage EXCEPT ![r] = to], UNCHANGED <<supported, upgrades, cachedStatus, hyper>>
    PROVE  NodeInv'
<1> USE NodeClientAssumption
<1>1. CASE pending[p] # NoFetch
  <2>1. waits' = [waits EXCEPT ![r] = pending[p]] /\ UNCHANGED <<pending, running>>
    BY <1>1 DEF Get
  <2>2. pending[p] \in running
    BY <1>1 DEF NodeInv, PendingOK
  <2> QED
    BY <2>1, <2>2
    DEF NodeInv, NodeTypeOK, PendingOK, SharingOK, StatusOK, NobodyWaitsForThePast
<1>2. CASE pending[p] = NoFetch
  <2> DEFINE id == <<r, p>>
  <2>1. /\ waits' = [waits EXCEPT ![r] = id]
        /\ pending' = [pending EXCEPT ![p] = id] /\ running' = running \cup {id}
    BY <1>2 DEF Get, Starts
  <2>2. id \in Ids /\ id[2] = p /\ id # NoFetch
    BY DEF Ids
  <2> HIDE DEF id
  <2>3. \A a \in running : a[2] # p
    BY <1>2 DEF NodeInv, NodeTypeOK, PendingOK, Ids
  <2>4. NodeTypeOK' /\ SharingOK' /\ StatusOK' /\ NobodyWaitsForThePast'
    BY <2>1, <2>2 DEF NodeInv, NodeTypeOK, SharingOK, StatusOK, NobodyWaitsForThePast
  <2>5. PendingOK'
    BY <2>1, <2>2, <2>3 DEF NodeInv, NodeTypeOK, PendingOK, Ids
  <2> QED BY <2>4, <2>5 DEF NodeInv
<1> QED BY <1>1, <1>2

\* A fetch that ends leaves nobody waiting for it.
LEMMA EndsStep ==
    ASSUME NodeInv, NEW id \in Ids, Ends(id),
           NEW version \in {"checked", "unsupported", "failed"}, NEW asked \in {"served", "failed"},
           Next_Stage(id, version, asked),
           UNCHANGED <<supported, upgrades, waits, hyper>>,
           \/ cachedStatus' = cachedStatus
           \/ cachedStatus' = IF supported THEN "good" ELSE "bad"
    PROVE  NodeInv'
<1> USE NodeClientAssumption
<1>1. /\ id \in running /\ running' = running \ {id}
      /\ pending' = [pending EXCEPT ![id[2]] = NoFetch]
      /\ id[2] \in Paths
  BY DEF Ends, Ids
<1>2. stage' = [r \in Requests |-> IF waits[r] # id THEN stage[r]
                                   ELSE IF stage[r] = "versioning" THEN version
                                   ELSE IF stage[r] = "asking" THEN asked ELSE stage[r]]
  BY DEF Next_Stage
<1>3. NodeTypeOK' /\ StatusOK'
  BY <1>1, <1>2 DEF NodeInv, NodeTypeOK, StatusOK
<1>4. SharingOK'
  BY <1>2 DEF NodeInv, NodeTypeOK, SharingOK
<1>5. PendingOK'
  BY <1>1 DEF NodeInv, NodeTypeOK, PendingOK, Ids
<1>6. NobodyWaitsForThePast'
  BY <1>1, <1>2 DEF NodeInv, NodeTypeOK, NobodyWaitsForThePast
<1> QED BY <1>3, <1>4, <1>5, <1>6 DEF NodeInv

\* and no step breaks it.
LEMMA NodeStep == NodeInv /\ [NNext]_nvars => NodeInv'
<1> SUFFICES ASSUME NodeInv, [NNext]_nvars PROVE NodeInv'
  OBVIOUS
<1> USE NodeClientAssumption
<1>1. CASE UNCHANGED nvars
  BY <1>1 DEF nvars, NodeInv, NodeTypeOK, PendingOK, SharingOK, StatusOK, NobodyWaitsForThePast
<1>2. CASE Upgrade
  BY <1>2 DEF Upgrade, NodeInv, NodeTypeOK, PendingOK, SharingOK, StatusOK, NobodyWaitsForThePast
<1>3. ASSUME NEW r \in Requests, Call(r) PROVE NodeInv'
  BY <1>3 DEF Call, NodeInv, NodeTypeOK, PendingOK, SharingOK, StatusOK, NobodyWaitsForThePast
<1>4. ASSUME NEW r \in Requests, Shares(r) PROVE NodeInv'
  <2>1. stage[hyper] \in {"served", "failed", "unsupported"}
    BY <1>4 DEF Shares, Over
  <2> QED
    BY <1>4, <2>1
    DEF Shares, NodeInv, NodeTypeOK, PendingOK, SharingOK, StatusOK, NobodyWaitsForThePast
<1>5. ASSUME NEW r \in Requests, VersionCheck(r) PROVE NodeInv'
  <2>1. CASE cachedStatus = NoFetch
    BY <1>5, <2>1, GetStep DEF VersionCheck
  <2>2. CASE cachedStatus # NoFetch
    BY <1>5, <2>2
    DEF VersionCheck, NodeInv, NodeTypeOK, PendingOK, SharingOK, StatusOK, NobodyWaitsForThePast
  <2> QED BY <2>1, <2>2
<1>6. ASSUME NEW r \in Requests, Asks(r) PROVE NodeInv'
  BY <1>6, GetStep DEF Asks
<1>7. ASSUME NEW id \in Ids, Retry(id) PROVE NodeInv'
  BY <1>7 DEF Retry, NodeInv, NodeTypeOK, PendingOK, SharingOK, StatusOK, NobodyWaitsForThePast
<1>8. ASSUME NEW id \in Ids, Succeeds(id) PROVE NodeInv'
  BY <1>8, EndsStep DEF Succeeds
<1>9. ASSUME NEW id \in Ids, Fails(id) PROVE NodeInv'
  BY <1>9, EndsStep DEF Fails
<1> QED BY <1>1, <1>2, <1>3, <1>4, <1>5, <1>6, <1>7, <1>8, <1>9 DEF NNext, Goes

\* One fetch is under way for a path, and nobody waits for one that is over
\* (utils/autorest.ts).
THEOREM FetchesKeepOrder == NSpec => []FetchesInOrder
<1>1. NodeInv => FetchesInOrder
  BY NodeClientAssumption DEF NodeInv, PendingOK, FetchesInOrder, OneFetchPerPath, NobodyWaitsForThePast
<1> QED BY <1>1, NodeInit, NodeStep, PTL DEF NSpec

\* A request fails with the fetch it waited for, or because the node told a
\* version that is not supported: never for a failure of the past
\* (Node.ts:81-92).
THEOREM FailuresHurtOnce == NSpec => FailuresAreForgotten
<1> DEFINE Forgotten == \A r \in Requests \ HyperCalls :
           ~Over(r) /\ stage'[r] \in {"failed", "unsupported"} =>
               \/ waits[r] \in running \ running'
               \/ stage'[r] = "unsupported" /\ (~supported \/ upgrades > 0)
<1>1. NodeInv /\ [NNext]_nvars => [Forgotten]_nvars
  <2> SUFFICES ASSUME NodeInv, NNext, NEW r \in Requests \ HyperCalls,
                      ~Over(r), stage'[r] \in {"failed", "unsupported"}
               PROVE  \/ waits[r] \in running \ running'
                      \/ stage'[r] = "unsupported" /\ (~supported \/ upgrades > 0)
    OBVIOUS
  <2>1. stage' # stage
    BY DEF Over
  <2>2. ~Upgrade /\ \A id \in Ids : ~Retry(id)
    BY <2>1 DEF Upgrade, Retry
  <2>3. \A q \in Requests : ~Call(q)
    BY DEF Call, Over, NodeInv, NodeTypeOK
  <2>4. \A q \in Requests : ~Shares(q)
    BY DEF Shares, Over, NodeInv, NodeTypeOK, SharingOK
  <2>5. \A q \in Requests : ~Asks(q)
    BY DEF Asks, Over, NodeInv, NodeTypeOK
  <2>6. ASSUME NEW q \in Requests, VersionCheck(q)
        PROVE  stage'[r] = "unsupported" /\ (~supported \/ upgrades > 0)
    BY <2>6 DEF VersionCheck, Over, NodeInv, NodeTypeOK, StatusOK
  <2>7. ASSUME NEW id \in Ids, Succeeds(id) \/ Fails(id)
        PROVE  waits[r] \in running \ running'
    <3>1. id \in running /\ running' = running \ {id}
      BY <2>7 DEF Succeeds, Fails, Ends
    <3>2. \E version, asked : Next_Stage(id, version, asked)
      BY <2>7 DEF Succeeds, Fails
    <3>3. waits[r] = id
      BY <3>2 DEF Next_Stage, Over, NodeInv, NodeTypeOK
    <3> QED BY <3>1, <3>3
  <2> QED BY <2>2, <2>3, <2>4, <2>5, <2>6, <2>7 DEF NNext, Goes
<1> QED BY <1>1, NodeInit, NodeStep, PTL DEF NSpec, FailuresAreForgotten

-----------------------------------------------------------------------------
(* The sessions of an oracle *)

ChainTypeOK ==
    /\ height \in 1..MaxHeight /\ fails \in 0..MaxFails
    /\ expiry \in [Queries -> 0..MaxHeight + QueryTtl]
    /\ client \in [Queries -> {"idle", "reading", "pausing", "answered", "gone", "timeout"}]

SessionTypeOK ==
    /\ begun \in 0..Sessions
    /\ answer \in [Queries -> Session \cup {NoSession}]
    /\ phase \in [Session -> {"none", "running", "stopping", "stopped"}]
    /\ ticking \in [Session -> BOOLEAN] /\ checking \in [Session -> BOOLEAN]
    /\ reading \in [Session -> BOOLEAN]
    /\ known \in [Session -> SUBSET Queries] /\ owed \in [Session -> SUBSET Queries]
    /\ task \in [Session -> [Queries -> {"none", "thinking", "queued", "responding", "done"}]]
    /\ line \in [Session -> Seq(Queries)]
    /\ handling = NoSession \/ handling \subseteq Session \X Queries
    /\ DOMAIN awaits = Session

\* The queue of responses has the queries whose handlers are in it, each once.
LineOK == \A s \in Session :
    /\ Once(line[s])
    /\ \A q \in Queries : Has(line[s], q) <=> task[s][q] \in {"queued", "responding"}

\* A session remembers the queries it began to handle.
KnownOK == \A s \in Session, q \in Queries : task[s][q] = "none" <=> q \notin known[s]

\* The session that runs or stops is the last that began, and
\* #handleQueriesPromise is its own; those to come have done nothing.
ActiveOK == \A s \in Session :
    /\ phase[s] \in {"running", "stopping"} => s = begun /\ handling # NoSession
    /\ s > begun => ~reading[s] /\ ~ticking[s] /\ known[s] = {} /\ phase[s] = "none"

\* What a stop has to wait for is in the promise it takes.
HandlingOK == \A s \in Session :
    /\ phase[s] = "running" => \A q \in known[s] : <<s, q>> \in handling
    /\ phase[s] = "stopping" => \A q \in owed[s] : <<s, q>> \in awaits[s]

OracleInv == /\ ChainTypeOK /\ ClientIsPatient /\ SessionTypeOK /\ LineOK /\ KnownOK
             /\ ActiveOK /\ HandlingOK /\ StopWaitsForHandlers

svars == <<begun, answer, phase, polling, answering, awaits, owed>>

\* The invariant holds before anything is polled,
LEMMA OracleInit == OInit => OracleInv
<1> SUFFICES ASSUME OInit PROVE OracleInv
  OBVIOUS
<1> USE OracleAssumption DEF OInit
<1>1. ChainTypeOK /\ ClientIsPatient
  BY DEF ChainTypeOK, ClientIsPatient
<1>2. SessionTypeOK
  <2>1. <<>> \in Seq(Queries)
    OBVIOUS
  <2> QED BY <2>1 DEF SessionTypeOK, Session
<1>3. LineOK
  BY HasEmpty DEF LineOK
<1>4. KnownOK /\ ActiveOK /\ HandlingOK /\ StopWaitsForHandlers
  BY DEF KnownOK, ActiveOK, HandlingOK, StopWaitsForHandlers
<1> QED BY <1>1, <1>2, <1>3, <1>4 DEF OracleInv

\* What the chain and the clients do leaves the sessions alone.
LEMMA ClientStep ==
    ASSUME OracleInv,
           \/ KeyBlock
           \/ \E q \in Queries : Posts(q) \/ Reads(q) \/ \E h \in 0..MaxHeight : Turns(q, h)
    PROVE  OracleInv'
<1> USE OracleAssumption
<1>1. UNCHANGED svars /\ fails' = fails
  BY DEF KeyBlock, Posts, Reads, Turns, svars, chain
<1>2. SessionTypeOK' /\ LineOK' /\ KnownOK' /\ ActiveOK' /\ HandlingOK' /\ StopWaitsForHandlers'
  BY <1>1
  DEF svars, polling, answering, OracleInv, SessionTypeOK, LineOK, KnownOK, ActiveOK, HandlingOK,
      StopWaitsForHandlers
<1>3. ChainTypeOK' /\ ClientIsPatient'
  <2> USE DEF OracleInv, ChainTypeOK, ClientIsPatient
  <2>1. CASE KeyBlock
    BY <2>1 DEF KeyBlock
  <2>2. ASSUME NEW q \in Queries, Posts(q) PROVE ChainTypeOK' /\ ClientIsPatient'
    BY <2>2 DEF Posts
  <2>3. ASSUME NEW q \in Queries, Reads(q) PROVE ChainTypeOK' /\ ClientIsPatient'
    <3>1. /\ client' = [client EXCEPT ![q] = client'[q]]
          /\ client'[q] \in {"answered", "pausing", "gone"}
          /\ UNCHANGED <<height, expiry, fails>>
      BY <2>3 DEF Reads, chain
    <3> QED BY <3>1
  <2>4. ASSUME NEW q \in Queries, NEW h \in 0..MaxHeight, Turns(q, h)
        PROVE  ChainTypeOK' /\ ClientIsPatient'
    BY <2>4 DEF Turns, chain
  <2> QED BY <2>1, <2>2, <2>3, <2>4
<1> QED BY <1>2, <1>3 DEF OracleInv

\* A session begins with nothing of an earlier one.
LEMMA HandleQueriesStep ==
    ASSUME OracleInv, NEW s \in Session, HandleQueries(s)
    PROVE  OracleInv'
<1> USE OracleAssumption
<1>1. /\ s = begun + 1 /\ handling = NoSession
      /\ begun' = s /\ handling' = {}
      /\ phase' = [phase EXCEPT ![s] = "running"] /\ ticking' = [ticking EXCEPT ![s] = TRUE]
      /\ checking' = [checking EXCEPT ![s] = TRUE] /\ reading' = [reading EXCEPT ![s] = TRUE]
      /\ UNCHANGED <<height, expiry, answer, client, known, task, line, awaits, fails, owed>>
  BY DEF HandleQueries, Checks, chain
<1>2. handling' # NoSession /\ handling' \subseteq Session \X Queries
  BY <1>1 DEF Session
<1>3. ChainTypeOK' /\ ClientIsPatient'
  BY <1>1 DEF OracleInv, ChainTypeOK, ClientIsPatient
<1>4. SessionTypeOK'
  BY <1>1, <1>2 DEF OracleInv, SessionTypeOK, Session
<1>5. LineOK' /\ KnownOK'
  BY <1>1 DEF OracleInv, LineOK, KnownOK
<1>6. ActiveOK'
  BY <1>1, <1>2 DEF OracleInv, SessionTypeOK, ActiveOK, Session
<1>7. HandlingOK'
  BY <1>1 DEF OracleInv, SessionTypeOK, ActiveOK, HandlingOK, Session
<1>8. StopWaitsForHandlers'
  BY <1>1, ZenonT(60) DEF OracleInv, SessionTypeOK, StopWaitsForHandlers
<1> QED BY <1>3, <1>4, <1>5, <1>6, <1>7, <1>8 DEF OracleInv

\* Its interval, and a read that fails, change what its polling keeps only.
LEMMA TickStep ==
    ASSUME OracleInv, NEW s \in Session, Tick(s) \/ ReadFails(s)
    PROVE  OracleInv'
<1> USE OracleAssumption
<1>1. /\ UNCHANGED <<height, expiry, answer, client, begun, phase, ticking, known, task, line,
                     handling, awaits, owed>>
      /\ reading' = [reading EXCEPT ![s] = reading'[s]] /\ reading'[s] \in BOOLEAN
      /\ checking' \in [Session -> BOOLEAN]
      /\ fails' \in 0..MaxFails
      /\ reading'[s] => reading[s] \/ ticking[s]
  <2> USE DEF chain, answering, OracleInv, SessionTypeOK, ChainTypeOK
  <2>1. CASE Tick(s)
    <3>1. /\ reading' = [reading EXCEPT ![s] = TRUE] /\ checking' = [checking EXCEPT ![s] = TRUE]
          /\ ticking[s] /\ fails' = fails
      BY <2>1 DEF Tick, Checks
    <3>2. UNCHANGED <<height, expiry, answer, client, begun, phase, ticking, known, task, line,
                      handling, awaits, owed>>
      BY <2>1 DEF Tick
    <3> QED BY <3>1, <3>2
  <2>2. CASE ReadFails(s)
    <3>1. /\ reading' = [reading EXCEPT ![s] = FALSE] /\ checking' = checking
          /\ fails < MaxFails /\ fails' = fails + 1
      BY <2>2 DEF ReadFails
    <3>2. UNCHANGED <<height, expiry, answer, client, begun, phase, ticking, known, task, line,
                      handling, awaits, owed>>
      BY <2>2 DEF ReadFails
    <3> QED BY <3>1, <3>2
  <2> QED BY <2>1, <2>2
<1>2. ChainTypeOK' /\ ClientIsPatient'
  BY <1>1 DEF OracleInv, ChainTypeOK, ClientIsPatient
<1>3. SessionTypeOK'
  BY <1>1 DEF OracleInv, SessionTypeOK
<1>4. LineOK' /\ KnownOK' /\ HandlingOK' /\ StopWaitsForHandlers'
  BY <1>1 DEF OracleInv, LineOK, KnownOK, HandlingOK, StopWaitsForHandlers
<1>5. ActiveOK'
  BY <1>1 DEF OracleInv, SessionTypeOK, ActiveOK, Session
<1> QED BY <1>2, <1>3, <1>4, <1>5 DEF OracleInv

\* The queries of a check that are new become known, get their handlers, and
\* are in #handleQueriesPromise, if the session was not stopped.
LEMMA QueriesReadStep ==
    ASSUME OracleInv, NEW s \in Session, QueriesRead(s)
    PROVE  OracleInv'
<1> USE OracleAssumption
<1> DEFINE new == Found(s)
<1>1. /\ reading[s] /\ reading' = [reading EXCEPT ![s] = FALSE]
      /\ checking' = [checking EXCEPT ![s] = FALSE]
      /\ known' = [known EXCEPT ![s] = @ \cup new]
      /\ task' = [task EXCEPT ![s] = [q \in Queries |-> IF q \in new THEN "thinking" ELSE @[q]]]
      /\ handling' = IF handling = NoSession THEN NoSession ELSE handling \cup ({s} \X new)
      /\ UNCHANGED <<height, expiry, answer, client, begun, phase, ticking, line, awaits, fails, owed>>
  BY DEF QueriesRead, Begins, chain
<1>2. new \subseteq Queries /\ new \cap known[s] = {}
  BY DEF Found
<1> HIDE DEF new
<1>3. handling # NoSession => handling' \subseteq Session \X Queries /\ handling' # NoSession
  BY <1>1, <1>2 DEF OracleInv, SessionTypeOK, Session
<1>4. ChainTypeOK' /\ ClientIsPatient'
  BY <1>1 DEF OracleInv, ChainTypeOK, ClientIsPatient
<1>5. SessionTypeOK'
  BY <1>1, <1>2, <1>3 DEF OracleInv, SessionTypeOK
<1>6. \A q \in new : task[s][q] = "none"
  BY <1>2 DEF OracleInv, KnownOK
<1>7. /\ \A r \in Session, q \in Queries : task'[r][q] =
              IF r = s /\ q \in new THEN "thinking" ELSE task[r][q]
      /\ \A r \in Session : known'[r] = IF r = s THEN known[s] \cup new ELSE known[r]
  BY <1>1 DEF OracleInv, SessionTypeOK
<1>8. LineOK'
  BY <1>1, <1>6, <1>7 DEF OracleInv, LineOK
<1>9. KnownOK'
  BY <1>7 DEF OracleInv, KnownOK
<1>10. ActiveOK'
  BY <1>1, <1>3, <1>7 DEF OracleInv, SessionTypeOK, ActiveOK
<1>11. HandlingOK'
  BY <1>1, <1>7 DEF OracleInv, ActiveOK, HandlingOK
<1>12. StopWaitsForHandlers'
  BY <1>1, <1>6, <1>7 DEF OracleInv, SessionTypeOK, StopWaitsForHandlers
<1> QED BY <1>4, <1>5, <1>8, <1>9, <1>10, <1>11, <1>12 DEF OracleInv

\* What a handler does changes its own task and the queue of its session.
LEMMA HandlerStep ==
    ASSUME OracleInv, NEW s \in Session, NEW q \in Queries, NEW to \in {"queued", "responding", "done"},
           task[s][q] \notin {"none", "done"}, Moves(s, q, to),
           line' = [line EXCEPT ![s] = line'[s]],
           line'[s] \in Seq(Queries), Once(line'[s]),
           \A p \in Queries : Has(line'[s], p) <=>
               IF p = q THEN to \in {"queued", "responding"} ELSE Has(line[s], p),
           answer' \in [Queries -> Session \cup {NoSession}],
           UNCHANGED <<height, expiry, client, begun, phase, polling, handling, awaits, fails, owed>>
    PROVE  OracleInv'
<1> USE OracleAssumption
<1>1. \A r \in Session, p \in Queries : task'[r][p] = IF r = s /\ p = q THEN to ELSE task[r][p]
  BY DEF Moves, OracleInv, SessionTypeOK
<1>2. ChainTypeOK' /\ ClientIsPatient'
  BY DEF OracleInv, ChainTypeOK, ClientIsPatient
<1>3. SessionTypeOK'
  BY DEF Moves, polling, OracleInv, SessionTypeOK
<1>4. LineOK'
  BY <1>1, SMTT(30) DEF OracleInv, SessionTypeOK, LineOK
<1>5. KnownOK' /\ ActiveOK' /\ HandlingOK' /\ StopWaitsForHandlers'
  BY <1>1 DEF polling, OracleInv, KnownOK, ActiveOK, HandlingOK, StopWaitsForHandlers
<1> QED BY <1>2, <1>3, <1>4, <1>5 DEF OracleInv

\* A listener that has thought about a query waits in line to respond, or is done.
LEMMA ThoughtStep ==
    ASSUME OracleInv, NEW s \in Session, NEW q \in Queries, Thought(s, q)
    PROVE  OracleInv'
<1>1. /\ task[s][q] = "thinking" /\ line[s] \in Seq(Queries) /\ Once(line[s]) /\ ~Has(line[s], q)
      /\ DOMAIN line = Session
      /\ answer' \in [Queries -> Session \cup {NoSession}]
      /\ UNCHANGED <<height, expiry, client, begun, phase, polling, handling, awaits, fails, owed>>
  BY DEF Thought, chain, OracleInv, SessionTypeOK, LineOK
<1>2. CASE Moves(s, q, "done") /\ UNCHANGED line
  <2>1. line' = [line EXCEPT ![s] = line'[s]]
    BY <1>1, <1>2 DEF OracleInv, SessionTypeOK
  <2> QED BY <1>1, <1>2, <2>1, HandlerStep
<1>3. CASE Moves(s, q, "queued") /\ line' = [line EXCEPT ![s] = Append(@, q)]
  <2>1. line'[s] = Append(line[s], q) /\ line' = [line EXCEPT ![s] = line'[s]]
    BY <1>1, <1>3
  <2>2. Once(line'[s]) /\ line'[s] \in Seq(Queries)
    BY <1>1, <2>1, OnceAppend
  <2>3. \A p \in Queries : Has(line'[s], p) <=> Has(line[s], p) \/ p = q
    BY <1>1, <2>1, HasAppend
  <2>4. \A p \in Queries : Has(line'[s], p) <=>
            IF p = q THEN "queued" \in {"queued", "responding"} ELSE Has(line[s], p)
    BY <2>3
  <2>5. task[s][q] \notin {"none", "done"}
    BY <1>1
  <2> QED BY <1>1, <1>3, <2>1, <2>2, <2>4, <2>5, HandlerStep
<1> QED BY <1>2, <1>3 DEF Thought

\* The first in line responds, and the next one moves up.
LEMMA RespondsStep ==
    ASSUME OracleInv, NEW s \in Session, Responds(s) \/ Responded(s)
    PROVE  OracleInv'
<1> DEFINE q == Head(line[s])
<1>1. line[s] # <<>> /\ line[s] \in Seq(Queries) /\ Once(line[s]) /\ DOMAIN line = Session
  BY DEF Responds, Responded, OracleInv, SessionTypeOK, LineOK
<1>2. q \in Queries /\ Has(line[s], q) /\ Once(Tail(line[s])) /\ Tail(line[s]) \in Seq(Queries)
  BY <1>1, OnceTail
<1>3. \A p \in Queries : Has(Tail(line[s]), p) <=> Has(line[s], p) /\ p # q
  BY <1>1, HasTail
<1>4. CASE Responds(s)
  <2>1. /\ task[s][q] = "queued" /\ Moves(s, q, "responding") /\ line' = line /\ answer' = answer
        /\ UNCHANGED <<height, expiry, client, begun, phase, polling, handling, awaits, fails, owed>>
    BY <1>4 DEF Responds, chain
  <2> HIDE DEF q
  <2>2. line' = [line EXCEPT ![s] = line'[s]]
    BY <1>1, <2>1 DEF OracleInv, SessionTypeOK
  <2>3. answer' \in [Queries -> Session \cup {NoSession}]
    BY <2>1 DEF OracleInv, SessionTypeOK
  <2> QED BY <1>1, <1>2, <2>1, <2>2, <2>3, HandlerStep
<1>5. CASE Responded(s)
  <2>1. /\ task[s][q] = "responding" /\ Moves(s, q, "done") /\ line' = [line EXCEPT ![s] = Tail(@)]
        /\ answer' = [answer EXCEPT ![q] = s] \/ answer' = answer
        /\ UNCHANGED <<height, expiry, client, begun, phase, polling, handling, awaits, fails, owed>>
    BY <1>5 DEF Responded
  <2> HIDE DEF q
  <2>2. line'[s] = Tail(line[s]) /\ line' = [line EXCEPT ![s] = line'[s]]
    BY <1>1, <2>1
  <2>3. answer' \in [Queries -> Session \cup {NoSession}]
    BY <1>2, <2>1 DEF OracleInv, SessionTypeOK
  <2>4. Once(line'[s]) /\ line'[s] \in Seq(Queries)
    BY <1>2, <2>2
  <2>5. \A p \in Queries : Has(line'[s], p) <=>
            IF p = q THEN "done" \in {"queued", "responding"} ELSE Has(line[s], p)
    BY <1>3, <2>2
  <2>6. task[s][q] \notin {"none", "done"}
    BY <2>1
  <2> QED BY <1>2, <2>1, <2>2, <2>3, <2>4, <2>5, <2>6, HandlerStep
<1> QED BY <1>4, <1>5

\* The session is stopped, and waits for the listeners at work.
LEMMA StopStep ==
    ASSUME OracleInv, NEW s \in Session, Stop(s) \/ Stopped(s)
    PROVE  OracleInv'
<1> USE OracleAssumption
<1>1. /\ UNCHANGED <<height, expiry, answer, client, begun, checking, reading, known, task, line, fails>>
  BY DEF Stop, Stopped, chain, answering, polling
<1>2. ChainTypeOK' /\ ClientIsPatient'
  BY <1>1 DEF OracleInv, ChainTypeOK, ClientIsPatient
<1>3. LineOK' /\ KnownOK'
  BY <1>1 DEF OracleInv, LineOK, KnownOK
<1>4. CASE Stop(s)
  <2>1. /\ phase[s] = "running"
        /\ phase' = [phase EXCEPT ![s] = "stopping"] /\ ticking' = [ticking EXCEPT ![s] = FALSE]
        /\ awaits' = [awaits EXCEPT ![s] = handling] /\ handling' = handling
        /\ owed' = [owed EXCEPT ![s] = {q \in Queries : task[s][q] # "none"}]
    BY <1>4 DEF Stop, answering
  <2>2. SessionTypeOK'
    BY <1>1, <2>1 DEF OracleInv, SessionTypeOK
  <2>3. ActiveOK'
    BY <1>1, <2>1 DEF OracleInv, SessionTypeOK, ActiveOK, Session
  <2>4. HandlingOK'
    BY <1>1, <2>1 DEF OracleInv, SessionTypeOK, KnownOK, HandlingOK
  <2>5. StopWaitsForHandlers'
    BY <1>1, <2>1 DEF OracleInv, SessionTypeOK, StopWaitsForHandlers
  <2> QED BY <1>2, <1>3, <2>2, <2>3, <2>4, <2>5 DEF OracleInv
<1>5. CASE Stopped(s)
  <2>1. /\ phase[s] = "stopping" /\ \A w \in awaits[s] : task[w[1]][w[2]] = "done"
        /\ phase' = [phase EXCEPT ![s] = "stopped"] /\ handling' = NoSession
        /\ UNCHANGED <<ticking, awaits, owed>>
    BY <1>5 DEF Stopped, polling
  <2>2. SessionTypeOK'
    BY <1>1, <2>1 DEF OracleInv, SessionTypeOK
  <2>3. ActiveOK' /\ HandlingOK'
    BY <1>1, <2>1 DEF OracleInv, SessionTypeOK, ActiveOK, HandlingOK, Session
  <2>4. \A q \in owed[s] : task[s][q] = "done"
    <3> SUFFICES ASSUME NEW q \in owed[s] PROVE task[s][q] = "done"
      OBVIOUS
    <3>1. <<s, q>> \in awaits[s]
      BY <2>1 DEF OracleInv, HandlingOK
    <3> QED BY <2>1, <3>1
  <2>5. StopWaitsForHandlers'
    BY <1>1, <2>1, <2>4 DEF OracleInv, SessionTypeOK, StopWaitsForHandlers
  <2> QED BY <1>2, <1>3, <2>2, <2>3, <2>5 DEF OracleInv
<1> QED BY <1>4, <1>5

\* and no step breaks it.
LEMMA OracleStep == OracleInv /\ [ONext]_ovars => OracleInv'
<1> SUFFICES ASSUME OracleInv, [ONext]_ovars PROVE OracleInv'
  OBVIOUS
<1>1. CASE UNCHANGED ovars
  <2>1. /\ UNCHANGED <<height, expiry, client, fails, begun, answer, phase, ticking, checking, reading>>
        /\ UNCHANGED <<known, task, line, handling, awaits, owed>>
    BY <1>1 DEF ovars, chain, polling, answering
  <2>2. ChainTypeOK' /\ ClientIsPatient' /\ SessionTypeOK'
    BY <2>1 DEF OracleInv, ChainTypeOK, ClientIsPatient, SessionTypeOK
  <2>3. LineOK' /\ KnownOK' /\ ActiveOK' /\ HandlingOK' /\ StopWaitsForHandlers'
    BY <2>1 DEF OracleInv, LineOK, KnownOK, ActiveOK, HandlingOK, StopWaitsForHandlers
  <2> QED BY <2>2, <2>3 DEF OracleInv
<1>2. CASE KeyBlock \/ \E q \in Queries : Posts(q) \/ ClientTurns(q)
  BY <1>2, ClientStep DEF ClientTurns
<1>3. ASSUME NEW s \in Session,
             \/ HandleQueries(s) \/ Tick(s) \/ QueriesRead(s) \/ ReadFails(s) \/ Stop(s) \/ Works(s)
             \/ \E q \in Queries : Thought(s, q)
      PROVE  OracleInv'
  BY <1>3, HandleQueriesStep, TickStep, QueriesReadStep, StopStep, RespondsStep, ThoughtStep DEF Works
<1> QED BY <1>1, <1>2, <1>3 DEF ONext

\* No query is queued twice, a stop waits for every handler there was, and no
\* client gives up while its query lives (Oracle.ts, OracleClient.ts:89).
THEOREM OracleKeepsOrder == OSpec => []OracleInOrder
<1>1. OracleInv => OracleInOrder
  <2> SUFFICES ASSUME OracleInv PROVE OracleInOrder
    OBVIOUS
  <2>1. \A s \in Session : \A i, j \in DOMAIN line[s] : line[s][i] = line[s][j] => i = j
    <3> SUFFICES ASSUME NEW s \in Session
                 PROVE  \A i, j \in DOMAIN line[s] : line[s][i] = line[s][j] => i = j
      OBVIOUS
    <3>1. DOMAIN line[s] = 1 .. Len(line[s])
      BY LenProperties DEF OracleInv, SessionTypeOK
    <3> QED BY <3>1 DEF OracleInv, LineOK, Once
  <2>2. OracleTypeOK
    BY <2>1 DEF OracleInv, ChainTypeOK, SessionTypeOK, OracleTypeOK
  <2> QED BY <2>2 DEF OracleInv, OracleInOrder
<1> QED BY <1>1, OracleInit, OracleStep, PTL DEF OSpec

-----------------------------------------------------------------------------
(* The pages of the middleware *)

\* The last item of the page that starts with an item.
LowOf(head) == IF head - PageSize + 1 < 1 THEN 1 ELSE head - PageSize + 1
DataFrom(head) == [i \in 1 .. head - LowOf(head) + 1 |-> head - i + 1]
LinkAfter(head) == IF LowOf(head) = 1 THEN NoPath ELSE PagePath(LowOf(head) - 1)

\* What was seen is a row of items down from the first.
Walked ==
    /\ walk \in [first : Nat, seen : Seq(Nat), back : BOOLEAN]
    /\ walk.first \in 1 .. newest /\ Len(walk.seen) \in 1 .. walk.first
    /\ \A i \in 1 .. Len(walk.seen) : walk.seen[i] = walk.first - i + 1

\* The page read starts with an item and has none older than what was seen; it is the end of
\* what was seen until one goes back.
PageAt(head) ==
    /\ page.data = DataFrom(head)
    /\ walk.first - Len(walk.seen) + 1 <= LowOf(head)
    /\ page.prevPath = NoPath \/ page.prevPath = PagePath(head + PageSize)
    /\ ~walk.back => /\ LowOf(head) = walk.first - Len(walk.seen) + 1
                     /\ page.nextPath = LinkAfter(head)
PageOK == IsPage => page \in Pages /\ \E head \in 1 .. newest : PageAt(head)
FoundOK == (\A i \in DOMAIN listing : listing[i] # "my-name.chain") => page # NoSpec

PagesInv ==
    /\ listing \in Listings /\ newest \in 1 .. MaxItems
    /\ page = NoPath => walk = NoWalk
    /\ page # NoPath => Walked
    /\ (page = Missed /\ ~walk.back) => Len(walk.seen) = walk.first
    /\ FoundOK /\ PageOK

\* What the bounds are, and that no item is NoPath.
LEMMA PageNumbers == PageSize \in Nat \ {0} /\ MaxItems \in Nat /\ NoPath \notin Nat
BY PagesAssumption

\* The last item of a page is one of the listing, at most a page below the first.
LEMMA LowBounds ==
    ASSUME NEW head \in Nat \ {0}
    PROVE  LowOf(head) \in 1 .. head
BY PageNumbers DEF LowOf

\* What the middleware answers to a link: the page that starts with the item of the link, or
\* with the newest.
LEMMA PageServed ==
    ASSUME listing \in Listings, newest \in Nat \ {0}, NEW cursor \in (Nat \ {0}) \cup {NoPath}
    PROVE  /\ PagePath(cursor) \in Links
           /\ \E head \in 1 .. newest :
                /\ head = IF cursor = NoPath \/ cursor > newest THEN newest ELSE cursor
                /\ sendOperationRequest(PagePath(cursor)).data = DataFrom(head)
                /\ sendOperationRequest(PagePath(cursor)).nextPath = LinkAfter(head)
                /\ sendOperationRequest(PagePath(cursor)).prevPath \in {NoPath, PagePath(head + PageSize)}
                /\ sendOperationRequest(PagePath(cursor)) \in Pages
<1>1. NoPath \notin Nat /\ PageSize \in Nat \ {0}
  BY PageNumbers
<1>2. ASSUME NEW c \in Nat \cup {NoPath} PROVE PagePath(c) \in Links
  BY <1>2 DEF PagePath, Links
<1> DEFINE head == IF cursor = NoPath \/ cursor > newest THEN newest ELSE cursor
<1>3. head \in 1 .. newest
  BY <1>1
<1> DEFINE raw == ServePage(PagePath(cursor))
<1>4. PagePath(cursor).cursor = cursor
  BY DEF PagePath
<1>5. raw = [data |-> DataFrom(head), next |-> LinkAfter(head),
             prev |-> IF head = newest THEN NoPath ELSE PagePath(head + PageSize)]
  BY <1>4 DEF ServePage, DataFrom, LinkAfter, LowOf
<1> HIDE DEF head
<1>6. LowOf(head) \in 1 .. head
  BY <1>3, LowBounds
<1>7. DataFrom(head) \in Seq(Nat)
  <2>1. head - LowOf(head) + 1 \in Nat
    BY <1>3, <1>6
  <2>2. \A i \in 1 .. head - LowOf(head) + 1 : head - i + 1 \in Nat
    BY <1>3, <1>6
  <2> QED BY <2>1, <2>2 DEF DataFrom
<1>8. LinkAfter(head) \in Links \cup {NoPath} /\ PagePath(head + PageSize) \in Links
  BY <1>1, <1>2, <1>3, <1>6 DEF LinkAfter
<1>9. raw.data = DataFrom(head) /\ raw.next = LinkAfter(head)
      /\ raw.prev \in {NoPath, PagePath(head + PageSize)}
  BY <1>5
<1>10. sendOperationRequest(PagePath(cursor)) = [data |-> raw.data, nextPath |-> raw.next, prevPath |-> raw.prev]
  BY DEF sendOperationRequest
<1> HIDE DEF raw
<1>11. sendOperationRequest(PagePath(cursor)) \in Pages
  BY <1>7, <1>8, <1>9, <1>10 DEF Pages
<1>12. head = IF cursor = NoPath \/ cursor > newest THEN newest ELSE cursor
  BY DEF head
<1> QED BY <1>2, <1>3, <1>9, <1>10, <1>11, <1>12

\* A link of a listing without a dash finds its operation.
LEMMA OperationFound ==
    ASSUME listing \in Listings, \A i \in DOMAIN listing : listing[i] # "my-name.chain"
    PROVE  \E s \in operationSpecs : Matches(s, listing)
<1>1. PICK s \in operationSpecs :
        /\ Len(s) = Len(listing)
        /\ \A i \in DOMAIN s : s[i] = listing[i] \/ (s[i] = "{param}" /\ listing[i] \in Parameters)
  BY PagesAssumption
<1>2. s \in Seq(STRING) /\ listing \in Seq(STRING)
  BY PagesAssumption
<1>3. DOMAIN s = DOMAIN listing
  BY <1>1, <1>2, LenProperties
<1>4. ASSUME NEW i \in DOMAIN s
      PROVE  s[i] = listing[i] \/ (s[i] = "{param}" /\ IsParam(listing[i]))
  BY <1>1, <1>3 DEF Parameters, IsParam
<1> QED BY <1>1, <1>4 DEF Matches

\* Following a link of the listing one gets the page of the link, or no operation is found.
LEMMA LinkFollowed ==
    ASSUME listing \in Listings, newest \in Nat \ {0}, NEW cursor \in (Nat \ {0}) \cup {NoPath},
           Visit(PagePath(cursor))
    PROVE  /\ page' = sendOperationRequest(PagePath(cursor)) \/ page' = NoSpec
           /\ (\A i \in DOMAIN listing : listing[i] # "my-name.chain") => page' # NoSpec
<1>1. PagePath(cursor) \in Links /\ sendOperationRequest(PagePath(cursor)) \in Pages
  BY PageServed
<1>2. PagePath(cursor) # NoPath /\ sendOperationRequest(PagePath(cursor)) # NoSpec
  BY <1>1, PagesAssumption
<1>3. page' = requestByPath(PagePath(cursor))
  BY <1>2 DEF Visit
<1>4. PagePath(cursor).segments = listing
  BY DEF PagePath
<1>5. page' = IF \E s \in operationSpecs : Matches(s, listing)
              THEN sendOperationRequest(PagePath(cursor)) ELSE NoSpec
  BY <1>3, <1>4 DEF requestByPath
<1> QED BY <1>2, <1>5, OperationFound

\* A page is no error.
LEMMA PageIsNone ==
    ASSUME NEW p \in Pages
    PROVE  p \notin {NoPath, Missed, NoSpec}
BY PagesAssumption

\* Before the first page there is nothing.
LEMMA PagesInit == PgInit => PagesInv
BY PagesAssumption DEF PgInit, PagesInv, FoundOK, PageOK, IsPage

\* The first page starts with the newest item and the walk is that page.
LEMMA FirstStep == PagesInv /\ First => PagesInv'
<1> SUFFICES ASSUME PagesInv, First PROVE PagesInv'
  OBVIOUS
<1>1. listing \in Listings /\ newest \in 1 .. MaxItems /\ newest \in Nat \ {0}
      /\ listing' = listing /\ newest' = newest /\ MaxItems \in Nat /\ PageSize \in Nat \ {0}
  BY PageNumbers DEF PagesInv, First
<1>2. /\ page' = sendOperationRequest(PagePath(NoPath))
      /\ walk' = [first |-> newest, seen |-> page'.data, back |-> FALSE]
  BY DEF First
<1>3. /\ page'.data = DataFrom(newest) /\ page'.nextPath = LinkAfter(newest)
      /\ page'.prevPath \in {NoPath, PagePath(newest + PageSize)} /\ page' \in Pages
  BY <1>1, <1>2, PageServed
<1>4. page' \notin {NoPath, Missed, NoSpec}
  BY <1>3, PageIsNone
<1>5. LowOf(newest) \in 1 .. newest
  BY <1>1, LowBounds
<1>6. page'.data \in Seq(Nat) /\ Len(page'.data) = newest - LowOf(newest) + 1
      /\ \A i \in 1 .. newest - LowOf(newest) + 1 : page'.data[i] = newest - i + 1
  <2>1. newest - LowOf(newest) + 1 \in Nat
    BY <1>1, <1>5
  <2>2. page'.data \in Seq(Nat)
    BY <1>3 DEF Pages
  <2> QED BY <1>3, <2>1, <2>2, LenProperties DEF DataFrom
<1>7. walk'.first = newest /\ walk'.seen = page'.data /\ walk'.back = FALSE
  BY <1>2
<1>8. Walked'
  <2>1. newest - LowOf(newest) + 1 \in 1 .. newest /\ walk'.first \in 1 .. newest'
    BY <1>1, <1>5, <1>7
  <2>2. Len(walk'.seen) \in 1 .. walk'.first
    BY <1>6, <1>7, <2>1
  <2>3. \A i \in 1 .. Len(walk'.seen) : walk'.seen[i] = walk'.first - i + 1
    BY <1>6, <1>7
  <2>4. walk' \in [first : Nat, seen : Seq(Nat), back : BOOLEAN]
    BY <1>1, <1>2, <1>6
  <2> QED BY <2>1, <2>2, <2>3, <2>4 DEF Walked
<1>9. PICK head \in 1 .. newest : head = newest
  BY <1>1
<1>10. PageAt(head)'
  <2>1. LinkAfter(head)' = LinkAfter(head) /\ PagePath(head + PageSize)' = PagePath(head + PageSize)
    BY <1>1 DEF LinkAfter, PagePath
  <2> QED BY <1>1, <1>3, <1>5, <1>6, <1>7, <1>9, <2>1 DEF PageAt
<1>11. PageOK'
  <2>1. Pages' = Pages
    BY DEF Pages, Links
  <2>2. head \in 1 .. newest'
    BY <1>1
  <2> QED BY <1>3, <1>10, <2>1, <2>2 DEF PageOK
<1> QED BY <1>1, <1>4, <1>8, <1>11 DEF PagesInv, FoundOK

\* The page after the last one read continues what was seen, and after the end there is none.
LEMMA NextPageStep == PagesInv /\ NextPage => PagesInv'
<1> SUFFICES ASSUME PagesInv, NextPage PROVE PagesInv'
  OBVIOUS
<1>1. listing \in Listings /\ newest \in 1 .. MaxItems /\ newest \in Nat \ {0}
      /\ listing' = listing /\ newest' = newest /\ MaxItems \in Nat /\ PageSize \in Nat \ {0}
  BY PageNumbers DEF PagesInv, NextPage
<1>2. IsPage /\ ~walk.back /\ Visit(page.nextPath)
      /\ walk' = IF page' \in {Missed, NoSpec} THEN walk ELSE [walk EXCEPT !.seen = @ \o page'.data]
  BY DEF NextPage
<1>3. page \in Pages /\ Walked /\ FoundOK
  BY <1>2 DEF PagesInv, PageOK, IsPage
<1>4. PICK head \in 1 .. newest : PageAt(head)
  BY <1>2 DEF PagesInv, PageOK
<1>5. head \in Nat \ {0} /\ LowOf(head) \in 1 .. head
  BY <1>1, <1>4, LowBounds
<1> DEFINE n == Len(walk.seen)
<1>6. walk.first \in 1 .. newest /\ walk.back = FALSE /\ walk.seen \in Seq(Nat) /\ n \in 1 .. walk.first
      /\ \A i \in 1 .. n : walk.seen[i] = walk.first - i + 1
  BY <1>2, <1>3 DEF Walked
<1>7. LowOf(head) = walk.first - n + 1 /\ page.nextPath = LinkAfter(head)
  BY <1>2, <1>4 DEF PageAt
<1> HIDE DEF n
<1>8. NoPath # Missed /\ NoPath # NoSpec /\ Missed # NoSpec
  BY PagesAssumption
<1>9. CASE LowOf(head) = 1
  <2>1. page' = Missed
    BY <1>2, <1>7, <1>9 DEF LinkAfter, Visit
  <2>2. walk' = walk /\ n = walk.first
    BY <1>1, <1>2, <1>6, <1>7, <1>9, <2>1
  <2>3. Walked'
    BY <1>1, <1>3, <2>2 DEF Walked
  <2>4. page' # NoPath /\ page' # NoSpec /\ ~IsPage'
    BY <1>8, <2>1 DEF IsPage
  <2> QED BY <1>1, <2>2, <2>3, <2>4 DEF PagesInv, FoundOK, PageOK, n
<1>10. CASE LowOf(head) # 1
  <2> DEFINE c == LowOf(head) - 1
  <2>1. page.nextPath = PagePath(c)
    BY <1>7, <1>10 DEF LinkAfter
  <2>2. walk.first \in Nat /\ n \in Nat
    BY <1>1, <1>6
  <2>3. c \in Nat \ {0} /\ c = walk.first - n /\ c < newest /\ c \in 1 .. newest
    <3>1. LowOf(head) \in Nat \ {0, 1} /\ LowOf(head) <= newest
      BY <1>1, <1>4, <1>5, <1>10
    <3>2. c = walk.first - n
      BY <1>7, <2>2
    <3> QED BY <1>1, <3>1, <3>2
  <2> HIDE DEF c
  <2>4. page' = sendOperationRequest(PagePath(c)) \/ page' = NoSpec
    BY <1>1, <1>2, <2>1, <2>3, LinkFollowed
  <2>5. FoundOK'
    <3>1. (\A i \in DOMAIN listing : listing[i] # "my-name.chain") => page' # NoSpec
      BY <1>1, <1>2, <2>1, <2>3, LinkFollowed
    <3> QED BY <1>1, <3>1 DEF FoundOK
  <2>6. CASE page' = NoSpec
    <3>1. walk' = walk /\ page' # NoPath /\ page' # Missed /\ ~IsPage'
      BY <1>2, <1>8, <2>6 DEF IsPage
    <3>2. Walked'
      BY <1>1, <1>3, <3>1 DEF Walked
    <3> QED BY <1>1, <2>5, <3>1, <3>2 DEF PagesInv, PageOK
  <2>7. CASE page' = sendOperationRequest(PagePath(c))
    <3>1. /\ page'.data = DataFrom(c) /\ page'.nextPath = LinkAfter(c)
          /\ page'.prevPath \in {NoPath, PagePath(c + PageSize)} /\ page' \in Pages
      <4>1. c # NoPath /\ ~(c > newest)
        BY <1>1, <2>3, PageNumbers
      <4> QED BY <1>1, <2>3, <2>7, <4>1, PageServed
    <3>2. page' \notin {NoPath, Missed, NoSpec}
      BY <3>1, PageIsNone
    <3>3. LowOf(c) \in 1 .. c
      BY <2>3, LowBounds
    <3> DEFINE m == c - LowOf(c) + 1
    <3>4. m \in 1 .. c /\ LowOf(c) = walk.first - (n + m) + 1
      BY <2>2, <2>3, <3>3
    <3>5. page'.data \in Seq(Nat) /\ Len(page'.data) = m /\ \A i \in 1 .. m : page'.data[i] = c - i + 1
      <4>1. page'.data \in Seq(Nat)
        BY <3>1 DEF Pages
      <4> QED BY <3>1, <3>4, <4>1, LenProperties DEF DataFrom
    <3> HIDE DEF m
    <3> DEFINE s == walk.seen \o page'.data
    <3>6. s \in Seq(Nat) /\ Len(s) = n + m
          /\ \A i \in 1 .. n + m : s[i] = IF i <= n THEN walk.seen[i] ELSE page'.data[i - n]
      BY <1>6, <3>5, ConcatProperties DEF n
    <3> HIDE DEF s
    <3>7. ASSUME NEW i \in 1 .. n + m PROVE s[i] = walk.first - i + 1
      <4>1. n \in Nat /\ m \in Nat /\ walk.first \in Nat
        BY <1>1, <1>6, <2>3, <3>4
      <4>2. CASE i <= n
        <5>1. i \in 1 .. n /\ s[i] = walk.seen[i]
          BY <3>6, <4>1, <4>2
        <5>2. walk.seen[i] = walk.first - i + 1
          BY <1>6, <5>1
        <5> QED BY <5>1, <5>2
      <4>3. CASE i > n
        <5>1. i - n \in 1 .. m /\ c - (i - n) + 1 = walk.first - i + 1
          BY <2>3, <4>1, <4>3
        <5>2. s[i] = page'.data[i - n]
          BY <3>6, <4>1, <4>3
        <5>3. page'.data[i - n] = c - (i - n) + 1
          BY <3>5, <5>1
        <5> QED BY <5>1, <5>2, <5>3
      <4>4. i \in Nat
        BY <4>1
      <4> QED BY <4>1, <4>2, <4>3, <4>4
    <3>8. walk' = [walk EXCEPT !.seen = s]
      BY <1>2, <3>2 DEF s
    <3>9. walk'.first = walk.first /\ walk'.back = FALSE /\ walk'.seen = s
      <4>1. walk \in [first : Nat, seen : Seq(Nat), back : BOOLEAN]
        BY <1>3 DEF Walked
      <4> QED BY <1>6, <3>8, <4>1
    <3>10. Walked'
      <4>1. n + m \in 1 .. walk.first
        BY <1>1, <1>6, <2>3, <3>4
      <4>2. walk' \in [first : Nat, seen : Seq(Nat), back : BOOLEAN]
        BY <1>3, <3>6, <3>8 DEF Walked
      <4>3. walk'.first \in 1 .. newest' /\ Len(walk'.seen) \in 1 .. walk'.first
        BY <1>1, <1>6, <3>6, <3>9, <4>1
      <4>4. \A i \in 1 .. Len(walk'.seen) : walk'.seen[i] = walk'.first - i + 1
        BY <3>6, <3>7, <3>9
      <4> QED BY <4>2, <4>3, <4>4 DEF Walked
    <3>11. PageAt(c)'
      <4>1. LinkAfter(c)' = LinkAfter(c) /\ PagePath(c + PageSize)' = PagePath(c + PageSize)
        BY <1>1 DEF LinkAfter, PagePath
      <4> QED BY <3>1, <3>3, <3>4, <3>6, <3>9, <4>1 DEF PageAt
    <3>12. PageOK'
      <4>1. Pages' = Pages
        BY DEF Pages, Links
      <4> QED BY <1>1, <2>3, <3>1, <3>11, <4>1 DEF PageOK
    <3> QED BY <1>1, <2>5, <3>2, <3>10, <3>12 DEF PagesInv
  <2> QED BY <2>4, <2>6, <2>7
<1> QED BY <1>9, <1>10

\* The page before the one read has only items that were seen or are newer.
LEMMA PrevPageStep == PagesInv /\ PrevPage => PagesInv'
<1> SUFFICES ASSUME PagesInv, PrevPage PROVE PagesInv'
  OBVIOUS
<1>1. listing \in Listings /\ newest \in 1 .. MaxItems /\ newest \in Nat \ {0}
      /\ listing' = listing /\ newest' = newest /\ MaxItems \in Nat /\ PageSize \in Nat \ {0}
  BY PageNumbers DEF PagesInv, PrevPage
<1>2. IsPage /\ Visit(page.prevPath) /\ walk' = [walk EXCEPT !.back = TRUE]
  BY DEF PrevPage
<1>3. page \in Pages /\ Walked
  BY <1>2 DEF PagesInv, PageOK, IsPage
<1>4. PICK head \in 1 .. newest : PageAt(head)
  BY <1>2 DEF PagesInv, PageOK
<1>5. head \in Nat \ {0} /\ LowOf(head) \in 1 .. head
  BY <1>1, <1>4, LowBounds
<1>6. /\ walk'.first = walk.first /\ walk'.seen = walk.seen /\ walk'.back = TRUE
  <2>1. walk \in [first : Nat, seen : Seq(Nat), back : BOOLEAN]
    BY <1>3 DEF Walked
  <2> QED BY <1>2, <2>1
<1>7. Walked'
  <2>1. walk' \in [first : Nat, seen : Seq(Nat), back : BOOLEAN]
    BY <1>2, <1>3 DEF Walked
  <2> QED BY <1>1, <1>3, <1>6, <2>1 DEF Walked
<1>8. NoPath # Missed /\ NoPath # NoSpec /\ Missed # NoSpec
  BY PagesAssumption
<1>9. CASE page.prevPath = NoPath
  <2>1. page' = Missed
    BY <1>2, <1>9 DEF Visit
  <2>2. page' # NoPath /\ page' # NoSpec /\ ~IsPage'
    BY <1>8, <2>1 DEF IsPage
  <2> QED BY <1>1, <1>6, <1>7, <2>2 DEF PagesInv, FoundOK, PageOK
<1>10. CASE page.prevPath = PagePath(head + PageSize)
  <2> DEFINE c == head + PageSize
  <2>1. c \in Nat \ {0} /\ c > head /\ page.prevPath = PagePath(c)
    BY <1>1, <1>5, <1>10
  <2> HIDE DEF c
  <2>2. page' = sendOperationRequest(PagePath(c)) \/ page' = NoSpec
    BY <1>1, <1>2, <2>1, LinkFollowed
  <2>3. FoundOK'
    <3>1. (\A i \in DOMAIN listing : listing[i] # "my-name.chain") => page' # NoSpec
      BY <1>1, <1>2, <2>1, LinkFollowed
    <3> QED BY <1>1, <3>1 DEF FoundOK
  <2>4. CASE page' = NoSpec
    <3>1. page' # NoPath /\ ~IsPage'
      BY <1>8, <2>4 DEF IsPage
    <3> QED BY <1>1, <1>6, <1>7, <2>3, <3>1 DEF PagesInv, PageOK
  <2>5. CASE page' = sendOperationRequest(PagePath(c))
    <3>1. PICK up \in 1 .. newest :
            /\ up = IF c = NoPath \/ c > newest THEN newest ELSE c
            /\ page'.data = DataFrom(up)
            /\ page'.prevPath \in {NoPath, PagePath(up + PageSize)} /\ page' \in Pages
      BY <1>1, <2>1, <2>5, PageServed
    <3>2. page' \notin {NoPath, Missed, NoSpec}
      BY <3>1, PageIsNone
    <3>3. up \in Nat \ {0} /\ up >= head
      BY <1>1, <1>4, <2>1, <3>1, PageNumbers
    <3>4. LowOf(up) >= LowOf(head) /\ LowOf(up) \in Nat /\ LowOf(head) \in Nat
      BY <1>1, <1>5, <3>3 DEF LowOf
    <3>5. walk.first - Len(walk.seen) + 1 <= LowOf(up)
      <4>1. walk.first - Len(walk.seen) + 1 <= LowOf(head)
        BY <1>4 DEF PageAt
      <4>2. walk.first \in Nat /\ Len(walk.seen) \in Nat
        BY <1>1, <1>3 DEF Walked
      <4> QED BY <3>4, <4>1, <4>2
    <3>6. PageAt(up)'
      <4>1. PagePath(up + PageSize)' = PagePath(up + PageSize)
        BY <1>1 DEF PagePath
      <4> QED BY <1>6, <3>1, <3>5, <4>1 DEF PageAt
    <3>7. PageOK'
      <4>1. Pages' = Pages
        BY DEF Pages, Links
      <4> QED BY <1>1, <3>1, <3>6, <4>1 DEF PageOK
    <3> QED BY <1>1, <1>6, <1>7, <2>3, <3>2, <3>7 DEF PagesInv
  <2> QED BY <2>2, <2>4, <2>5
<1> QED BY <1>4, <1>9, <1>10 DEF PageAt

\* A new item moves no page.
LEMMA NewItemStep == PagesInv /\ (NewItem \/ UNCHANGED pgvars) => PagesInv'
<1> SUFFICES ASSUME PagesInv, NewItem \/ UNCHANGED pgvars PROVE PagesInv'
  OBVIOUS
<1>1. listing' = listing /\ page' = page /\ walk' = walk
  BY DEF NewItem, pgvars
<1>2. newest \in 1 .. MaxItems /\ newest' \in 1 .. MaxItems /\ newest' >= newest
      /\ newest \in Nat /\ newest' \in Nat
  BY PageNumbers DEF PagesInv, NewItem, pgvars
<1>3. ASSUME Walked PROVE Walked'
  <2>1. walk.first \in 1 .. newest'
    BY <1>2, <1>3 DEF Walked
  <2> QED BY <1>1, <1>3, <2>1 DEF Walked
<1>4. PageOK => PageOK'
  <2> SUFFICES ASSUME PageOK, IsPage PROVE page' \in Pages' /\ \E head \in 1 .. newest' : PageAt(head)'
    BY <1>1 DEF PageOK, IsPage
  <2>1. PICK head \in 1 .. newest : PageAt(head)
    BY DEF PageOK
  <2>2. PageAt(head)'
    <3>1. LinkAfter(head)' = LinkAfter(head) /\ PagePath(head + PageSize)' = PagePath(head + PageSize)
      BY <1>1 DEF LinkAfter, PagePath
    <3> QED BY <1>1, <2>1, <3>1 DEF PageAt
  <2>3. head \in 1 .. newest' /\ page \in Pages /\ Pages' = Pages
    BY <1>2, <2>1 DEF PageOK, Pages, Links
  <2> QED BY <1>1, <2>2, <2>3
<1> QED BY <1>1, <1>2, <1>3, <1>4 DEF PagesInv, FoundOK

\* However the listing grows meanwhile, walking its pages one sees all the items there were,
\* each of them once, and going back only those and newer ones.
THEOREM WalksAreWhole == PgSpec => []WalkIsWhole
<1>1. PagesInv /\ [PgNext]_pgvars => PagesInv'
  BY FirstStep, NextPageStep, PrevPageStep, NewItemStep DEF PgNext
<1>2. PagesInv => WalkIsWhole
  <2> SUFFICES ASSUME PagesInv PROVE WalkIsWhole
    OBVIOUS
  <2>1. newest \in Nat \ {0}
    BY PageNumbers DEF PagesInv
  <2>2. \A i \in DOMAIN walk.seen : walk.seen[i] = walk.first - i + 1
    <3>1. CASE page = NoPath
      <4>1. walk.seen = <<>>
        BY <3>1 DEF PagesInv, NoWalk
      <4> QED BY <4>1
    <3>2. CASE page # NoPath
      <4>1. Walked
        BY <3>2 DEF PagesInv
      <4> QED BY <4>1, LenProperties DEF Walked
    <3> QED BY <3>1, <3>2
  <2>3. ASSUME IsPage, walk.back
        PROVE  {page.data[i] : i \in DOMAIN page.data}
                   \subseteq {walk.seen[i] : i \in DOMAIN walk.seen} \cup walk.first + 1 .. newest
    <3>1. Walked
      BY <2>3 DEF PagesInv, IsPage
    <3>2. PICK head \in 1 .. newest : PageAt(head)
      BY <2>3 DEF PagesInv, PageOK
    <3>3. head \in Nat \ {0} /\ LowOf(head) \in 1 .. head
      BY <2>1, <3>2, LowBounds
    <3> DEFINE n == Len(walk.seen)
    <3>4. walk.first \in Nat /\ n \in 1 .. walk.first /\ DOMAIN walk.seen = 1 .. n
          /\ \A j \in 1 .. n : walk.seen[j] = walk.first - j + 1
      BY <2>1, <3>1, LenProperties DEF Walked
    <3>5. page.data = DataFrom(head) /\ walk.first - n + 1 <= LowOf(head)
      BY <3>2 DEF PageAt
    <3> HIDE DEF n
    <3> SUFFICES ASSUME NEW i \in DOMAIN page.data
                 PROVE  page.data[i] \in {walk.seen[j] : j \in DOMAIN walk.seen} \cup walk.first + 1 .. newest
      OBVIOUS
    <3> DEFINE x == page.data[i]
    <3>6. x \in LowOf(head) .. head
      BY <3>3, <3>5 DEF DataFrom
    <3> HIDE DEF x
    <3>7. CASE x > walk.first
      <4>1. x \in walk.first + 1 .. newest
        BY <2>1, <3>2, <3>3, <3>4, <3>6, <3>7
      <4> QED BY <4>1 DEF x
    <3>8. CASE x <= walk.first
      <4> DEFINE j == walk.first - x + 1
      <4>1. j \in 1 .. n
        BY <3>3, <3>4, <3>5, <3>6, <3>8
      <4>2. walk.first - j + 1 = x
        BY <3>3, <3>4, <3>6
      <4> QED BY <3>4, <4>1, <4>2 DEF x
    <3>9. x \in Int /\ walk.first \in Int
      BY <3>3, <3>4, <3>6
    <3> QED BY <3>7, <3>8, <3>9
  <2> QED BY <2>2, <2>3 DEF WalkIsWhole, PagesInv, FoundOK
<1> QED BY <1>1, <1>2, PagesInit, PTL DEF PgSpec
===============================================================================
