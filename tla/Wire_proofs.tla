------------------------------ MODULE Wire_proofs ------------------------------
(***************************************************************************)
(* Theorems about what is sent and received: the messages of a channel's   *)
(* connection (ChannelTransport), the fields of transactions asked of the  *)
(* node (TxPrepare) and their fees (TxFees), signatures, tokens and        *)
(* encoded strings (Bytes).                                                *)
(***************************************************************************)
EXTENDS ChannelTransport, TxPrepare, TxFees, Bytes, QueueLemmas, SequenceTheorems, TLAPS

-----------------------------------------------------------------------------
(* The connection of a channel, for any calls and timeouts *)

\* What each timeout says of the silence of the node: an open socket always has
\* one of them set, and what is left of it and the silence add up.
TimerOK ==
  /\ ws = "connecting" => timer = NoTimer /\ silent = 0
  /\ ws = "open" =>
       \/ timer.for = "ping" /\ silent + timer.left = PingTimeout
       \/ timer.for = "pong" /\ silent + timer.left = PingTimeout + PongTimeout

\* The silence that made the timer close the socket is not forgotten after.
DroppedOK ==
  dropped => ws \in {"closing", "closed"} /\ silent >= PingTimeout + PongTimeout

\* A call has a callback exactly until the first reply to it.
CallOK(c) ==
  IF promise[c] \in {"none", "unsent", "vain"}
  THEN answer[c] = "none" /\ (promise[c] = "none" => c \notin callbacks)
  ELSE IF answer[c] = "none"
  THEN promise[c] = "pending" /\ c \in callbacks
  ELSE promise[c] = Settled(answer[c]) /\ c \notin callbacks

CallsOK == \A c \in Calls : CallOK(c)

IInv == TypeOK /\ TimerOK /\ DroppedOK /\ QuietAfterClose /\ CallsOK

-----------------------------------------------------------------------------

\* The invariant holds at first,
LEMMA InitInvariant == Init => IInv
<1> SUFFICES ASSUME Init PROVE IInv
  OBVIOUS
<1>1. TypeOK
  <2>1. /\ silent \in 0 .. TooLong
        /\ timer \in [for : {"none", "ping", "pong"}, left : Nat]
        /\ timer.for = "none"
    BY TransportAssumption DEF Init, NoTimer, TooLong
  <2>2. /\ callbacks \subseteq Calls
        /\ promise \in [Calls -> {"none", "pending", "resolved", "rejected", "unsent", "vain"}]
        /\ answer \in [Calls -> Replies \cup {"none"}]
    BY DEF Init
  <2> QED
    BY <2>1, <2>2 DEF Init, TypeOK
<1>2. TimerOK /\ DroppedOK /\ QuietAfterClose
  BY DEF Init, TimerOK, DroppedOK, QuietAfterClose
<1>3. CallsOK
  BY DEF Init, CallsOK, CallOK
<1> QED
  BY <1>1, <1>2, <1>3 DEF IInv

\* The calls are left alone by what concerns the socket and the timer only.
LEMMA CallsUntouched ==
  ASSUME CallsOK, UNCHANGED <<callbacks, promise, answer>>
  PROVE  CallsOK'
  BY DEF CallsOK, CallOK, Settled

\* A step on the socket or the timer keeps what the invariant says of them.
LEMMA ConnectionStep ==
  ASSUME IInv,
         \/ Opened \/ Closed \/ Disconnect \/ Identified
         \/ Tick \/ PingFires \/ PongFires
         \/ \E matches \in BOOLEAN : PongArrives(matches)
  PROVE  IInv'
<1>1. CallsOK'
  <2>1. UNCHANGED <<callbacks, promise, answer>>
    BY DEF Opened, Closed, Disconnect, Identified, Tick, PingFires, PongFires,
           PongArrives
  <2> QED
    BY <2>1, CallsUntouched DEF IInv
<1> USE TransportAssumption
    DEF IInv, TypeOK, TimerOK, DroppedOK, QuietAfterClose, NoTimer, TooLong
<1>2. CASE Opened
  BY <1>1, <1>2 DEF Opened, Ping
<1>3. CASE Closed
  BY <1>1, <1>3 DEF Closed
<1>4. CASE Disconnect
  BY <1>1, <1>4 DEF Disconnect
<1>5. CASE Identified
  BY <1>1, <1>5 DEF Identified
<1>6. CASE Tick
  BY <1>1, <1>6 DEF Tick, Due
<1>7. CASE PingFires
  BY <1>1, <1>7 DEF PingFires, Due
<1>8. CASE PongFires
  BY <1>1, <1>8 DEF PongFires, Due
<1>9. CASE \E matches \in BOOLEAN : PongArrives(matches)
  BY <1>1, <1>9 DEF PongArrives, Ping
<1> QED
  BY <1>2, <1>3, <1>4, <1>5, <1>6, <1>7, <1>8, <1>9

\* So does one that concerns a call.
LEMMA CallStep ==
  ASSUME IInv, NEW c \in Calls,
         Call(c) \/ \E reply \in Replies : ReplyArrives(c, reply)
  PROVE  IInv'
<1>1. CASE Call(c)
  <2>1. TypeOK' /\ CallsOK'
    BY <1>1 DEF IInv, TypeOK, CallsOK, CallOK, Call
  <2>2. (TimerOK /\ DroppedOK /\ QuietAfterClose)'
    BY <1>1 DEF IInv, Call, TimerOK, DroppedOK, QuietAfterClose
  <2> QED
    BY <2>1, <2>2 DEF IInv
<1>2. ASSUME NEW reply \in Replies, ReplyArrives(c, reply)
      PROVE  IInv'
  <2>1. Settled(reply) \in {"resolved", "rejected", "pending"}
    BY DEF Settled
  <2>2. TypeOK'
    BY <1>2, <2>1 DEF IInv, TypeOK, ReplyArrives, DeleteCallback
  <2>3. CallsOK'
    <3> SUFFICES ASSUME NEW d \in Calls PROVE CallOK(d)'
      BY DEF CallsOK
    <3>1. CASE d # c
      BY <1>2, <3>1
         DEF IInv, TypeOK, CallsOK, CallOK, ReplyArrives, DeleteCallback, Settled
    <3>2. CASE d = c
      BY <1>2, <2>1, <3>2, ZenonT(60)
         DEF IInv, TypeOK, CallsOK, CallOK, ReplyArrives, DeleteCallback, Replies,
             Settled
    <3> QED
      BY <3>1, <3>2
  <2>4. (TimerOK /\ DroppedOK /\ QuietAfterClose)'
    BY <1>2 DEF IInv, ReplyArrives, TimerOK, DroppedOK, QuietAfterClose
  <2> QED
    BY <2>2, <2>3, <2>4 DEF IInv
<1> QED
  BY <1>1, <1>2

\* it is about the variables alone,
LEMMA StutterInvariant == IInv /\ UNCHANGED vars => IInv'
  BY DEF IInv, TypeOK, TimerOK, DroppedOK, QuietAfterClose, CallsOK, CallOK, Settled,
         vars

\* and no step breaks it.
LEMMA StepInvariant == IInv /\ [Next]_vars => IInv'
  BY ConnectionStep, CallStep, StutterInvariant DEF Next

\* The invariant holds throughout.
THEOREM Invariance == Spec => []IInv
  BY InitInvariant, StepInvariant, PTL DEF Spec

-----------------------------------------------------------------------------

\* Whatever the timeouts, no socket stays open on a node that has been silent for
\* longer than both together (the ping and pong timeouts of internal.ts).
THEOREM SilenceIsNoticed == Spec => []NoticedInTime
<1>1. IInv => NoticedInTime
  BY TransportAssumption DEF IInv, TypeOK, TimerOK, NoticedInTime
<1> QED
  BY <1>1, Invariance, PTL

\* Whatever the timeouts, the timer closes the socket of no node that answered
\* within them, also when pongs, pings and disconnects interleave (ping).
THEOREM AnsweringNodeIsKept == Spec => []NeverDroppedEarly
<1>1. IInv => NeverDroppedEarly
  BY DEF IInv, DroppedOK, NeverDroppedEarly
<1> QED
  BY <1>1, Invariance, PTL

\* Whatever calls are made and however replies are repeated and mixed, each call
\* has the outcome of the first reply to it (onMessage, call).
THEOREM CallsAreAnswered == Spec => []FirstAnswerCounts
<1>1. IInv => FirstAnswerCounts
  <2> SUFFICES ASSUME IInv, NEW c \in Calls, answer[c] # "none"
               PROVE  promise[c] = Settled(answer[c])
    BY DEF FirstAnswerCounts
  <2> QED
    BY DEF IInv, CallsOK, CallOK
<1> QED
  BY <1>1, Invariance, PTL
-----------------------------------------------------------------------------
(* The fields that TxPrepare asks of the node *)

\* The chain goes on, and an account that is not known has spent nothing.
ChainOK ==
    /\ chain \in [height : Nat, cached : Nat, next : Nat \ {0}, known : BOOLEAN, price : Nat]
    /\ chain.cached <= chain.height
    /\ ~chain.known => chain.next = 1

ObjectsOK == DOMAIN params = Objects /\ \A o \in Objects : IsRequest(params[o])

\* What a field of p may be for a call c, when the chain has the height h and the nonce n.
Blocks(r) == IF r.ttl = Unset THEN 3 ELSE r.ttl
TtlFits(p, c, h) == p.ttl - Blocks(c.read) \in c.height - HeightLag .. h
NonceFits(p, c, n) == p.nonce \in c.next .. n

\* A call that has begun; what it was answered is in its object as long as no other call writes there.
FieldsOK(b) ==
    LET c == build[b]  o == c.object IN
    /\ {"is", "left", "result"} \subseteq DOMAIN c
    /\ c.is \in {"new", "built"} => c.left = {}
    /\ c.is # "new" =>
      /\ o \in Objects /\ b \in used[o]
      /\ IsRequest(c.read) /\ c.left \subseteq Asks(c.read)
      /\ c.height \in Nat /\ c.height <= chain.height
      /\ c.next \in Nat \ {0} /\ c.next <= chain.next
      /\ c.is = "preparing" /\ used[o] = {b} =>
           /\ AsksTtl(c.read) /\ "ttl" \notin c.left => TtlFits(params[o], c, chain.height)
           /\ c.read.nonce = Unset /\ "nonce" \notin c.left => NonceFits(params[o], c, chain.next)
      /\ c.is = "built" /\ used[o] = {b} =>
           /\ AsksTtl(c.read) => TtlFits(c.result.params, c, c.result.height)
           /\ c.read.nonce = Unset => NonceFits(c.result.params, c, c.result.next)

PrepareInv ==
    /\ ChainOK /\ ObjectsOK
    /\ used \in [Objects -> SUBSET Builds]
    /\ DOMAIN build = Builds /\ \A b \in Builds : FieldsOK(b)

\* What is asked for.
LEMMA AskedFields ==
    ASSUME NEW p, IsRequest(p)
    PROVE  /\ "ttl" \in Asks(p) <=> AsksTtl(p)
           /\ "nonce" \in Asks(p) <=> p.nonce = Unset
           /\ Asks(p) \subseteq {"nonce", "fee", "gasPrice", "queryFee", "ttl"} /\ Asks(p) \subseteq Fields
BY DEF Asks, IsRequest, Fields

\* A field that is put into an object.
LEMMA PutField ==
    ASSUME NEW p, IsRequest(p), NEW f \in Fields, NEW v, f = "ttl" => v \in Int
    PROVE  LET q == [p EXCEPT ![f] = v] IN
           /\ IsRequest(q)
           /\ f # "ttl" => q.ttl = p.ttl
           /\ f # "nonce" => q.nonce = p.nonce
           /\ f = "ttl" => q.ttl = v
           /\ f = "nonce" => q.nonce = v
BY DEF IsRequest, Fields

\* What a call that has begun knows of the chain.
LEMMA CallFacts ==
    ASSUME PrepareInv, NEW b \in Builds, build[b].is # "new"
    PROVE  /\ IsRequest(build[b].read) /\ build[b].object \in Objects /\ b \in used[build[b].object]
           /\ build[b].left \subseteq Asks(build[b].read)
           /\ build[b].height \in Nat /\ build[b].height <= chain.height
           /\ build[b].next \in Nat \ {0} /\ build[b].next <= chain.next
BY DEF PrepareInv, FieldsOK

\* What the chain is.
LEMMA ChainFacts ==
    ASSUME ChainOK
    PROVE  /\ chain.height \in Nat /\ chain.cached \in Nat /\ chain.next \in Nat \ {0} /\ HeightLag \in Nat
           /\ chain.cached <= chain.height /\ (~chain.known => chain.next = 1)
BY TxPrepareAssumption DEF ChainOK

\* A number of blocks.
LEMMA BlocksType == ASSUME NEW r, IsRequest(r) PROVE Blocks(r) \in Int
<1>1. r.ttl = Unset \/ r.ttl \in Int
  BY DEF IsRequest
<1> QED BY <1>1 DEF Blocks

\* The answers are of the time of the call: a height,
LEMMA HeightAnswer ==
    ASSUME ChainOK, NEW h \in getHeight
    PROVE  h \in Nat /\ h <= chain.height /\ chain.height <= h + HeightLag
<1>1. getHeight = IF chain.height <= chain.cached + HeightLag THEN {chain.cached, chain.height} ELSE {chain.height}
  BY Zenon DEF getHeight
<1>2. h = chain.height \/ (h = chain.cached /\ chain.height <= chain.cached + HeightLag)
  BY <1>1
<1> QED BY <1>2, ChainFacts

\* a ttl,
LEMMA TtlAnswer ==
    ASSUME PrepareInv, NEW b \in Builds, build[b].is # "new", NEW h \in getHeight
    PROVE  /\ PrepareTtl(build[b].read, h) = {Blocks(build[b].read) + h}
           /\ Blocks(build[b].read) + h \in Int
           /\ (Blocks(build[b].read) + h) - Blocks(build[b].read) \in build[b].height - HeightLag .. chain.height
<1> DEFINE n == Blocks(build[b].read)
           started == build[b].height
<1>1. PrepareTtl(build[b].read, h) = {n + h}
  BY DEF PrepareTtl, Blocks
<1>2. n \in Int
  BY CallFacts, BlocksType
<1>3. h \in Nat /\ h <= chain.height /\ chain.height <= h + HeightLag
  BY HeightAnswer DEF PrepareInv
<1>4. HeightLag \in Nat /\ chain.height \in Nat
  BY ChainFacts DEF PrepareInv
<1>5. started \in Nat /\ started <= chain.height
  BY CallFacts
<1> HIDE DEF n, started
<1>6. n + h \in Int /\ (n + h) - n = h
  BY <1>2, <1>3
<1>7. h \in started - HeightLag .. chain.height
  BY <1>3, <1>4, <1>5
<1> QED BY <1>1, <1>6, <1>7 DEF n, started

\* and a nonce.
LEMMA NonceAnswer ==
    ASSUME PrepareInv, NEW b \in Builds, build[b].is # "new"
    PROVE  PrepareNonce(b) \subseteq build[b].next .. chain.next
<1>1. build[b].next \in Nat \ {0} /\ build[b].next <= chain.next
  BY CallFacts
<1>2. chain.next \in Nat \ {0} /\ (~chain.known => chain.next = 1)
  BY ChainFacts DEF PrepareInv
<1> QED BY <1>1, <1>2 DEF PrepareNonce

\* Every step keeps the invariant.
LEMMA PrepareStep == PrepareInv /\ [TpNext]_tpvars => PrepareInv'
<1> SUFFICES ASSUME PrepareInv, [TpNext]_tpvars PROVE PrepareInv'
  OBVIOUS
<1>0. ChainOK /\ ObjectsOK /\ used \in [Objects -> SUBSET Builds] /\ DOMAIN build = Builds
      /\ \A b \in Builds : FieldsOK(b)
  BY DEF PrepareInv
\* A chain that goes on alone.
<1>1. ASSUME ChainOK', chain.height <= chain'.height, chain.next <= chain'.next, UNCHANGED <<params, build, used>>
      PROVE  PrepareInv'
  <2>1. ASSUME NEW b \in Builds PROVE FieldsOK(b)'
    <3>1. FieldsOK(b)
      BY <1>0
    <3> QED BY <1>0, <1>1, <3>1, TxPrepareAssumption DEF FieldsOK, TtlFits, NonceFits, ChainOK
  <2> QED BY <1>0, <1>1, <2>1 DEF PrepareInv, ObjectsOK
<1>2. CASE MineKeyBlock
  BY <1>0, <1>1, <1>2 DEF MineKeyBlock, ChainOK
<1>3. CASE SpendOther
  <2>1. /\ chain' = [chain EXCEPT !.next = chain.next + (IF chain.known THEN 1 ELSE 0), !.known = TRUE]
        /\ UNCHANGED <<params, build, used>>
    BY <1>3 DEF SpendOther
  <2>2. chain \in [height : Nat, cached : Nat, next : Nat \ {0}, known : BOOLEAN, price : Nat]
    BY <1>0 DEF ChainOK
  <2>3. chain.next \in Nat \ {0} /\ chain.next + (IF chain.known THEN 1 ELSE 0) \in Nat \ {0}
        /\ chain.next <= chain.next + (IF chain.known THEN 1 ELSE 0)
    BY <2>2
  <2>4. chain'.next = chain.next + (IF chain.known THEN 1 ELSE 0) /\ chain'.known
        /\ chain'.height = chain.height /\ chain'.cached = chain.cached
    BY <2>1, <2>2
  <2>5. chain' \in [height : Nat, cached : Nat, next : Nat \ {0}, known : BOOLEAN, price : Nat]
    BY <2>1, <2>2, <2>3
  <2>6. chain.height <= chain'.height
    BY <2>2, <2>4
  <2>7. ChainOK'
    BY <1>0, <2>4, <2>5 DEF ChainOK
  <2> QED BY <1>1, <2>1, <2>3, <2>4, <2>6, <2>7
<1>4. ASSUME NEW b \in Builds, NEW o \in Objects, buildTxAsync(b, o) PROVE PrepareInv'
  <2> DEFINE p == params[o]
  <2>1. /\ build[b].is = "new" /\ build'[b].object = o /\ build'[b].read = p
        /\ build'[b].is = (IF Asks(p) = {} THEN "built" ELSE IF p.onNode THEN "preparing" ELSE "failed")
        /\ build'[b].left = (IF p.onNode THEN Asks(p) ELSE {})
        /\ build'[b].height = chain.height /\ build'[b].next = chain.next
        /\ {"is", "left", "result"} \subseteq DOMAIN build'[b]
    BY <1>0, <1>4 DEF buildTxAsync
  <2>2. /\ \A d \in Builds \ {b} : build'[d] = build[d]
        /\ DOMAIN build' = Builds
        /\ used' = [used EXCEPT ![o] = @ \cup {b}] /\ params' = params /\ chain' = chain
    BY <1>0, <1>4 DEF buildTxAsync
  <2>3. IsRequest(p)
    BY <1>0 DEF ObjectsOK
  <2>4. FieldsOK(b)'
    <3>1. Asks(p) = {} => ~AsksTtl(p) /\ p.nonce # Unset
      BY <2>3, AskedFields
    <3>2. build'[b].is = "preparing" => build'[b].left = Asks(p)
      BY <2>1
    <3>3. build'[b].is = "built" => Asks(p) = {}
      BY <2>1
    <3>4. build'[b].left \subseteq Asks(p)
      BY <2>1
    <3>5. b \in used'[o]
      BY <1>0, <2>2
    <3> QED BY <1>0, <2>1, <2>2, <2>3, <3>1, <3>2, <3>3, <3>4, <3>5, AskedFields DEF FieldsOK, ChainOK
  <2>5. ASSUME NEW d \in Builds \ {b} PROVE FieldsOK(d)'
    <3>1. FieldsOK(d) /\ build'[d] = build[d]
      BY <1>0, <2>2
    <3>2. ASSUME build[d].is # "new"
          PROVE  LET x == build[d].object IN d \in used'[x] /\ (used'[x] = {d} => used[x] = {d})
      BY <1>0, <2>2, <3>1, <3>2 DEF FieldsOK
    <3> QED BY <2>2, <3>1, <3>2 DEF FieldsOK, TtlFits, NonceFits
  <2>6. ChainOK' /\ ObjectsOK' /\ used' \in [Objects -> SUBSET Builds]
    BY <1>0, <2>2 DEF ChainOK, ObjectsOK
  <2> QED BY <2>2, <2>4, <2>5, <2>6 DEF PrepareInv
<1>5. ASSUME NEW b \in Builds, NEW f \in Fields, Answered(b, f) PROVE PrepareInv'
  <2> DEFINE c == build[b]  o == build[b].object  n == Blocks(build[b].read)
             r == build[b].left \ {f}
  <2>1. FieldsOK(b) /\ f \in c.left
    BY <1>0, <1>5 DEF Answered
  <2>2. c.is # "new" /\ c.is # "built"
    BY <2>1 DEF FieldsOK
  <2>3. o \in Objects /\ b \in used[o] /\ IsRequest(params[o]) /\ IsRequest(c.read) /\ f \in Asks(c.read)
    BY <1>0, <2>1, <2>2 DEF FieldsOK, ObjectsOK
  <2>4. PICK h \in IF f = "ttl" THEN getHeight ELSE {chain.cached} :
        \E v \in Prepare(f, c.read, b, h) :
          LET p == [params[o] EXCEPT ![f] = v]
              last == c.left = {f} /\ c.is = "preparing" IN
          /\ params' = [params EXCEPT ![o] = p]
          /\ build' = [build EXCEPT ![b].left = @ \ {f}, ![b].is = IF last THEN "built" ELSE @,
               ![b].result = IF last THEN [params |-> p, height |-> chain.height, next |-> chain.next] ELSE @]
          /\ chain' = [chain EXCEPT !.cached = h] /\ used' = used
    BY <1>5 DEF Answered
  <2>5. PICK v \in Prepare(f, c.read, b, h) :
          LET p == [params[o] EXCEPT ![f] = v]
              last == c.left = {f} /\ c.is = "preparing" IN
          /\ params' = [params EXCEPT ![o] = p]
          /\ build' = [build EXCEPT ![b].left = @ \ {f}, ![b].is = IF last THEN "built" ELSE @,
               ![b].result = IF last THEN [params |-> p, height |-> chain.height, next |-> chain.next] ELSE @]
          /\ chain' = [chain EXCEPT !.cached = h] /\ used' = used
    BY <2>4
  <2> DEFINE p == [params[o] EXCEPT ![f] = v]  last == c.left = {f} /\ c.is = "preparing"
  <2>6. /\ params' = [params EXCEPT ![o] = p] /\ used' = used /\ chain' = [chain EXCEPT !.cached = h]
        /\ build' = [build EXCEPT ![b].left = @ \ {f}, ![b].is = IF last THEN "built" ELSE @,
               ![b].result = IF last THEN [params |-> p, height |-> chain.height, next |-> chain.next] ELSE @]
    BY <2>5
  <2>7. f = "ttl" => v \in Int /\ v - n \in c.height - HeightLag .. chain.height
    <3>1. SUFFICES ASSUME f = "ttl" PROVE v \in Int /\ v - n \in c.height - HeightLag .. chain.height
      OBVIOUS
    <3>2. h \in getHeight /\ v \in PrepareTtl(c.read, h)
      BY <2>5, <3>1 DEF Prepare
    <3>3. v = n + h
      BY <2>2, <3>2, TtlAnswer
    <3> QED BY <2>2, <3>2, <3>3, TtlAnswer
  <2>8. f = "nonce" => v \in c.next .. chain.next
    BY <2>2, <2>5, NonceAnswer DEF Prepare
  <2>9. /\ IsRequest(p)
        /\ f # "ttl" => p.ttl = params[o].ttl
        /\ f # "nonce" => p.nonce = params[o].nonce
        /\ f = "ttl" => p.ttl = v
        /\ f = "nonce" => p.nonce = v
    BY <2>3, <2>7, PutField
  <2> HIDE DEF p
  <2>10. ChainOK' /\ chain'.height = chain.height /\ chain'.next = chain.next
    <3>1. h \in Nat /\ h <= chain.height
      <4>1. h = chain.cached \/ h \in getHeight
        BY <2>4
      <4> QED BY <1>0, <4>1, HeightAnswer, ChainFacts
    <3> QED BY <1>0, <2>6, <3>1 DEF ChainOK
  <2>11. ObjectsOK' /\ used' \in [Objects -> SUBSET Builds] /\ DOMAIN build' = Builds
    BY <1>0, <2>3, <2>6, <2>9 DEF ObjectsOK
  <2>12. FieldsOK(b)'
    <3> DEFINE got == [params |-> p, height |-> chain.height, next |-> chain.next]
    <3>0. {"is", "left", "result"} \subseteq DOMAIN c
      BY <2>1 DEF FieldsOK
    <3>a. build'[b] = [c EXCEPT !.left = r, !.is = IF last THEN "built" ELSE @, !.result = IF last THEN got ELSE @]
      BY <1>0, <2>6
    <3>1. params'[o] = p /\ build'[b].left = r
      BY <1>0, <2>3, <2>6, <3>0, <3>a DEF ObjectsOK
    <3>1a. /\ build'[b].is = (IF last THEN "built" ELSE c.is)
           /\ build'[b].object = o /\ build'[b].read = c.read
           /\ build'[b].height = c.height /\ build'[b].next = c.next
           /\ {"is", "left", "result"} \subseteq DOMAIN build'[b]
      BY <3>0, <3>a
    <3>1b. last => build'[b].result = got
      BY <3>0, <3>a
    <3> DEFINE fits(left) == /\ AsksTtl(c.read) /\ "ttl" \notin left => TtlFits(p, c, chain.height)
                             /\ c.read.nonce = Unset /\ "nonce" \notin left => NonceFits(p, c, chain.next)
    <3>2. c.is = "preparing" /\ used[o] = {b} => fits(r)
      <4>1. SUFFICES ASSUME c.is = "preparing", used[o] = {b} PROVE fits(r)
        OBVIOUS
      <4>2. /\ AsksTtl(c.read) /\ "ttl" \notin c.left => TtlFits(params[o], c, chain.height)
            /\ c.read.nonce = Unset /\ "nonce" \notin c.left => NonceFits(params[o], c, chain.next)
        BY <2>1, <2>2, <4>1 DEF FieldsOK
      <4>3. ASSUME AsksTtl(c.read), "ttl" \notin r PROVE TtlFits(p, c, chain.height)
        <5>1. CASE f = "ttl"
          BY <2>7, <2>9, <5>1 DEF TtlFits
        <5>2. CASE f # "ttl"
          BY <2>9, <4>2, <4>3, <5>2 DEF TtlFits
        <5> QED BY <5>1, <5>2
      <4>4. ASSUME c.read.nonce = Unset, "nonce" \notin r PROVE NonceFits(p, c, chain.next)
        <5>1. CASE f = "nonce"
          BY <2>8, <2>9, <5>1 DEF NonceFits
        <5>2. CASE f # "nonce"
          BY <2>9, <4>2, <4>4, <5>2 DEF NonceFits
        <5> QED BY <5>1, <5>2
      <4> QED BY <4>3, <4>4
    <3>3. last => r = {} /\ c.is = "preparing"
      OBVIOUS
    <3> DEFINE e == build'[b]
    <3>4. e.is # "new" /\ e.left \subseteq Asks(e.read) /\ (e.is = "built" => last /\ e.left = {})
          /\ (e.is = "preparing" => c.is = "preparing")
      BY <2>1, <2>2, <3>1, <3>1a, <3>3 DEF FieldsOK
    <3>5. /\ e.object \in Objects /\ b \in used'[e.object] /\ IsRequest(e.read)
          /\ e.height \in Nat /\ e.height <= chain'.height
          /\ e.next \in Nat \ {0} /\ e.next <= chain'.next
      BY <2>1, <2>2, <2>6, <2>10, <3>1, <3>1a DEF FieldsOK
    <3>6. e.is = "preparing" /\ used'[e.object] = {b} =>
            /\ AsksTtl(e.read) /\ "ttl" \notin e.left => TtlFits(params'[e.object], e, chain'.height)
            /\ e.read.nonce = Unset /\ "nonce" \notin e.left => NonceFits(params'[e.object], e, chain'.next)
      BY <2>6, <2>10, <3>1, <3>1a, <3>2, <3>4 DEF TtlFits, NonceFits
    <3>7. e.is = "built" /\ used'[e.object] = {b} =>
            /\ AsksTtl(e.read) => TtlFits(e.result.params, e, e.result.height)
            /\ e.read.nonce = Unset => NonceFits(e.result.params, e, e.result.next)
      <4>1. SUFFICES ASSUME e.is = "built", used'[e.object] = {b}
                     PROVE  /\ AsksTtl(e.read) => TtlFits(e.result.params, e, e.result.height)
                            /\ e.read.nonce = Unset => NonceFits(e.result.params, e, e.result.next)
        OBVIOUS
      <4>2. last /\ fits({})
        BY <2>6, <3>1, <3>1a, <3>2, <3>3, <3>4, <4>1
      <4>3. e.result.params = p /\ e.result.height = chain.height /\ e.result.next = chain.next
        BY <3>1b, <4>2
      <4>4. e.read = c.read /\ e.height = c.height /\ e.next = c.next
        BY <3>1a
      <4> QED BY <4>2, <4>3, <4>4 DEF TtlFits, NonceFits
    <3> QED BY <3>1a, <3>4, <3>5, <3>6, <3>7 DEF FieldsOK
  <2>13. ASSUME NEW d \in Builds \ {b} PROVE FieldsOK(d)'
    <3>1. FieldsOK(d) /\ build'[d] = build[d] /\ used' = used
      BY <1>0, <2>6
    <3>2. build[d].object \in Objects \ {o} => params'[build[d].object] = params[build[d].object]
      BY <1>0, <2>6 DEF ObjectsOK
    <3>3. build[d].object = o => used[o] # {d}
      BY <2>3
    <3> QED BY <2>10, <3>1, <3>2, <3>3 DEF FieldsOK, TtlFits, NonceFits
  <2> QED BY <2>10, <2>11, <2>12, <2>13 DEF PrepareInv
<1>6. ASSUME NEW b \in Builds, NEW f \in Fields, Failed(b, f) PROVE PrepareInv'
  <2>1. ASSUME NEW d \in Builds PROVE FieldsOK(d)'
    <3>1. FieldsOK(d)
      BY <1>0
    <3>2. CASE d = b
      <4>1. /\ build'[d].is = "failed" /\ build'[d].left \subseteq build[d].left
            /\ build'[d].object = build[d].object /\ build'[d].read = build[d].read
            /\ build'[d].height = build[d].height /\ build'[d].next = build[d].next
            /\ {"is", "left", "result"} \subseteq DOMAIN build'[d]
        BY <1>0, <1>6, <3>1, <3>2 DEF Failed, FieldsOK
      <4>2. build[d].is # "new" /\ UNCHANGED <<params, used, chain>>
        BY <1>6, <3>1, <3>2 DEF FieldsOK, Failed
      <4> QED BY <3>1, <4>1, <4>2 DEF FieldsOK
    <3>3. CASE d # b
      <4>1. build'[d] = build[d] /\ UNCHANGED <<params, used, chain>>
        BY <1>0, <1>6, <3>3 DEF Failed
      <4> QED BY <3>1, <4>1 DEF FieldsOK, TtlFits, NonceFits
    <3> QED BY <3>2, <3>3
  <2> QED BY <1>0, <1>6, <2>1 DEF Failed, PrepareInv, ChainOK, ObjectsOK
<1>7. CASE UNCHANGED tpvars
  BY <1>0, <1>1, <1>7 DEF tpvars, ChainOK
<1> QED BY <1>2, <1>3, <1>4, <1>5, <1>6, <1>7 DEF TpNext

\* The fields that a call asks of the node are of the time of the call, for any calls of any objects
\* that wait for their answers together (src/src/tx/builder/index.ts, buildTxAsync).
THEOREM FieldsAreAlwaysCurrent == TpSpec => []FieldsAreCurrent
<1>1. TpInit => PrepareInv
  <2> SUFFICES ASSUME TpInit PROVE PrepareInv
    OBVIOUS
  <2>1. ChainOK
    <3>1. chain \in [height : {10}, cached : {10}, next : {1}, known : {FALSE}, price : {2}]
      BY DEF TpInit
    <3>2. chain.height = 10 /\ chain.cached = 10 /\ chain.next = 1
      BY <3>1
    <3>3. {10} \subseteq Nat /\ {1} \subseteq Nat \ {0} /\ {FALSE} \subseteq BOOLEAN /\ {2} \subseteq Nat
      OBVIOUS
    <3>4. chain \in [height : Nat, cached : Nat, next : Nat \ {0}, known : BOOLEAN, price : Nat]
      BY Zenon, <3>1, <3>3
    <3> QED BY <3>2, <3>4 DEF ChainOK
  <2>2. ObjectsOK
    <3>1. PICK r \in Requested : params = [o \in Objects |-> IF o = Other THEN r ELSE FirstRequest]
      BY DEF TpInit
    <3>2. IsRequest(r) /\ IsRequest(FirstRequest)
      BY TxPrepareAssumption
    <3> QED BY <3>1, <3>2 DEF ObjectsOK
  <2>3. used \in [Objects -> SUBSET Builds]
    BY DEF TpInit
  <2>4. DOMAIN build = Builds /\ \A b \in Builds : FieldsOK(b)
    BY DEF TpInit, NotStarted, FieldsOK
  <2> QED BY <2>1, <2>2, <2>3, <2>4 DEF PrepareInv
<1>2. PrepareInv => FieldsAreCurrent
  <2> SUFFICES ASSUME PrepareInv, NEW b \in Builds, BuiltAlone(b)
               PROVE  LET p == build[b].read  r == build[b].result IN
                      /\ (p._isInternalBuild /\ ~p.absoluteTtl /\ p.ttl # 0) =>
                           r.params.ttl - (IF p.ttl = Unset THEN 3 ELSE p.ttl) \in build[b].height - HeightLag .. r.height
                      /\ p.nonce = Unset => r.params.nonce \in build[b].next .. r.next
    BY DEF FieldsAreCurrent, ExpiresSoon, NonceOfTheMoment
  <2>1. FieldsOK(b) /\ build[b].is = "built" /\ used[build[b].object] = {b}
    BY DEF PrepareInv, BuiltAlone
  <2>2. LET c == build[b] IN
        /\ AsksTtl(c.read) => TtlFits(c.result.params, c, c.result.height)
        /\ c.read.nonce = Unset => NonceFits(c.result.params, c, c.result.next)
    BY <2>1 DEF FieldsOK
  <2> QED BY <2>2 DEF AsksTtl, TtlFits, NonceFits, Blocks
<1> QED BY <1>1, <1>2, PrepareStep, PTL DEF TpSpec
-----------------------------------------------------------------------------
(* What is signed *)

\* Tuples that are the same are so part by part, and have as many parts.
LEMMA SamePairs ==
    ASSUME NEW a, NEW b, NEW c, NEW d, <<a, b>> = <<c, d>>
    PROVE  a = c /\ b = d
OBVIOUS

LEMMA SameTriples ==
    ASSUME NEW a, NEW b, NEW c, NEW d, NEW e, NEW f, <<a, b, c>> = <<d, e, f>>
    PROVE  a = d /\ b = e /\ c = f
OBVIOUS

LEMMA SameFours ==
    ASSUME NEW a, NEW b, NEW c, NEW d, NEW e, NEW f, NEW g, NEW h, <<a, b, c, d>> = <<e, f, g, h>>
    PROVE  a = e /\ b = f /\ c = g /\ d = h
OBVIOUS

LEMMA SameFives ==
    ASSUME NEW a, NEW b, NEW c, NEW d, NEW e, NEW f, NEW g, NEW h, NEW i, NEW j,
           <<a, b, c, d, e>> = <<f, g, h, i, j>>
    PROVE  a = f /\ b = g /\ c = h /\ d = i /\ e = j
OBVIOUS

LEMMA OtherTuples ==
    /\ \A a, b, c, d, e : <<a, b>> # <<c, d, e>>
    /\ \A a, b, c, d, e, f : <<a, b>> # <<c, d, e, f>>
    /\ \A a, b, c, d, e, f, g : <<a, b>> # <<c, d, e, f, g>>
    /\ \A a, b, c, d, e, f, g : <<a, b, c>> # <<d, e, f, g>>
    /\ \A a, b, c, d, e, f, g, h : <<a, b, c>> # <<d, e, f, g, h>>
    /\ \A a, b, c, d, e, f, g, h, i : <<a, b, c, d>> # <<e, f, g, h, i>>
<1>1. /\ \A a, b : Len(<<a, b>>) = 2
      /\ \A a, b, c : Len(<<a, b, c>>) = 3
      /\ \A a, b, c, d : Len(<<a, b, c, d>>) = 4
      /\ \A a, b, c, d, e : Len(<<a, b, c, d, e>>) = 5
  OBVIOUS
<1> QED BY <1>1

\* The requests of each kind, and what is signed for them.
IsMessage(r) == /\ r = Asked("message", r.of, None, None, None, FALSE)
                /\ bytesFor(r) = <<"hash", <<"0x1a", "messagePrefix", "length", r.of>>>>
IsDelegation(r) == /\ r = Asked("delegation", r.of, r.networkId, None, None, FALSE)
                   /\ bytesFor(r) = <<"0x1a", "0x01", r.networkId, r.of>>
IsInner(r) == /\ r = Asked("transaction", r.of, r.networkId, None, None, TRUE)
              /\ bytesFor(r) = <<r.networkId, "-inner_tx", <<"hash", r.of>>>>
IsTransaction(r) == /\ r = Asked("transaction", r.of, r.networkId, None, None, FALSE)
                    /\ bytesFor(r) = <<r.networkId, <<"hash", r.of>>>>
IsData(r) == /\ r = Asked("data", r.of, None, r.type, r.domain, FALSE)
             /\ bytesFor(r) =
                  <<"hash", <<"0x1a", "0x00", hashDomain(r.domain), hashJson(r.type), hash(<<r.of>>)>>>>

LEMMA RequestKinds ==
    ASSUME NEW r \in Requests
    PROVE  IsMessage(r) \/ IsDelegation(r) \/ IsInner(r) \/ IsTransaction(r) \/ IsData(r)
<1>1. CASE \E t \in Texts : r = Asked("message", t, None, None, None, FALSE)
  <2>1. PICK t \in Texts : r = Asked("message", t, None, None, None, FALSE)
    BY <1>1
  <2>2. r.kind = "message" /\ r.of = t
    BY <2>1 DEF Asked
  <2>3. bytesFor(r) = hashMessage(t)
    BY <2>2 DEF bytesFor
  <2> QED BY <2>1, <2>2, <2>3 DEF hashMessage, hash, messagePrefixLength, IsMessage
<1>2. CASE \E t \in Texts, n \in Networks : r = Asked("delegation", t, n, None, None, FALSE)
  <2>1. PICK t \in Texts, n \in Networks : r = Asked("delegation", t, n, None, None, FALSE)
    BY <1>2
  <2>2. r.kind = "delegation" /\ r.of = t /\ r.networkId = n
    BY <2>1 DEF Asked
  <2>3. bytesFor(r) = delegationBytes(t, n)
    BY <2>2 DEF bytesFor
  <2> QED BY <2>1, <2>2, <2>3 DEF delegationBytes, messagePrefixLength, IsDelegation
<1>3. CASE \E t \in Texts, n \in Networks, i \in BOOLEAN : r = Asked("transaction", t, n, None, None, i)
  <2>1. PICK t \in Texts, n \in Networks, i \in BOOLEAN : r = Asked("transaction", t, n, None, None, i)
    BY <1>3
  <2>2. r.kind = "transaction" /\ r.of = t /\ r.networkId = n /\ r.innerTx = i
    BY <2>1 DEF Asked
  <2>3. bytesFor(r) = getBufferToSign(t, n, i)
    BY <2>2 DEF bytesFor
  <2>4. CASE i
    <3>1. r = Asked("transaction", t, n, None, None, TRUE)
      BY <2>1, <2>4
    <3>2. bytesFor(r) = <<n, "-inner_tx", <<"hash", t>>>>
      BY <2>3, <2>4 DEF getBufferToSign, hash
    <3> QED BY <2>2, <3>1, <3>2 DEF IsInner
  <2>5. CASE ~i
    BY <2>1, <2>2, <2>3, <2>5 DEF getBufferToSign, hash, IsTransaction, Asked
  <2> QED BY <2>4, <2>5
<1>4. CASE \E t \in Texts, y \in TypedAs, d \in Domains : r = Asked("data", t, None, y, d, FALSE)
  <2>1. PICK t \in Texts, y \in TypedAs, d \in Domains : r = Asked("data", t, None, y, d, FALSE)
    BY <1>4
  <2>2. r.kind = "data" /\ r.of = t /\ r.type = y /\ r.domain = d
    BY <2>1 DEF Asked
  <2>3. bytesFor(r) = hashTypedData(t, y, d)
    BY <2>2 DEF bytesFor
  <2>4. hashTypedData(t, y, d) = <<"hash", <<"0x1a", "0x00", hashDomain(d), hashJson(y), hash(<<t>>)>>>>
    BY Zenon DEF hashTypedData, hash, messagePrefixLength
  <2>5. r = Asked("data", r.of, None, r.type, r.domain, FALSE)
    BY <2>1, <2>2
  <2>6. bytesFor(r) = <<"hash", <<"0x1a", "0x00", hashDomain(r.domain), hashJson(r.type), hash(<<r.of>>)>>>>
    BY <2>2, <2>3, <2>4
  <2> QED BY Zenon, <2>5, <2>6 DEF IsData
<1>5. \/ \E t \in Texts : r = Asked("message", t, None, None, None, FALSE)
      \/ \E t \in Texts, n \in Networks : r = Asked("delegation", t, n, None, None, FALSE)
      \/ \E t \in Texts, n \in Networks, i \in BOOLEAN : r = Asked("transaction", t, n, None, None, i)
      \/ \E t \in Texts, y \in TypedAs, d \in Domains : r = Asked("data", t, None, y, d, FALSE)
  BY DEF Requests, Asked
<1> QED BY <1>1, <1>2, <1>3, <1>4, <1>5

\* The bytes that are signed tell what was asked for.
LEMMA BytesTellRequest ==
    ASSUME NEW r \in Requests, NEW s \in Requests, bytesFor(r) = bytesFor(s)
    PROVE  r = s
<1>1. ASSUME NEW a \in Requests, NEW b \in Requests, bytesFor(a) = bytesFor(b)
      PROVE  /\ ~(IsMessage(a) /\ IsDelegation(b)) /\ ~(IsMessage(a) /\ IsInner(b))
             /\ ~(IsMessage(a) /\ IsTransaction(b)) /\ ~(IsMessage(a) /\ IsData(b))
             /\ ~(IsDelegation(a) /\ IsInner(b)) /\ ~(IsDelegation(a) /\ IsTransaction(b))
             /\ ~(IsDelegation(a) /\ IsData(b)) /\ ~(IsInner(a) /\ IsTransaction(b))
             /\ ~(IsInner(a) /\ IsData(b)) /\ ~(IsTransaction(a) /\ IsData(b))
  <2>1. ~(IsMessage(a) /\ IsDelegation(b))
    BY <1>1, OtherTuples DEF IsMessage, IsDelegation
  <2>2. ~(IsMessage(a) /\ IsInner(b))
    BY <1>1, OtherTuples DEF IsMessage, IsInner
  <2>3. ~(IsMessage(a) /\ IsTransaction(b))
    <3>1. SUFFICES ASSUME <<"hash", <<"0x1a", "messagePrefix", "length", a.of>>>> = <<b.networkId, <<"hash", b.of>>>>
                   PROVE  FALSE
      BY <1>1 DEF IsMessage, IsTransaction
    <3>2. <<"0x1a", "messagePrefix", "length", a.of>> = <<"hash", b.of>>
      BY <3>1, SamePairs
    <3> QED BY <3>2, OtherTuples
  <2>4. ~(IsMessage(a) /\ IsData(b))
    <3> DEFINE data == <<"0x1a", "0x00", hashDomain(b.domain), hashJson(b.type), hash(<<b.of>>)>>
    <3>1. SUFFICES ASSUME <<"hash", <<"0x1a", "messagePrefix", "length", a.of>>>> = <<"hash", data>>
                   PROVE  FALSE
      BY <1>1 DEF IsMessage, IsData
    <3>2. <<"0x1a", "messagePrefix", "length", a.of>> = data
      BY <3>1, SamePairs
    <3> QED BY <3>2, OtherTuples
  <2>5. ~(IsDelegation(a) /\ IsInner(b))
    BY <1>1, OtherTuples DEF IsDelegation, IsInner
  <2>6. ~(IsDelegation(a) /\ IsTransaction(b))
    BY <1>1, OtherTuples DEF IsDelegation, IsTransaction
  <2>7. ~(IsDelegation(a) /\ IsData(b))
    BY <1>1, OtherTuples DEF IsDelegation, IsData
  <2>8. ~(IsInner(a) /\ IsTransaction(b))
    BY <1>1, OtherTuples DEF IsInner, IsTransaction
  <2>9. ~(IsInner(a) /\ IsData(b))
    BY <1>1, OtherTuples DEF IsInner, IsData
  <2>10. ~(IsTransaction(a) /\ IsData(b))
    <3> DEFINE data == <<"0x1a", "0x00", hashDomain(b.domain), hashJson(b.type), hash(<<b.of>>)>>
    <3>1. SUFFICES ASSUME <<a.networkId, <<"hash", a.of>>>> = <<"hash", data>>
                   PROVE  FALSE
      BY <1>1 DEF IsTransaction, IsData
    <3>2. <<"hash", a.of>> = data
      BY <3>1, SamePairs
    <3> QED BY <3>2, OtherTuples
  <2> QED BY <2>1, <2>2, <2>3, <2>4, <2>5, <2>6, <2>7, <2>8, <2>9, <2>10
<1>2. \/ IsMessage(r) /\ IsMessage(s)
      \/ IsDelegation(r) /\ IsDelegation(s)
      \/ IsInner(r) /\ IsInner(s)
      \/ IsTransaction(r) /\ IsTransaction(s)
      \/ IsData(r) /\ IsData(s)
  BY <1>1, RequestKinds
<1>3. CASE IsMessage(r) /\ IsMessage(s)
  <2>1. <<"0x1a", "messagePrefix", "length", r.of>> = <<"0x1a", "messagePrefix", "length", s.of>>
    <3>1. <<"hash", <<"0x1a", "messagePrefix", "length", r.of>>>>
            = <<"hash", <<"0x1a", "messagePrefix", "length", s.of>>>>
      BY <1>3 DEF IsMessage
    <3> QED BY <3>1, SamePairs
  <2>2. r.of = s.of
    BY <2>1, SameFours
  <2> QED BY <1>3, <2>2 DEF IsMessage
<1>4. CASE IsDelegation(r) /\ IsDelegation(s)
  <2>1. r.networkId = s.networkId /\ r.of = s.of
    <3>1. <<"0x1a", "0x01", r.networkId, r.of>> = <<"0x1a", "0x01", s.networkId, s.of>>
      BY <1>4 DEF IsDelegation
    <3> QED BY <3>1, SameFours
  <2> QED BY <1>4, <2>1 DEF IsDelegation
<1>5. CASE IsInner(r) /\ IsInner(s)
  <2>1. r.networkId = s.networkId /\ <<"hash", r.of>> = <<"hash", s.of>>
    <3>1. <<r.networkId, "-inner_tx", <<"hash", r.of>>>> = <<s.networkId, "-inner_tx", <<"hash", s.of>>>>
      BY <1>5 DEF IsInner
    <3> QED BY <3>1, SameTriples
  <2>2. r.of = s.of
    BY <2>1, SamePairs
  <2> QED BY <1>5, <2>1, <2>2 DEF IsInner
<1>6. CASE IsTransaction(r) /\ IsTransaction(s)
  <2>1. r.networkId = s.networkId /\ <<"hash", r.of>> = <<"hash", s.of>>
    <3>1. <<r.networkId, <<"hash", r.of>>>> = <<s.networkId, <<"hash", s.of>>>>
      BY <1>6 DEF IsTransaction
    <3> QED BY <3>1, SamePairs
  <2>2. r.of = s.of
    BY <2>1, SamePairs
  <2> QED BY <1>6, <2>1, <2>2 DEF IsTransaction
<1>7. CASE IsData(r) /\ IsData(s)
  <2> DEFINE data(x) == <<"0x1a", "0x00", hashDomain(x.domain), hashJson(x.type), hash(<<x.of>>)>>
  <2>0. data(r) = data(s)
    <3>1. <<"hash", data(r)>> = <<"hash", data(s)>>
      BY <1>7 DEF IsData
    <3> QED BY <3>1, SamePairs
  <2>1. hashDomain(r.domain) = hashDomain(s.domain) /\ hashJson(r.type) = hashJson(s.type)
        /\ hash(<<r.of>>) = hash(<<s.of>>)
    BY <2>0, SameFives
  <2>2. <<r.domain>> = <<s.domain>> /\ <<r.type>> = <<s.type>> /\ <<r.of>> = <<s.of>>
    BY <2>1, SamePairs DEF hashDomain, hashJson, hash
  <2>3. r.domain = s.domain /\ r.type = s.type /\ r.of = s.of
    BY <2>2
  <2> QED BY <1>7, <2>3 DEF IsData
<1> QED BY <1>2, <1>3, <1>4, <1>5, <1>6, <1>7

\* What is kept: signatures of requests, and a token made by its signer, of which the payload and
\* the header may be others now, but not the signature.
SubKeys == {None} \cup [kty : {"OKP", "RSA"}, x : Addresses]
JwtPayload(claims, key) == [claims |-> claims, sub_jwk |-> key]
AskedJwt(payload) == Asked("jwt", payload, None, None, None, FALSE)
Jwt(header, payload, by, old) ==
    [header |-> header, payload |-> payload,
     signature |-> unsafeSign(by, AskedJwt(old))]
SignedOK == \A s \in signed : \E a \in Addresses, r \in Requests : s = unsafeSign(a, r)
TokenOK ==
    token # None =>
        \E by \in Addresses, c, d \in Texts, k, l \in SubKeys, header \in {"header", "other"} :
            LET old == JwtPayload(c, k) IN
            token = [now |-> Jwt(header, JwtPayload(d, l), by, old), made |-> Jwt("header", old, by, old), by |-> by]

\* A signature is of one who signed, and of the bytes of the request.
LEMMA SignatureOf ==
    ASSUME NEW by, NEW r, NEW bytes, NEW a
    PROVE  verifySignature(bytes, unsafeSign(by, r), a) <=> (by = a /\ bytesFor(r) = bytes)
BY DEF verifySignature, unsafeSign

LEMMA BodyOf ==
    ASSUME NEW p, NEW q
    PROVE  jwtBody(p) = bytesFor(AskedJwt(q)) <=> p = q
<1>1. bytesFor(AskedJwt(q)) = jwtBody(q)
  BY DEF bytesFor, Asked, AskedJwt
<1>2. <<"header", ".", p>> = <<"header", ".", q>> => p = q
  BY SameTriples
<1> QED BY <1>1, <1>2 DEF jwtBody

\* What unpackJwt says of a token in that form.
LEMMA Unpacked ==
    ASSUME NEW header, NEW p, NEW by, NEW old, NEW address
    PROVE  LET jwt == Jwt(header, p, by, old)
               signer == IF p.sub_jwk = None \/ p.sub_jwk.kty # "OKP" THEN address ELSE p.sub_jwk.x
               ok == /\ header = "header" /\ (address = None \/ signer = address)
                     /\ signer = None \/ (by = signer /\ p = old) IN
           /\ unpackJwt(jwt, address).ok <=> ok
           /\ unpackJwt(jwt, address).signer = IF ok THEN signer ELSE None
<1> DEFINE jwt == Jwt(header, p, by, old)
           signer == IF p.sub_jwk = None \/ p.sub_jwk.kty # "OKP" THEN address ELSE p.sub_jwk.x
<1>1. jwt.header = header /\ jwt.payload = p
      /\ jwt.signature = unsafeSign(by, AskedJwt(old))
  BY DEF Jwt
<1>2. verifySignature(jwtBody(jwt.payload), jwt.signature, signer) <=> (by = signer /\ p = old)
  BY <1>1, SignatureOf, BodyOf
<1>3. unpackJwt(jwt, address) =
        IF header # "header" \/ (address # None /\ signer # address) THEN [ok |-> FALSE, signer |-> None]
        ELSE IF signer # None /\ ~verifySignature(jwtBody(jwt.payload), jwt.signature, signer)
             THEN [ok |-> FALSE, signer |-> None]
        ELSE [ok |-> TRUE, signer |-> signer]
  BY <1>1 DEF unpackJwt
<1> DEFINE ok == /\ header = "header" /\ (address = None \/ signer = address)
                 /\ signer = None \/ (by = signer /\ p = old)
<1> HIDE DEF jwt, signer, ok
<1> DEFINE Goal == /\ unpackJwt(jwt, address).ok <=> ok
                   /\ unpackJwt(jwt, address).signer = IF ok THEN signer ELSE None
<1>4. ASSUME ok PROVE Goal
  <2>1. unpackJwt(jwt, address) = [ok |-> TRUE, signer |-> signer]
    BY <1>2, <1>3, <1>4 DEF ok
  <2> DEFINE x == unpackJwt(jwt, address)
  <2>2. x = [ok |-> TRUE, signer |-> signer]
    BY <2>1
  <2> HIDE DEF x
  <2>3. x.ok
    BY <2>2
  <2>4. x.signer = signer
    BY <2>2
  <2> QED BY Zenon, <1>4, <2>3, <2>4 DEF x
<1>5. ASSUME ~ok PROVE Goal
  <2>1. unpackJwt(jwt, address) = [ok |-> FALSE, signer |-> None]
    BY <1>2, <1>3, <1>5 DEF ok
  <2> DEFINE x == unpackJwt(jwt, address)
  <2>2. x = [ok |-> FALSE, signer |-> None]
    BY <2>1
  <2> HIDE DEF x
  <2>3. ~x.ok
    BY <2>2
  <2>4. x.signer = None
    BY <2>2
  <2> QED BY Zenon, <1>5, <2>3, <2>4 DEF x
<1>6. Goal
  BY <1>4, <1>5
<1> QED BY Zenon, <1>6 DEF ok, signer, jwt

\* Only requests are signed, one at a time.
LEMMA SignedStep == SignedOK /\ [SgNext]_sgvars => SignedOK'
<1> SUFFICES ASSUME SignedOK, [SgNext]_sgvars PROVE SignedOK'
  OBVIOUS
<1>1. ASSUME NEW a \in Addresses, NEW r \in Requests, signed' = {unsafeSign(a, r)} PROVE SignedOK'
  BY <1>1 DEF SignedOK
<1>2. ASSUME NEW a \in Addresses, NEW t \in Texts, SignMessage(a, t) PROVE SignedOK'
  <2>1. PICK r \in Requests : signed' = {unsafeSign(a, r)}
    BY <1>2 DEF SignMessage, Requests, Asked
  <2> QED BY <1>1, <2>1
<1>3. ASSUME NEW a \in Addresses, NEW t \in Texts, NEW n \in Networks, SignDelegation(a, t, n) PROVE SignedOK'
  <2>1. PICK r \in Requests : signed' = {unsafeSign(a, r)}
    BY <1>3 DEF SignDelegation, Requests, Asked
  <2> QED BY <1>1, <2>1
<1>4. ASSUME NEW a \in Addresses, NEW t \in Texts, NEW n \in Networks, NEW i \in BOOLEAN,
             SignTransaction(a, t, n, i)
      PROVE  SignedOK'
  <2>1. Asked("transaction", t, n, None, None, i) \in Requests
    BY DEF Requests, Asked
  <2> QED BY <1>1, <1>4, <2>1 DEF SignTransaction
<1>5. ASSUME NEW a \in Addresses, NEW t \in Texts, NEW y \in TypedAs, NEW d \in Domains, SignTypedData(a, t, y, d)
      PROVE  SignedOK'
  <2>1. PICK r \in Requests : signed' = {unsafeSign(a, r)}
    BY <1>5 DEF SignTypedData, Requests, Asked
  <2> QED BY <1>1, <2>1
<1>6. ASSUME UNCHANGED signed PROVE SignedOK'
  BY <1>6 DEF SignedOK
<1>7. ASSUME NEW a, NEW t, NEW k, SignJwt(a, t, k) PROVE SignedOK'
  BY <1>6, <1>7 DEF SignJwt
<1>8. CASE Change
  BY <1>6, <1>8 DEF Change
<1>9. CASE UNCHANGED sgvars
  BY <1>6, <1>9 DEF sgvars
<1> QED BY <1>2, <1>3, <1>4, <1>5, <1>7, <1>8, <1>9 DEF SgNext

\* A token that is made and one that is changed.
LEMMA TokenStep == TokenOK /\ [SgNext]_sgvars => TokenOK'
<1> SUFFICES ASSUME TokenOK, [SgNext]_sgvars PROVE TokenOK'
  OBVIOUS
<1> DEFINE Token(header, p, by, old) == [now |-> Jwt(header, p, by, old), made |-> Jwt("header", old, by, old), by |-> by]
<1>1. ASSUME UNCHANGED token PROVE TokenOK'
  BY <1>1 DEF TokenOK
<1>2. ASSUME NEW a \in Addresses, NEW t \in Texts,
             NEW jwk \in {None, Undefined, [kty |-> "RSA", x |-> a]} \cup {Jwk(b) : b \in Addresses},
             SignJwt(a, t, jwk)
      PROVE  TokenOK'
  <2> DEFINE key == CASE jwk = None -> Jwk(a) [] jwk = Undefined -> None [] OTHER -> jwk
  <2>1. key \in SubKeys
    <3>1. /\ None \in SubKeys
          /\ \A b \in Addresses : Jwk(b) \in SubKeys /\ [kty |-> "RSA", x |-> b] \in SubKeys
      BY DEF SubKeys, Jwk
    <3>2. CASE jwk = None \/ jwk = Undefined
      BY <3>1, <3>2
    <3>3. CASE jwk # None /\ jwk # Undefined
      BY <3>1, <3>3
    <3> QED BY <3>2, <3>3
  <2>2. token' = Token("header", JwtPayload(t, key), a, JwtPayload(t, key))
    BY <1>2 DEF SignJwt, Jwt, JwtPayload, AskedJwt
  <2> QED BY <2>1, <2>2 DEF TokenOK
<1>3. CASE Change
  <2>1. token # None /\ token.now = token.made
    BY <1>3 DEF Change
  <2>2. PICK by \in Addresses, c \in Texts, d \in Texts, k \in SubKeys, l \in SubKeys, header \in {"header", "other"} :
          token = Token(header, JwtPayload(d, l), by, JwtPayload(c, k))
    BY <2>1 DEF TokenOK
  <2>3. ASSUME NEW claims \in Texts, NEW key \in {None} \cup {Jwk(a) : a \in Addresses},
               token' = [token EXCEPT !.now.payload = [claims |-> claims, sub_jwk |-> key]]
        PROVE  TokenOK'
    <3>1. key \in SubKeys
      BY DEF SubKeys, Jwk
    <3>2. token' = Token(header, JwtPayload(claims, key), by, JwtPayload(c, k))
      BY <2>2, <2>3 DEF Jwt, JwtPayload
    <3> QED BY <3>1, <3>2 DEF TokenOK
  <2>4. ASSUME token' = [token EXCEPT !.now.header = "other"] PROVE TokenOK'
    <3>1. token' = Token("other", JwtPayload(d, l), by, JwtPayload(c, k))
      BY <2>2, <2>4 DEF Jwt
    <3> QED BY <3>1 DEF TokenOK
  <2> QED BY <1>3, <2>3, <2>4 DEF Change
<1>4. ASSUME NEW a \in Addresses, NEW t \in Texts PROVE
      /\ SignMessage(a, t) => TokenOK'
      /\ \A n \in Networks : SignDelegation(a, t, n) => TokenOK'
      /\ \A n \in Networks, i \in BOOLEAN : SignTransaction(a, t, n, i) => TokenOK'
      /\ \A y \in TypedAs, d \in Domains : SignTypedData(a, t, y, d) => TokenOK'
  BY <1>1 DEF SignMessage, SignDelegation, SignTransaction, SignTypedData
<1>5. CASE UNCHANGED sgvars
  BY <1>1, <1>5 DEF sgvars
<1> QED BY <1>2, <1>3, <1>4, <1>5 DEF SgNext

\* What the signatures and the token tell.
LEMMA SignaturesTell == SignedOK => GoodForOneThing
<1> SUFFICES ASSUME SignedOK, NEW s \in signed, NEW r \in Requests, NEW a \in Addresses,
                    verifySignature(bytesFor(r), s, a)
             PROVE  r = s.for /\ a = s.by
  BY DEF GoodForOneThing
<1>1. PICK b \in Addresses, q \in Requests : s = unsafeSign(b, q)
  BY DEF SignedOK
<1>2. b = a /\ bytesFor(q) = bytesFor(r)
  BY <1>1, SignatureOf
<1>3. q = r
  BY <1>2, BytesTellRequest
<1> QED BY <1>1, <1>2, <1>3 DEF unsafeSign

LEMMA TokensTell == TokenOK => VerifiedIsSigned /\ SignedIsVerified
<1> SUFFICES ASSUME TokenOK, token # None PROVE VerifiedIsSigned /\ SignedIsVerified
  BY DEF VerifiedIsSigned, SignedIsVerified
<1> DEFINE Token(header, p, by, old) == [now |-> Jwt(header, p, by, old), made |-> Jwt("header", old, by, old), by |-> by]
<1>1. PICK by \in Addresses, c \in Texts, d \in Texts, k \in SubKeys, l \in SubKeys, header \in {"header", "other"} :
        token = Token(header, JwtPayload(d, l), by, JwtPayload(c, k))
  BY DEF TokenOK
<1> DEFINE old == JwtPayload(c, k)  p == JwtPayload(d, l)
<1>2. token.now = Jwt(header, p, by, old) /\ token.made = Jwt("header", old, by, old) /\ token.by = by
  BY <1>1
<1>3. p.sub_jwk = l /\ old.sub_jwk = k /\ token.now.payload = p /\ token.made.payload = old
      /\ token.now.header = header /\ token.made.header = "header"
  BY <1>2 DEF JwtPayload, Jwt
<1> HIDE DEF old, p
<1> DEFINE signer(a) == IF l = None \/ l.kty # "OKP" THEN a ELSE l.x
           ok(a) == /\ header = "header" /\ (a = None \/ signer(a) = a)
                    /\ signer(a) = None \/ (by = signer(a) /\ p = old)
<1>4. ASSUME NEW a PROVE /\ unpackJwt(token.now, a).ok <=> ok(a)
                         /\ unpackJwt(token.now, a).signer = IF ok(a) THEN signer(a) ELSE None
  BY <1>2, <1>3, Unpacked
<1>5. None \notin Addresses
  BY SigningAssumption
<1>6. VerifiedIsSigned
  <2> SUFFICES ASSUME NEW a \in Addresses \cup {None}, verifyJwt(token.now, a)
               PROVE  /\ token.now = token.made
                      /\ a # None => token.by = a
                      /\ a = None => token.now.payload.sub_jwk = Jwk(token.by)
    BY DEF VerifiedIsSigned
  <2>1. ok(a) /\ signer(a) # None
    <3>1. unpackJwt(token.now, a).signer # None
      BY DEF verifyJwt
    <3>2. unpackJwt(token.now, a).signer = IF ok(a) THEN signer(a) ELSE None
      BY <1>4
    <3> HIDE DEF ok, signer
    <3> QED BY <3>1, <3>2
  <2>2. header = "header" /\ (a = None \/ signer(a) = a) /\ by = signer(a) /\ p = old
    BY <2>1
  <2>3. a = None => l = Jwk(by)
    <3>1. SUFFICES ASSUME a = None PROVE l = Jwk(by)
      OBVIOUS
    <3>2. l # None /\ l.kty = "OKP" /\ l.x = by
      BY <2>1, <2>2, <3>1
    <3> QED BY <3>2 DEF SubKeys, Jwk
  <2> QED BY <1>2, <1>3, <2>2, <2>3
<1>7. SignedIsVerified
  <2> SUFFICES ASSUME token.now = token.made, ~(k # None /\ k.kty = "OKP" /\ k.x # by)
               PROVE  isJwt(token.now) /\ verifyJwt(token.now, by)
    BY <1>2, <1>3 DEF SignedIsVerified
  <2>1. header = "header" /\ p = old /\ k = l
    BY <1>3
  <2>2. signer(by) = by /\ (signer(None) = None \/ signer(None) = by)
    BY <2>1
  <2>3. ok(by) /\ ok(None)
    BY <2>1, <2>2
  <2> HIDE DEF ok, signer
  <2>4. unpackJwt(token.now, by).signer = IF ok(by) THEN signer(by) ELSE None
    BY <1>4
  <2>5. unpackJwt(token.now, None).ok <=> ok(None)
    BY <1>4
  <2> HIDE DEF ok, signer
  <2>6. verifyJwt(token.now, by)
    BY <1>5, <2>2, <2>3, <2>4 DEF verifyJwt
  <2>7. isJwt(token.now)
    BY <2>3, <2>5 DEF isJwt
  <2> QED BY <2>6, <2>7
<1> QED BY <1>6, <1>7
-----------------------------------------------------------------------------
(* The strings *)

\* Whatever was done to a string that is of two parts, its checksum is of what was encoded.
PartOK(part) == part = [base |-> part.base, payload |-> part.payload, checksum |-> getChecksum(made.payload)]
TextOK ==
    text # Undecodable =>
        \E type, part : /\ PartOK(part)
                        /\ text.parts \in {<<type, part>>, <<type>>, <<type, part, "extra">>}
                        /\ text = [parts |-> text.parts]
MadeOK == made.payload \in Payloads

LEMMA TextStep == TextOK /\ [EnNext]_envars => TextOK'
<1> SUFFICES ASSUME TextOK, [EnNext]_envars PROVE TextOK'
  OBVIOUS
<1>1. CASE Encode
  <2>1. text' = encodeTo(made.payload, made.type) /\ text' # Undecodable /\ made' = made
    BY <1>1 DEF Encode
  <2>2. text' = [parts |-> <<made.type, addChecksum(parseType(made.type), made.payload)>>]
    BY <2>1 DEF encodeTo
  <2>3. PICK type, base, payload : type = made.type /\ base = parseType(made.type) /\ payload = made.payload
    OBVIOUS
  <2>4. PICK part : part = [base |-> base, payload |-> payload, checksum |-> getChecksum(payload)]
    OBVIOUS
  <2>5. part = addChecksum(parseType(made.type), made.payload)
    BY <2>3, <2>4 DEF addChecksum
  <2>6. text' = [parts |-> <<type, part>>]
    BY <2>2, <2>3, <2>5
  <2>7. PartOK(part)'
    <3>1. made'.payload = payload
      BY <2>1, <2>3
    <3> QED BY <2>4, <3>1 DEF PartOK
  <2>8. text'.parts = <<type, part>>
    BY <2>6
  <2> QED BY <2>6, <2>7, <2>8 DEF TextOK
<1>2. ASSUME IsWhole
      PROVE  \E type, part : PartOK(part) /\ text.parts = <<type, part>> /\ text = [parts |-> <<type, part>>]
  <2>1. text # Undecodable /\ Len(text.parts) = 2
    BY <1>2 DEF IsWhole
  <2>2. PICK type, part : /\ PartOK(part)
                          /\ text.parts \in {<<type, part>>, <<type>>, <<type, part, "extra">>}
                          /\ text = [parts |-> text.parts]
    BY <2>1 DEF TextOK
  <2>3. Len(<<type>>) # 2 /\ Len(<<type, part, "extra">>) # 2
    OBVIOUS
  <2> QED BY <2>1, <2>2, <2>3
<1>3. CASE Retype
  <2>1. IsWhole /\ made' = made
    BY <1>3 DEF Retype
  <2>2. PICK type, part : PartOK(part) /\ text.parts = <<type, part>> /\ text = [parts |-> <<type, part>>]
    BY <1>2, <2>1
  <2>3. PICK other : text' = [text EXCEPT !.parts[1] = other]
    BY <1>3 DEF Retype
  <2>4. text' = [parts |-> <<other, part>>]
    BY <2>2, <2>3
  <2>5. text'.parts = <<other, part>> /\ PartOK(part)'
    BY <2>1, <2>2, <2>4 DEF PartOK
  <2> QED BY <2>4, <2>5 DEF TextOK
<1>4. CASE Damage
  <2>1. IsWhole /\ made' = made
    BY <1>4 DEF Damage
  <2>2. PICK type, part : PartOK(part) /\ text.parts = <<type, part>> /\ text = [parts |-> <<type, part>>]
    BY <1>2, <2>1
  <2>3. PartOK(part)'
    BY <2>1, <2>2 DEF PartOK
  <2>4. ASSUME NEW p \in Payloads, text' = [text EXCEPT !.parts[2].payload = p] PROVE TextOK'
    <3> DEFINE other == [part EXCEPT !.payload = p]
    <3>1. PartOK(other)'
      BY <2>1, <2>2 DEF PartOK
    <3>2. text' = [parts |-> <<type, other>>]
      BY <2>2, <2>4
    <3> HIDE DEF other
    <3>3. text'.parts = <<type, other>>
      BY <3>2
    <3> QED BY <3>1, <3>2, <3>3 DEF TextOK
  <2>5. ASSUME text' = [text EXCEPT !.parts = <<text.parts[1]>>] PROVE TextOK'
    <3>1. text' = [parts |-> <<type>>]
      BY <2>2, <2>5
    <3>2. text'.parts = <<type>>
      BY <3>1
    <3> QED BY <2>3, <3>1, <3>2 DEF TextOK
  <2>6. ASSUME text' = [text EXCEPT !.parts = text.parts \o <<"extra">>] PROVE TextOK'
    <3>1. <<type, part>> \o <<"extra">> = <<type, part, "extra">>
      <4> DEFINE S == {type, part, "extra"}
      <4>1. <<type, part>> \in Seq(S) /\ "extra" \in S
        OBVIOUS
      <4>2. Append(<<type, part>>, "extra") = <<type, part>> \o <<"extra">>
        BY <4>1, AppendIsConcat
      <4>3. Append(<<type, part>>, "extra") = <<type, part, "extra">>
        <5>1. <<type, part, "extra">> \in Seq(S) /\ Append(<<type, part>>, "extra") \in Seq(S)
          BY <4>1, AppendProperties
        <5>2. Len(Append(<<type, part>>, "extra")) = 3 /\ Len(<<type, part, "extra">>) = 3
          BY <4>1, AppendProperties
        <5>3. \A i \in 1 .. 3 : Append(<<type, part>>, "extra")[i] = <<type, part, "extra">>[i]
          BY <4>1, AppendProperties
        <5> QED BY <5>1, <5>2, <5>3, SeqEqual
      <4> QED BY <4>2, <4>3
    <3>2. text' = [parts |-> <<type, part, "extra">>]
      BY <2>2, <2>6, <3>1
    <3>3. text'.parts = <<type, part, "extra">>
      BY <3>2
    <3> QED BY <2>3, <3>2, <3>3 DEF TextOK
  <2> QED BY <1>4, <2>4, <2>5, <2>6 DEF Damage
<1>5. CASE UNCHANGED envars
  BY <1>5 DEF envars, TextOK, PartOK
<1> QED BY <1>1, <1>3, <1>4, <1>5 DEF EnNext

\* What decode gives is what was encoded.
LEMMA StringsTell == TextOK => DecodedIsEncoded /\ CheckedCanBeUsed
<1> SUFFICES ASSUME TextOK, text # Undecodable PROVE DecodedIsEncoded /\ CheckedCanBeUsed
  BY DEF DecodedIsEncoded, CheckedCanBeUsed
<1>1. PICK type, part : PartOK(part) /\ text.parts \in {<<type, part>>, <<type>>, <<type, part, "extra">>}
  BY DEF TextOK
<1>2. ASSUME decode(text) # Undecodable
      PROVE  decode(text) = made.payload /\ ensureValidLength(decode(text), text.parts[1])
  <2> DEFINE payload == getPayload(parseType(text.parts[1]), text.parts[2])
  <2>1. Len(text.parts) = 2 /\ decode(text) = payload /\ payload # Undecodable
        /\ ensureValidLength(payload, text.parts[1])
    BY <1>2 DEF decode
  <2>2. text.parts = <<type, part>>
    <3>1. Len(<<type>>) # 2 /\ Len(<<type, part, "extra">>) # 2
      OBVIOUS
    <3> QED BY <1>1, <2>1, <3>1
  <2>3. text.parts[2] = part
    BY <2>2
  <2>4. part.checksum = getChecksum(part.payload) /\ payload = part.payload
    BY <2>1, <2>3 DEF getPayload
  <2>5. part.checksum = getChecksum(made.payload)
    BY <1>1 DEF PartOK
  <2>6. part.payload = made.payload
    BY <2>4, <2>5, SamePairs DEF getChecksum
  <2> QED BY <2>1, <2>4, <2>6
<1>3. DecodedIsEncoded
  BY <1>2 DEF DecodedIsEncoded
<1>4. CheckedCanBeUsed
  <2> SUFFICES ASSUME NEW types \in Wanted
               PROVE  /\ isEncoded(text, types) => decode(text) # Undecodable
                      /\ types # {} => (isAddressValid(text, types) <=> isEncoded(text, types))
                      /\ (isEncoded(text, types) /\ types # {} /\ types \subseteq {"ak", "ok", "ct", "ch"}) =>
                             getDefaultPointerKey(text) # Undecodable
    BY DEF CheckedCanBeUsed
  <2>1. isEncoded(text, types) => decode(text) # Undecodable
    BY DEF isEncoded, ensureEncoded
  <2>2. types # {} => (isAddressValid(text, types) <=> isEncoded(text, types))
    BY DEF isEncoded, ensureEncoded, isAddressValid
  <2>3. ASSUME isEncoded(text, types), types # {}, types \subseteq {"ak", "ok", "ct", "ch"}
        PROVE  getDefaultPointerKey(text) # Undecodable
    <3>1. decode(text) # Undecodable /\ text.parts[1] \in {"ak", "ok", "ct", "ch"}
      BY <2>3 DEF isEncoded, ensureEncoded
    <3>2. getDefaultPointerKey(text) \in {"account_pubkey", "oracle_pubkey", "contract_pubkey", "channel"}
      BY <3>1 DEF getDefaultPointerKey
    <3> QED BY <3>2, EncodingsAssumption
  <2> QED BY <2>1, <2>2, <2>3
<1> QED BY <1>3, <1>4
-----------------------------------------------------------------------------
(* The lengths *)

\* A number is told by its quotient and its rest.
LEMMA QuotientAndRest ==
    ASSUME NEW n \in Nat, NEW m \in Nat, NEW d \in Nat \ {0}, n % d = m % d, n \div d = m \div d
    PROVE  n = m
OBVIOUS

LEMMA QuotientBound ==
    ASSUME NEW n \in Nat, NEW d \in Nat \ {0}, NEW e \in Nat \ {0}, n < d * e
    PROVE  n \div d \in 0 .. e - 1
<1>1. n \div d \in Nat /\ n % d \in 0 .. d - 1 /\ d * (n \div d) <= n
  OBVIOUS
<1> DEFINE q == n \div d
<1>2. q \in Nat /\ d * q < d * e
  BY <1>1
<1> HIDE DEF q
<1>3. ASSUME q >= e PROVE FALSE
  <2>1. PICK k \in Nat : q = e + k
    BY <1>2, <1>3
  <2>2. d * q = d * e + d * k /\ d * k >= 0
    BY <2>1
  <2> QED BY <1>2, <2>2
<1> QED BY <1>2, <1>3 DEF q

LEMMA Rest ==
    ASSUME NEW n \in Nat, NEW d \in Nat \ {0}
    PROVE  /\ n % d \in 0 .. d - 1 /\ n \div d \in Nat
           /\ n < d => n % d = n
OBVIOUS

\* What fits into two parts is told by them.
LEMMA PartsTell ==
    ASSUME NEW d \in Nat \ {0}, NEW n \in Nat, NEW m \in Nat, n < d * d, m < d * d,
           n % d = m % d, (n \div d) % d = (m \div d) % d
    PROVE  n = m
<1>1. ASSUME NEW x \in 0 .. d - 1 PROVE x % d = x
  BY <1>1, Rest
<1>2. n \div d \in 0 .. d - 1 /\ m \div d \in 0 .. d - 1
  BY QuotientBound
<1>3. (n \div d) % d = n \div d
  BY Zenon, <1>1, <1>2
<1>4. (m \div d) % d = m \div d
  BY Zenon, <1>1, <1>2
<1>5. n \div d = m \div d
  BY <1>3, <1>4
<1> QED BY <1>5, QuotientAndRest

LEMMA ValuesType ==
    /\ ByteValues \in Nat \ {0} /\ ByteValues > 4
    /\ Values2 \in Nat \ {0} /\ Values4 \in Nat \ {0} /\ Values8 \in Nat \ {0}
    /\ ByteValues - 3 < Values2
<1>1. ByteValues \in Nat \ {0} /\ ByteValues > 4
  BY EncodingsAssumption
<1>2. Values2 \in Nat \ {0} /\ ByteValues - 3 < Values2
  BY <1>1 DEF Values2
<1>3. Values4 \in Nat \ {0}
  BY <1>2 DEF Values4
<1>4. Values8 \in Nat \ {0}
  BY <1>3 DEF Values8
<1> QED BY <1>1, <1>2, <1>3, <1>4

\* Two sequences in a row, of which the first are as long, are the same only if each is.
LEMMA SameRows ==
    ASSUME NEW s \in Seq(Nat), NEW t \in Seq(Nat), NEW u \in Seq(Nat), NEW v \in Seq(Nat),
           Len(s) = Len(u), Len(t) = Len(v), s \o t = u \o v
    PROVE  s = u /\ t = v
<1>1. /\ Len(s \o t) = Len(s) + Len(t)
      /\ \A i \in 1 .. Len(s) + Len(t) : (s \o t)[i] = IF i <= Len(s) THEN s[i] ELSE t[i - Len(s)]
      /\ \A i \in 1 .. Len(u) + Len(v) : (u \o v)[i] = IF i <= Len(u) THEN u[i] ELSE v[i - Len(u)]
  BY ConcatProperties
<1>2. Len(s) \in Nat /\ Len(t) \in Nat
  OBVIOUS
<1>3. \A i \in 1 .. Len(s) : s[i] = u[i]
  <2> TAKE i \in 1 .. Len(s)
  <2>1. i \in 1 .. Len(s) + Len(t) /\ i <= Len(s)
    BY <1>2
  <2> QED BY <1>1, <2>1
<1>4. \A i \in 1 .. Len(t) : t[i] = v[i]
  <2> TAKE i \in 1 .. Len(t)
  <2>1. i + Len(s) \in 1 .. Len(s) + Len(t) /\ ~(i + Len(s) <= Len(s)) /\ (i + Len(s)) - Len(s) = i
    BY <1>2
  <2> QED BY <1>1, <2>1
<1>5. s = u
  BY <1>3, SeqEqual
<1>6. t = v
  BY <1>4, SeqEqual
<1> QED BY <1>5, <1>6

LEMMA RowType ==
    ASSUME NEW s \in Seq(Nat), NEW t \in Seq(Nat)
    PROVE  s \o t \in Seq(Nat) /\ Len(s \o t) = Len(s) + Len(t)
BY ConcatProperties

\* The bytes of a number that fits tell it.
LEMMA Uint16Type == ASSUME NEW n \in Nat PROVE Uint16(n) \in Seq(Nat) /\ Len(Uint16(n)) = 2
<1>1. n % ByteValues \in Nat /\ (n \div ByteValues) % ByteValues \in Nat
  BY ValuesType, Rest
<1> QED BY <1>1 DEF Uint16

LEMMA Uint16Tells ==
    ASSUME NEW n \in 0 .. Values2 - 1, NEW m \in 0 .. Values2 - 1, Uint16(n) = Uint16(m)
    PROVE  n = m
<1> DEFINE B == ByteValues
<1>1. B \in Nat \ {0} /\ n \in Nat /\ m \in Nat /\ n < B * B /\ m < B * B
  BY ValuesType DEF Values2
<1>2. n % B = m % B /\ (n \div B) % B = (m \div B) % B
  <2>1. <<n % B, (n \div B) % B>> = <<m % B, (m \div B) % B>>
    BY DEF Uint16
  <2> QED BY <2>1, SamePairs
<1> HIDE DEF B
<1> QED BY <1>1, <1>2, PartsTell

LEMMA Uint32Type == ASSUME NEW n \in Nat PROVE Uint32(n) \in Seq(Nat) /\ Len(Uint32(n)) = 4
<1>1. n % Values2 \in Nat /\ (n \div Values2) % Values2 \in Nat
  BY ValuesType, Rest
<1> DEFINE low == Uint16(n % Values2)  high == Uint16((n \div Values2) % Values2)
<1>2. low \in Seq(Nat) /\ high \in Seq(Nat) /\ Len(low) = 2 /\ Len(high) = 2
  BY <1>1, Uint16Type
<1>3. Uint32(n) = low \o high
  BY DEF Uint32
<1> HIDE DEF low, high
<1>4. low \o high \in Seq(Nat) /\ Len(low \o high) = Len(low) + Len(high)
  BY <1>2, RowType
<1> QED BY <1>2, <1>3, <1>4

LEMMA Uint32Tells ==
    ASSUME NEW n \in 0 .. Values4 - 1, NEW m \in 0 .. Values4 - 1, Uint32(n) = Uint32(m)
    PROVE  n = m
<1> DEFINE B == Values2
<1>1. B \in Nat \ {0} /\ n \in Nat /\ m \in Nat /\ n < B * B /\ m < B * B
  BY ValuesType DEF Values4
<1>2. /\ n % B \in 0 .. B - 1 /\ m % B \in 0 .. B - 1
      /\ (n \div B) % B \in 0 .. B - 1 /\ (m \div B) % B \in 0 .. B - 1
  <2> HIDE DEF B
  <2>1. n \div B \in Nat /\ m \div B \in Nat
    BY <1>1, Rest
  <2> QED BY <1>1, <2>1, Rest
<1>3. Uint16(n % B) = Uint16(m % B) /\ Uint16((n \div B) % B) = Uint16((m \div B) % B)
  <2>1. Uint16(n % B) \o Uint16((n \div B) % B) = Uint16(m % B) \o Uint16((m \div B) % B)
    BY DEF Uint32
  <2>2. /\ Uint16(n % B) \in Seq(Nat) /\ Len(Uint16(n % B)) = 2
        /\ Uint16(m % B) \in Seq(Nat) /\ Len(Uint16(m % B)) = 2
        /\ Uint16((n \div B) % B) \in Seq(Nat) /\ Len(Uint16((n \div B) % B)) = 2
        /\ Uint16((m \div B) % B) \in Seq(Nat) /\ Len(Uint16((m \div B) % B)) = 2
    BY <1>2, Uint16Type
  <2> QED BY Zenon, <2>1, <2>2, SameRows
<1>4. n % B = m % B /\ (n \div B) % B = (m \div B) % B
  BY <1>2, <1>3, Uint16Tells
<1> HIDE DEF B
<1> QED BY <1>1, <1>4, PartsTell

LEMMA Uint64Type == ASSUME NEW n \in Nat PROVE Uint64(n) \in Seq(Nat) /\ Len(Uint64(n)) = 8
<1>1. n % Values4 \in Nat /\ (n \div Values4) % Values4 \in Nat
  BY ValuesType, Rest
<1> DEFINE low == Uint32(n % Values4)  high == Uint32((n \div Values4) % Values4)
<1>2. low \in Seq(Nat) /\ high \in Seq(Nat) /\ Len(low) = 4 /\ Len(high) = 4
  BY <1>1, Uint32Type
<1>3. Uint64(n) = low \o high
  BY DEF Uint64
<1> HIDE DEF low, high
<1>4. low \o high \in Seq(Nat) /\ Len(low \o high) = Len(low) + Len(high)
  BY <1>2, RowType
<1> QED BY <1>2, <1>3, <1>4

LEMMA Uint64Tells ==
    ASSUME NEW n \in 0 .. Values8 - 1, NEW m \in 0 .. Values8 - 1, Uint64(n) = Uint64(m)
    PROVE  n = m
<1> DEFINE B == Values4
<1>1. B \in Nat \ {0} /\ n \in Nat /\ m \in Nat /\ n < B * B /\ m < B * B
  BY ValuesType DEF Values8
<1>2. /\ n % B \in 0 .. B - 1 /\ m % B \in 0 .. B - 1
      /\ (n \div B) % B \in 0 .. B - 1 /\ (m \div B) % B \in 0 .. B - 1
  <2> HIDE DEF B
  <2>1. n \div B \in Nat /\ m \div B \in Nat
    BY <1>1, Rest
  <2> QED BY <1>1, <2>1, Rest
<1>3. Uint32(n % B) = Uint32(m % B) /\ Uint32((n \div B) % B) = Uint32((m \div B) % B)
  <2>1. Uint32(n % B) \o Uint32((n \div B) % B) = Uint32(m % B) \o Uint32((m \div B) % B)
    BY DEF Uint64
  <2>2. /\ Uint32(n % B) \in Seq(Nat) /\ Len(Uint32(n % B)) = 4
        /\ Uint32(m % B) \in Seq(Nat) /\ Len(Uint32(m % B)) = 4
        /\ Uint32((n \div B) % B) \in Seq(Nat) /\ Len(Uint32((n \div B) % B)) = 4
        /\ Uint32((m \div B) % B) \in Seq(Nat) /\ Len(Uint32((m \div B) % B)) = 4
    BY <1>2, Uint32Type
  <2> QED BY Zenon, <2>1, <2>2, SameRows
<1>4. n % B = m % B /\ (n \div B) % B = (m \div B) % B
  BY <1>2, <1>3, Uint32Tells
<1> HIDE DEF B
<1> QED BY <1>1, <1>4, PartsTell

\* A marker is followed by the bytes of the number.
LEMMA MarkedType ==
    ASSUME NEW k \in Nat, NEW s \in Seq(Nat)
    PROVE  <<k>> \o s \in Seq(Nat) /\ Len(<<k>> \o s) = Len(s) + 1 /\ (<<k>> \o s)[1] = k
<1>1. <<k>> \in Seq(Nat) /\ Len(<<k>>) = 1 /\ <<k>>[1] = k /\ Len(s) \in Nat
  OBVIOUS
<1>2. 1 \in 1 .. Len(<<k>>) + Len(s) /\ 1 <= Len(<<k>>)
  BY <1>1
<1> QED BY <1>1, <1>2, ConcatProperties

LEMMA SameMarked ==
    ASSUME NEW k \in Nat, NEW s \in Seq(Nat), NEW t \in Seq(Nat), Len(s) = Len(t), <<k>> \o s = <<k>> \o t
    PROVE  s = t
<1>1. <<k>> \in Seq(Nat) /\ Len(<<k>>) = Len(<<k>>)
  OBVIOUS
<1> QED BY Zenon, <1>1, SameRows

Size(n) == IF n < ByteValues - 3 THEN 1 ELSE IF n < Values2 THEN 3 ELSE IF n < Values4 THEN 5 ELSE 9
First(n) == IF n < ByteValues - 3 THEN n
            ELSE IF n < Values2 THEN ByteValues - 3 ELSE IF n < Values4 THEN ByteValues - 2 ELSE ByteValues - 1
LEMMA VarUIntForm ==
    ASSUME NEW n \in 0 .. Values8 - 1
    PROVE  /\ encodeVarUInt(n) \in Seq(Nat) /\ Len(encodeVarUInt(n)) = Size(n)
           /\ encodeVarUInt(n)[1] = First(n)
<1>1. n \in Nat /\ ByteValues \in Nat /\ ByteValues > 4
  BY ValuesType
<1>2. ByteValues - 3 \in Nat /\ ByteValues - 2 \in Nat /\ ByteValues - 1 \in Nat
  BY <1>1
<1>3. CASE n < ByteValues - 3
  <2>1. encodeVarUInt(n) = <<n>> /\ Size(n) = 1 /\ First(n) = n
    BY <1>3 DEF encodeVarUInt, Size, First
  <2> QED BY <1>1, <2>1
<1>4. CASE ~(n < ByteValues - 3) /\ n < Values2
  <2>1. encodeVarUInt(n) = <<ByteValues - 3>> \o Uint16(n)
    BY Zenon, <1>4 DEF encodeVarUInt
  <2>3. Size(n) = 3 /\ First(n) = ByteValues - 3
    BY <1>4 DEF Size, First
  <2>2. Uint16(n) \in Seq(Nat) /\ Len(Uint16(n)) = 2
    BY <1>1, Uint16Type
  <2> DEFINE k == ByteValues - 3  s == Uint16(n)
  <2>4. k \in Nat /\ s \in Seq(Nat) /\ Len(s) + 1 = 3
    BY <1>2, <2>2
  <2> HIDE DEF k, s
  <2>5. <<k>> \o s \in Seq(Nat) /\ Len(<<k>> \o s) = 3 /\ (<<k>> \o s)[1] = k
    BY <2>4, MarkedType
  <2> QED BY Zenon, <2>1, <2>3, <2>5 DEF k, s
<1>5. CASE ~(n < ByteValues - 3) /\ ~(n < Values2) /\ n < Values4
  <2>1. encodeVarUInt(n) = <<ByteValues - 2>> \o Uint32(n)
    BY Zenon, <1>5 DEF encodeVarUInt
  <2>3. Size(n) = 5 /\ First(n) = ByteValues - 2
    BY <1>5 DEF Size, First
  <2>2. Uint32(n) \in Seq(Nat) /\ Len(Uint32(n)) = 4
    BY <1>1, Uint32Type
  <2> DEFINE k == ByteValues - 2  s == Uint32(n)
  <2>4. k \in Nat /\ s \in Seq(Nat) /\ Len(s) + 1 = 5
    BY <1>2, <2>2
  <2> HIDE DEF k, s
  <2>5. <<k>> \o s \in Seq(Nat) /\ Len(<<k>> \o s) = 5 /\ (<<k>> \o s)[1] = k
    BY <2>4, MarkedType
  <2> QED BY Zenon, <2>1, <2>3, <2>5 DEF k, s
<1>6. CASE ~(n < ByteValues - 3) /\ ~(n < Values2) /\ ~(n < Values4)
  <2>1. encodeVarUInt(n) = <<ByteValues - 1>> \o Uint64(n)
    BY Zenon, <1>6 DEF encodeVarUInt
  <2>3. Size(n) = 9 /\ First(n) = ByteValues - 1
    BY <1>6 DEF Size, First
  <2>2. Uint64(n) \in Seq(Nat) /\ Len(Uint64(n)) = 8
    BY <1>1, Uint64Type
  <2> DEFINE k == ByteValues - 1  s == Uint64(n)
  <2>4. k \in Nat /\ s \in Seq(Nat) /\ Len(s) + 1 = 9
    BY <1>2, <2>2
  <2> HIDE DEF k, s
  <2>5. <<k>> \o s \in Seq(Nat) /\ Len(<<k>> \o s) = 9 /\ (<<k>> \o s)[1] = k
    BY <2>4, MarkedType
  <2> QED BY Zenon, <2>1, <2>3, <2>5 DEF k, s
<1> QED BY <1>3, <1>4, <1>5, <1>6

\* A number is told by what it is written as,
LEMMA VarUIntTells ==
    ASSUME NEW n \in 0 .. Values8 - 1, NEW m \in 0 .. Values8 - 1, Size(n) = Size(m),
           encodeVarUInt(n) = encodeVarUInt(m)
    PROVE  n = m
<1>1. n \in Nat /\ m \in Nat /\ ByteValues - 3 \in Nat /\ ByteValues - 2 \in Nat /\ ByteValues - 1 \in Nat
  BY ValuesType
<1>2. CASE n < ByteValues - 3
  <2>1. m < ByteValues - 3
    BY <1>2 DEF Size
  <2>2. <<n>> = <<m>>
    BY <1>2, <2>1 DEF encodeVarUInt
  <2> QED BY <2>2
<1>3. CASE ~(n < ByteValues - 3) /\ n < Values2
  <2>1. ~(m < ByteValues - 3) /\ m < Values2
    BY <1>3 DEF Size
  <2>2. <<ByteValues - 3>> \o Uint16(n) = <<ByteValues - 3>> \o Uint16(m)
    BY <1>3, <2>1 DEF encodeVarUInt
  <2>3. /\ Uint16(n) \in Seq(Nat) /\ Len(Uint16(n)) = 2
        /\ Uint16(m) \in Seq(Nat) /\ Len(Uint16(m)) = 2
    BY <1>1, Uint16Type
  <2>4. Uint16(n) = Uint16(m)
    BY <1>1, <2>2, <2>3, SameMarked
  <2>5. n \in 0 .. Values2 - 1 /\ m \in 0 .. Values2 - 1
    BY <1>1, <1>3, <2>1, ValuesType
  <2> QED BY <2>4, <2>5, Uint16Tells
<1>4. CASE ~(n < ByteValues - 3) /\ ~(n < Values2) /\ n < Values4
  <2>1. ~(m < ByteValues - 3) /\ ~(m < Values2) /\ m < Values4
    BY <1>4 DEF Size
  <2>2. <<ByteValues - 2>> \o Uint32(n) = <<ByteValues - 2>> \o Uint32(m)
    BY <1>4, <2>1 DEF encodeVarUInt
  <2>3. /\ Uint32(n) \in Seq(Nat) /\ Len(Uint32(n)) = 4
        /\ Uint32(m) \in Seq(Nat) /\ Len(Uint32(m)) = 4
    BY <1>1, Uint32Type
  <2>4. Uint32(n) = Uint32(m)
    BY <1>1, <2>2, <2>3, SameMarked
  <2>5. n \in 0 .. Values4 - 1 /\ m \in 0 .. Values4 - 1
    BY <1>1, <1>4, <2>1, ValuesType
  <2> QED BY <2>4, <2>5, Uint32Tells
<1>5. CASE ~(n < ByteValues - 3) /\ ~(n < Values2) /\ ~(n < Values4)
  <2>1. ~(m < ByteValues - 3) /\ ~(m < Values2) /\ ~(m < Values4)
    BY <1>5 DEF Size
  <2>2. <<ByteValues - 1>> \o Uint64(n) = <<ByteValues - 1>> \o Uint64(m)
    BY <1>5, <2>1 DEF encodeVarUInt
  <2>3. /\ Uint64(n) \in Seq(Nat) /\ Len(Uint64(n)) = 8
        /\ Uint64(m) \in Seq(Nat) /\ Len(Uint64(m)) = 8
    BY <1>1, Uint64Type
  <2>4. Uint64(n) = Uint64(m)
    BY <1>1, <2>2, <2>3, SameMarked
  <2> QED BY <2>4, Uint64Tells
<1> QED BY <1>2, <1>3, <1>4, <1>5

\* and by the first bytes of anything that starts with it.
LEMMA VarUIntsAreApart ==
    ASSUME NEW n \in 0 .. Values8 - 1, NEW m \in 0 .. Values8 - 1,
           StartsWith(encodeVarUInt(n), encodeVarUInt(m))
    PROVE  n = m
<1> DEFINE a == encodeVarUInt(n)  b == encodeVarUInt(m)
<1>1. /\ a \in Seq(Nat) /\ Len(a) = Size(n) /\ a[1] = First(n)
      /\ b \in Seq(Nat) /\ Len(b) = Size(m) /\ b[1] = First(m)
  BY VarUIntForm
<1>2. Size(m) \in {1, 3, 5, 9}
  BY DEF Size
<1>3. Len(b) <= Len(a) /\ \A i \in 1 .. Len(b) : a[i] = b[i]
  BY DEF StartsWith
<1> HIDE DEF a, b
<1>4. First(n) = First(m)
  BY <1>1, <1>2, <1>3
<1>5. Size(n) = Size(m)
  <2>1. n \in Nat /\ m \in Nat /\ ByteValues \in Nat /\ ByteValues > 4
    BY ValuesType
  <2> QED BY <1>4, <2>1 DEF First, Size
<1>6. a = b
  BY <1>1, <1>3, <1>5, SeqEqual
<1> QED BY <1>5, <1>6, VarUIntTells DEF a, b

LEMMA LengthsTell == MadeOK => LengthsAreApart
<1> SUFFICES ASSUME MadeOK, NEW n \in Lengths \ {made.payload.bytes}
             PROVE  /\ ~StartsWith(encodeVarUInt(made.payload.bytes), encodeVarUInt(n))
                    /\ ~StartsWith(encodeVarUInt(n), encodeVarUInt(made.payload.bytes))
  BY DEF LengthsAreApart
<1>1. made.payload.bytes \in 0 .. Values8 - 1 /\ n \in 0 .. Values8 - 1
  BY EncodingsAssumption DEF MadeOK
<1> QED BY <1>1, VarUIntsAreApart

\* Whatever is signed, encoded and changed on its way, in any order, a string or a signature means
\* one thing (src/src/utils/encoder.ts, src/src/utils/crypto.ts, src/src/utils/jwt.ts).
THEOREM BytesAlwaysMeanOneThing == BytesSpec => []BytesMeanOneThing
<1> DEFINE Inv == SignedOK /\ TokenOK /\ TextOK /\ MadeOK
<1>1. BytesInit => Inv
  BY DEF BytesInit, SgInit, EnInit, SignedOK, TokenOK, TextOK, MadeOK
<1>2. Inv /\ [BytesNext]_<<sgvars, envars>> => Inv'
  <2> SUFFICES ASSUME Inv, [BytesNext]_<<sgvars, envars>> PROVE Inv'
    OBVIOUS
  <2>1. [SgNext]_sgvars /\ [EnNext]_envars
    BY DEF BytesNext
  <2>2. MadeOK'
    BY <2>1 DEF EnNext, Encode, Retype, Damage, envars, MadeOK
  <2> QED BY <2>1, <2>2, SignedStep, TokenStep, TextStep
<1>3. Inv => BytesMeanOneThing
  BY SignaturesTell, TokensTell, StringsTell, LengthsTell DEF BytesMeanOneThing
<1> QED BY <1>1, <1>2, <1>3, PTL DEF BytesSpec

-----------------------------------------------------------------------------
(* What is built and its fee, for any transactions, transfers and prices *)

LEMMA ProductGrows == ASSUME NEW a \in Int, NEW b \in Int, NEW k \in Nat, a <= b PROVE a * k <= b * k
<1>1. (b - a) * k >= 0
  OBVIOUS
<1> QED BY <1>1

LEMMA ProductOver == ASSUME NEW a \in Int, NEW k \in Nat \ {0} PROVE (k * a) \div k = a
  OBVIOUS

\* Larger numbers take as many bytes or more.
LEMMA ItemGrows ==
    ASSUME NEW n \in Int, NEW m \in Int, n <= m
    PROVE  Item(n) \in Nat /\ Item(n) <= Item(m) /\ List(n) \in Int /\ List(n) <= List(m) /\ n < List(n)
  BY DEF Item, List, Bytes

\* A transaction that differs in the amount spent, which is in its bytes.
Fits(tx) == /\ tx.bytes \in Nat /\ tx.inner \in Nat /\ tx.ttl \in Nat
Alike(tx, ty) == /\ tx.tag = ty.tag /\ tx.inner = ty.inner /\ tx.ttl = ty.ttl /\ tx.bytes <= ty.bytes

LEMMA LengthGrows ==
    ASSUME NEW tx, NEW ty, Fits(tx), Fits(ty), Alike(tx, ty), NEW f \in Int, NEW g \in Int, f <= g,
           NEW l \in Int, NEW k \in Int, l <= k
    PROVE  /\ TxLength(tx, f, l) \in Int /\ TxLength(ty, g, k) \in Int
           /\ TxLength(tx, f, l) <= TxLength(ty, g, k)
           /\ tx.inner <= TxLength(tx, f, l)
<1> DEFINE limit(t, n) == IF t.tag \in Running THEN Item(n) ELSE 0
           a == tx.bytes + tx.inner + Item(f) + limit(tx, l)
           b == ty.bytes + ty.inner + Item(g) + limit(ty, k)
<1>1. /\ Item(f) \in Nat /\ Item(g) \in Nat /\ Item(f) <= Item(g)
      /\ limit(tx, l) \in Nat /\ limit(ty, k) \in Nat /\ limit(tx, l) <= limit(ty, k)
  BY ItemGrows DEF Alike
<1>2. a \in Int /\ b \in Int /\ a <= b /\ tx.inner <= a
  <2> HIDE DEF limit
  <2> QED BY <1>1 DEF Fits, Alike
<1>3. TxLength(tx, f, l) = List(a) /\ TxLength(ty, g, k) = List(b)
  BY DEF TxLength
<1> HIDE DEF a, b
<1> QED BY <1>2, <1>3, ItemGrows DEF Fits

\* and so does its gas.
LEMMA GasGrows ==
    ASSUME NEW tx, NEW ty, Fits(tx), Fits(ty), Alike(tx, ty), NEW f \in Int, NEW g \in Int, f <= g,
           NEW l \in Int, NEW k \in Int, l <= k
    PROVE  /\ buildGas(tx, f, l) \in Nat /\ buildGas(ty, g, k) \in Nat
           /\ buildGas(tx, f, l) <= buildGas(ty, g, k)
<1> DEFINE a == TxLength(tx, f, l)  b == TxLength(ty, g, k)
<1>1. a \in Int /\ b \in Int /\ a <= b /\ tx.inner <= a /\ tx.inner \in Nat /\ tx.inner = ty.inner
  BY LengthGrows DEF Fits, Alike
<1>2. buildGas(tx, f, l) = TX_BASE_GAS(tx.tag) + TX_OTHER_GAS(tx, a)
  BY DEF buildGas
<1>3. buildGas(ty, g, k) = TX_BASE_GAS(tx.tag) + TX_OTHER_GAS(ty, b)
  BY DEF buildGas, Alike
<1> HIDE DEF a, b
<1>4. TX_BASE_GAS(tx.tag) \in Nat
  BY TxFeesAssumption DEF TX_BASE_GAS
<1>5. /\ a * GAS_PER_BYTE \in Nat /\ b * GAS_PER_BYTE \in Nat /\ a * GAS_PER_BYTE <= b * GAS_PER_BYTE
      /\ (a - tx.inner) * GAS_PER_BYTE \in Nat /\ (b - tx.inner) * GAS_PER_BYTE \in Nat
      /\ (a - tx.inner) * GAS_PER_BYTE <= (b - tx.inner) * GAS_PER_BYTE
  <2>1. a \in Nat /\ b \in Nat /\ a - tx.inner \in Nat /\ b - tx.inner \in Nat /\ a - tx.inner <= b - tx.inner
    BY <1>1
  <2>2. GAS_PER_BYTE \in Nat
    BY TxFeesAssumption
  <2>3. a * GAS_PER_BYTE <= b * GAS_PER_BYTE
    BY <1>1, <2>1, <2>2, ProductGrows
  <2>4. (a - tx.inner) * GAS_PER_BYTE <= (b - tx.inner) * GAS_PER_BYTE
    BY <1>1, <2>1, <2>2, ProductGrows
  <2>5. \A x, y \in Nat : x * y \in Nat
    OBVIOUS
  <2> QED BY <2>1, <2>2, <2>3, <2>4, <2>5
<1>6. TX_OTHER_GAS(tx, a) \in Nat /\ TX_OTHER_GAS(ty, b) \in Nat /\ TX_OTHER_GAS(tx, a) <= TX_OTHER_GAS(ty, b)
  <2> DEFINE ttl == (32000 * tx.ttl + BlocksPerYear - 1) \div BlocksPerYear
  <2>1. ttl \in Nat /\ tx.ttl = ty.ttl /\ tx.tag = ty.tag
    <3>1. \A n \in Nat : (32000 * n + BlocksPerYear - 1) \div BlocksPerYear \in Nat
      BY DEF BlocksPerYear
    <3> QED BY <3>1 DEF Fits, Alike
  <2>2. CASE tx.tag \in {"OracleRegisterTx", "OracleExtendTx", "OracleQueryTx", "OracleRespondTx"}
    <3>1. TX_OTHER_GAS(tx, a) = a * GAS_PER_BYTE + ttl /\ TX_OTHER_GAS(ty, b) = b * GAS_PER_BYTE + ttl
      BY <2>1, <2>2 DEF TX_OTHER_GAS
    <3> HIDE DEF ttl
    <3> DEFINE p == a * GAS_PER_BYTE  q == b * GAS_PER_BYTE
    <3>2. p \in Nat /\ q \in Nat /\ p <= q
      BY <1>5
    <3> HIDE DEF p, q
    <3> QED BY <2>1, <3>1, <3>2 DEF p, q
  <2>3. CASE tx.tag \in {"GaMetaTx", "PayingForTx"}
    BY <1>1, <1>5, <2>1, <2>3 DEF TX_OTHER_GAS
  <2>4. CASE tx.tag \notin {"OracleRegisterTx", "OracleExtendTx", "OracleQueryTx", "OracleRespondTx", "GaMetaTx", "PayingForTx"}
    BY <1>5, <2>1, <2>4 DEF TX_OTHER_GAS
  <2> QED BY <2>2, <2>3, <2>4
<1> QED BY <1>2, <1>3, <1>4, <1>6

\* A default limit is of the gas that remains, and a given one is what it is.
LEMMA LimitIs ==
    ASSUME NEW tx, IsTx(tx), NEW f \in Int
    PROVE  /\ LimitMax(tx, f) \in Int /\ LimitAt(tx, f) \in Int
           /\ tx.tag # "GaMetaTx" => LimitMax(tx, f) = gasMax - buildGas(tx, f, gasMax) /\ LimitMax(tx, f) <= gasMax
<1>1. gasMax \in Nat /\ MAX_AUTH_FUN_GAS \in Nat
  BY TxFeesAssumption
<1>2. buildGas(tx, f, gasMax) \in Nat
  BY <1>1, GasGrows DEF IsTx, Fits, Alike
<1>3. tx.limit # Nothing => tx.limit \in Nat
  BY DEF IsTx, Given
<1> QED BY <1>1, <1>2, <1>3 DEF LimitMax, LimitAt

-----------------------------------------------------------------------------
(* The loop *)

\* The rounds are as they are defined to be.
RoundsOf(tx, forLimit, first, n, s) ==
    /\ DOMAIN s = 0 .. n /\ s[0] = first
    /\ \A i \in 1 .. n : s[i] = Round(tx, forLimit, s[i - 1])
LEMMA RoundsAre ==
    ASSUME NEW tx, NEW forLimit, NEW first
    PROVE  RoundsOf(tx, forLimit, first, MaxRounds, FeeRounds(tx, forLimit, first))
<1> DEFINE After(f) == Round(tx, forLimit, f)
           Rounds(n, s) == s = [i \in 0 .. n |-> IF i = 0 THEN first ELSE After(s[i - 1])]
           Bad == {n \in Nat : ~\E s : Rounds(n, s)}
<1>1. Bad = {}
  <2> SUFFICES ASSUME Bad # {} PROVE FALSE
    OBVIOUS
  <2>1. PICK n \in Bad : \A m \in Bad : n <= m
    <3> HIDE DEF Rounds
    <3>1. Bad \subseteq Nat
      OBVIOUS
    <3> HIDE DEF Bad
    <3> QED BY <3>1, Least
  <2>2. n \in Nat /\ ~\E s : Rounds(n, s)
    BY <2>1
  <2>3. n # 0
    <3>1. Rounds(0, [i \in 0 .. 0 |-> first])
      OBVIOUS
    <3> HIDE DEF Rounds
    <3> QED BY <2>2, <3>1
  <2>4. PICK s : Rounds(n - 1, s)
    <3>1. n - 1 \in Nat /\ ~(n <= n - 1)
      BY <2>2, <2>3
    <3>2. n - 1 \notin Bad
      BY <2>1, <3>1
    <3> HIDE DEF Rounds
    <3> QED BY <3>1, <3>2
  <2> DEFINE t == [i \in 0 .. n |-> IF i = n THEN After(s[n - 1]) ELSE s[i]]
  <2>5. \A i \in 0 .. n : t[i] = IF i = 0 THEN first ELSE After(t[i - 1])
    <3> SUFFICES ASSUME NEW i \in 0 .. n PROVE t[i] = IF i = 0 THEN first ELSE After(t[i - 1])
      OBVIOUS
    <3> HIDE DEF After
    <3>1. CASE i = n
      <4>1. t[i] = After(s[n - 1]) /\ n - 1 \in 0 .. n /\ n - 1 # n
        BY <2>2, <2>3, <3>1
      <4>2. t[n - 1] = s[n - 1]
        BY <4>1
      <4> QED BY <2>3, <3>1, <4>1, <4>2
    <3>2. CASE i # n
      <4>1. i \in 0 .. n - 1 /\ (i # 0 => i - 1 \in 0 .. n /\ i - 1 # n)
        BY <2>2, <3>2
      <4>2. t[i] = s[i] /\ (i # 0 => t[i - 1] = s[i - 1])
        BY <3>2, <4>1
      <4>3. s[i] = IF i = 0 THEN first ELSE After(s[i - 1])
        BY <2>4, <4>1
      <4> QED BY <4>1, <4>2, <4>3
    <3> QED BY <3>1, <3>2
  <2>6. Rounds(n, t)
    <3> DEFINE u == [i \in 0 .. n |-> IF i = 0 THEN first ELSE After(t[i - 1])]
    <3>1. t = u
      <4>1. DOMAIN t = 0 .. n /\ DOMAIN u = 0 .. n /\ t = [i \in DOMAIN t |-> t[i]] /\ u = [i \in DOMAIN u |-> u[i]]
        OBVIOUS
      <4>2. \A i \in 0 .. n : t[i] = u[i]
        BY <2>5
      <4> HIDE DEF t, u
      <4> QED BY <4>1, <4>2
    <3> HIDE DEF After, t
    <3> QED BY <3>1
  <2> HIDE DEF Rounds
  <2> QED BY <2>2, <2>6
<1>2. \E s : Rounds(MaxRounds, s)
  <2>1. MaxRounds \in Nat /\ MaxRounds \notin Bad
    BY <1>1, TxFeesAssumption
  <2> HIDE DEF Rounds
  <2> QED BY <2>1
<1>3. FeeRounds(tx, forLimit, first) = CHOOSE s : Rounds(MaxRounds, s)
  BY DEF FeeRounds
<1> DEFINE r == FeeRounds(tx, forLimit, first)
<1>4. Rounds(MaxRounds, r)
  <2> HIDE DEF Rounds
  <2> QED BY <1>2, <1>3
<1>5. MaxRounds \in Nat
  BY TxFeesAssumption
<1>6. \A i \in 1 .. MaxRounds : i \in 0 .. MaxRounds /\ i # 0
  BY <1>5
<1>7. 0 \in 0 .. MaxRounds
  BY <1>5
<1> HIDE DEF r
<1>8. DOMAIN r = 0 .. MaxRounds /\ r[0] = first /\ \A i \in 1 .. MaxRounds : r[i] = After(r[i - 1])
  BY <1>4, <1>6, <1>7
<1> QED BY <1>8 DEF RoundsOf, r

\* If each round costs as much or more for a greater fee, so does the last one.
RoundGas(tx, forLimit, fee) == buildGas(tx, fee, IF forLimit THEN gasMax ELSE LimitAt(tx, fee))
EachRoundGrows(tx, x, ty, y) ==
    \A f, g \in Int : f <= g =>
        /\ RoundGas(tx, x, f) \in Nat /\ RoundGas(ty, y, g) \in Nat
        /\ RoundGas(tx, x, f) <= RoundGas(ty, y, g)
MinFeeGrows(tx, x, ty, y) ==
    \E k, l \in Nat : /\ calculateMinFee(tx, x) = MIN_GAS_PRICE * k /\ calculateMinFee(ty, y) = MIN_GAS_PRICE * l
                      /\ k <= l
LEMMA FeesGrow ==
    ASSUME NEW tx, NEW ty, NEW x, NEW y, EachRoundGrows(tx, x, ty, y)
    PROVE  MinFeeGrows(tx, x, ty, y)
<1> DEFINE r == FeeRounds(tx, x, 0)  s == FeeRounds(ty, y, 0)  price == MIN_GAS_PRICE
           F(f) == RoundGas(tx, x, f)  G(f) == RoundGas(ty, y, f)
<1>1. /\ r[0] = 0 /\ s[0] = 0
      /\ \A i \in 1 .. MaxRounds : r[i] = price * F(r[i - 1]) /\ s[i] = price * G(s[i - 1])
  <2>1. RoundsOf(tx, x, 0, MaxRounds, r) /\ RoundsOf(ty, y, 0, MaxRounds, s)
    BY Zenon, RoundsAre
  <2>2. \A f : Round(tx, x, f) = price * F(f) /\ Round(ty, y, f) = price * G(f)
    BY Zenon DEF Round, RoundGas
  <2> HIDE DEF r, s, price, F, G
  <2> QED BY <2>1, <2>2 DEF RoundsOf
<1>2. price \in Nat \ {0} /\ MaxRounds \in Nat \ {0}
  BY TxFeesAssumption
<1>3. calculateMinFee(tx, x) = r[MaxRounds] /\ calculateMinFee(ty, y) = s[MaxRounds]
  BY DEF calculateMinFee
<1>4. \A f, g \in Int : f <= g => F(f) \in Nat /\ G(g) \in Nat /\ F(f) <= G(g)
  BY DEF EachRoundGrows
<1> HIDE DEF r, s, price, F, G
<1>5. ASSUME NEW i \in 1 .. MaxRounds, r[i - 1] \in Int, s[i - 1] \in Int, r[i - 1] <= s[i - 1]
      PROVE  /\ F(r[i - 1]) \in Nat /\ G(s[i - 1]) \in Nat /\ F(r[i - 1]) <= G(s[i - 1])
             /\ r[i] \in Int /\ s[i] \in Int /\ r[i] <= s[i]
  <2> DEFINE a == F(r[i - 1])  b == G(s[i - 1])
  <2>1. a \in Nat /\ b \in Nat /\ a <= b /\ r[i] = price * a /\ s[i] = price * b
    BY <1>1, <1>4, <1>5
  <2> HIDE DEF a, b
  <2>2. a * price <= b * price /\ price * a = a * price /\ price * b = b * price /\ a * price \in Int /\ b * price \in Int
    BY <1>2, <2>1, ProductGrows
  <2> QED BY <2>1, <2>2 DEF a, b
<1> DEFINE Bad == {i \in 0 .. MaxRounds : ~(r[i] \in Int /\ s[i] \in Int /\ r[i] <= s[i])}
<1>6. Bad = {}
  <2> SUFFICES ASSUME Bad # {} PROVE FALSE
    OBVIOUS
  <2>1. PICK i \in Bad : \A j \in Bad : i <= j
    <3>1. Bad \subseteq Nat
      OBVIOUS
    <3> HIDE DEF Bad
    <3> QED BY <3>1, Least
  <2>2. i # 0 /\ i \in 1 .. MaxRounds /\ i - 1 \in 0 .. MaxRounds /\ ~(i <= i - 1)
    BY <1>1, <1>2, <2>1
  <2>3. r[i - 1] \in Int /\ s[i - 1] \in Int /\ r[i - 1] <= s[i - 1]
    BY <2>1, <2>2
  <2> QED BY <1>5, <2>1, <2>2, <2>3
<1> DEFINE n == MaxRounds
<1>7. n \in 1 .. MaxRounds /\ n - 1 \in 0 .. MaxRounds
  BY <1>2
<1>8. r[n - 1] \in Int /\ s[n - 1] \in Int /\ r[n - 1] <= s[n - 1]
  BY <1>6, <1>7
<1>9. /\ F(r[n - 1]) \in Nat /\ G(s[n - 1]) \in Nat /\ F(r[n - 1]) <= G(s[n - 1])
      /\ r[n] = price * F(r[n - 1]) /\ s[n] = price * G(s[n - 1])
  BY <1>1, <1>5, <1>7, <1>8
<1> QED BY <1>3, <1>9 DEF price, MinFeeGrows

-----------------------------------------------------------------------------
(* What is built *)

\* The fee of a price is not below that of the minimal price.
LEMMA PriceIsPaid ==
    ASSUME NEW k \in Nat, NEW p \in Nat
    PROVE  /\ MIN_GAS_PRICE * k \in Nat /\ (MIN_GAS_PRICE * k) \div MIN_GAS_PRICE = k
           /\ p >= MIN_GAS_PRICE => MIN_GAS_PRICE * k <= k * p
<1>1. MIN_GAS_PRICE \in Nat \ {0}
  BY TxFeesAssumption
<1>2. (MIN_GAS_PRICE * k) \div MIN_GAS_PRICE = k
  BY <1>1, ProductOver
<1>3. p >= MIN_GAS_PRICE => MIN_GAS_PRICE * k <= p * k
  BY <1>1, ProductGrows
<1>4. p * k = k * p /\ MIN_GAS_PRICE * k \in Nat
  BY <1>1
<1> QED BY <1>2, <1>3, <1>4

\* The fee that is taken if it pays.
FeeWanted(tx, minFee) ==
    CASE tx.price # Nothing -> (minFee \div MIN_GAS_PRICE) * tx.price
      [] tx.fee # Nothing -> tx.fee
      [] OTHER -> minFee
LEMMA FeeTaken ==
    ASSUME NEW tx, NEW min, NEW may
    PROVE  serializeAettos(tx, min, may) =
               IF min <= FeeWanted(tx, min) THEN FeeWanted(tx, min) ELSE IF may THEN min ELSE Refused
  BY Zenon DEF serializeAettos, FeeWanted

\* It grows with the least one.
LEMMA WantedGrows ==
    ASSUME NEW tx, tx.fee \in Given(Nat), tx.price \in Given(Nat), Nothing \in {tx.fee, tx.price},
           NEW k \in Nat, NEW l \in Nat, k <= l
    PROVE  /\ FeeWanted(tx, MIN_GAS_PRICE * k) \in Nat /\ FeeWanted(tx, MIN_GAS_PRICE * l) \in Nat
           /\ FeeWanted(tx, MIN_GAS_PRICE * k) <= FeeWanted(tx, MIN_GAS_PRICE * l)
           /\ MIN_GAS_PRICE * k \in Nat /\ MIN_GAS_PRICE * l \in Nat /\ MIN_GAS_PRICE * k <= MIN_GAS_PRICE * l
<1> DEFINE a == MIN_GAS_PRICE * k  b == MIN_GAS_PRICE * l
<1>1. MIN_GAS_PRICE \in Nat
  BY TxFeesAssumption
<1>2. a \in Nat /\ b \in Nat /\ a <= b
  <2>1. k * MIN_GAS_PRICE <= l * MIN_GAS_PRICE
    BY <1>1, ProductGrows
  <2>2. a = k * MIN_GAS_PRICE /\ b = l * MIN_GAS_PRICE /\ a \in Nat /\ b \in Nat
    BY <1>1
  <2> QED BY <2>1, <2>2
<1>3. a \div MIN_GAS_PRICE = k /\ b \div MIN_GAS_PRICE = l
  BY PriceIsPaid
<1> HIDE DEF a, b
<1>4. CASE tx.price # Nothing
  <2> DEFINE v == k * tx.price  w == l * tx.price
  <2>1. v \in Nat /\ w \in Nat /\ v <= w
    BY <1>4, ProductGrows DEF Given
  <2>2. FeeWanted(tx, a) = v /\ FeeWanted(tx, b) = w
    BY <1>3, <1>4 DEF FeeWanted
  <2> HIDE DEF v, w
  <2> QED BY <1>2, <2>1, <2>2 DEF a, b
<1>5. CASE tx.price = Nothing /\ tx.fee # Nothing
  <2>1. FeeWanted(tx, a) = tx.fee /\ FeeWanted(tx, b) = tx.fee /\ tx.fee \in Nat
    BY <1>5 DEF FeeWanted, Given
  <2> QED BY <1>2, <2>1 DEF a, b
<1>6. CASE tx.price = Nothing /\ tx.fee = Nothing
  <2>1. FeeWanted(tx, a) = a /\ FeeWanted(tx, b) = b
    BY <1>6 DEF FeeWanted
  <2> QED BY <1>2, <2>1 DEF a, b
<1> QED BY <1>4, <1>5, <1>6

\* The fee that the gas limit is calculated with is not below the one that is paid.
LEMMA FeeForLimit ==
    ASSUME NEW tx, tx.fee \in Given(Nat), tx.price \in Given(Nat), Nothing \in {tx.fee, tx.price},
           NEW k \in Nat, NEW l \in Nat, k <= l,
           serializeAettos(tx, MIN_GAS_PRICE * k, FALSE) # Refused
    PROVE  /\ serializeAettos(tx, MIN_GAS_PRICE * k, FALSE) \in Int /\ serializeAettos(tx, MIN_GAS_PRICE * l, TRUE) \in Int
           /\ serializeAettos(tx, MIN_GAS_PRICE * k, FALSE) <= serializeAettos(tx, MIN_GAS_PRICE * l, TRUE)
<1> DEFINE a == MIN_GAS_PRICE * k  b == MIN_GAS_PRICE * l
           v == FeeWanted(tx, a)  w == FeeWanted(tx, b)
           x == serializeAettos(tx, a, FALSE)  y == serializeAettos(tx, b, TRUE)
<1>1. a \in Nat /\ b \in Nat /\ v \in Nat /\ w \in Nat /\ a <= b /\ v <= w
  BY WantedGrows
<1>2. x = (IF a <= v THEN v ELSE IF FALSE THEN a ELSE Refused) /\ y = (IF b <= w THEN w ELSE IF TRUE THEN b ELSE Refused)
  BY Zenon, FeeTaken
<1>3. x # Refused
  OBVIOUS
<1> HIDE DEF a, b, v, w, x, y
<1>4. x = v /\ y \in {b, w} /\ (b <= w => y = w)
  BY Zenon, <1>2, <1>3
<1>5. x \in Int /\ y \in Int /\ x <= y
  <2>1. CASE b <= w
    BY <1>1, <1>4, <2>1
  <2>2. CASE ~(b <= w)
    BY <1>1, <1>4, <2>2
  <2> QED BY <2>1, <2>2
<1> QED BY <1>5 DEF a, b, x, y

\* The limit is of the gas that the transaction leaves when it has the greatest limit and the
\* fee that goes with it; what it has costs no more.
LEMMA LimitLeavesRoom ==
    ASSUME NEW tx, IsTx(tx), tx.tag \in Running \ {"GaMetaTx"}, Built(tx).limit # Refused, Built(tx).fee # Refused
    PROVE  Built(tx).limit + buildGas(tx, Built(tx).fee, Built(tx).limit) <= gasMax
<1> DEFINE limit == Built(tx).limit  fee == Built(tx).fee
           minF == calculateMinFee(tx, FALSE)  minT == calculateMinFee(tx, TRUE)
           feeT == serializeAettos(tx, minT, TRUE)
           max == LimitMax(tx, feeT)
<1>1. limit = (IF tx.limit = Nothing THEN max ELSE IF tx.limit > max THEN Refused ELSE tx.limit)
  BY Zenon DEF Built, Limited
<1>1a. fee = serializeAettos(tx, minF, FALSE)
  BY Zenon DEF Built
<1>2. /\ Fits(tx) /\ Alike(tx, tx) /\ tx.fee \in Given(Nat) /\ tx.price \in Given(Nat)
      /\ Nothing \in {tx.fee, tx.price} /\ tx.tag # "GaMetaTx" /\ gasMax \in Nat
      /\ tx.limit # Nothing => tx.limit \in Nat
  BY TxFeesAssumption DEF IsTx, Fits, Alike, Given
<1>3. feeT \in Int
  <2>1. \A f, g \in Int : f <= g =>
            /\ RoundGas(tx, TRUE, f) \in Nat /\ RoundGas(tx, TRUE, g) \in Nat
            /\ RoundGas(tx, TRUE, f) <= RoundGas(tx, TRUE, g)
    BY <1>2, GasGrows DEF RoundGas
  <2>2. MinFeeGrows(tx, TRUE, tx, TRUE)
    BY Zenon, <2>1, FeesGrow DEF EachRoundGrows
  <2>3. PICK k \in Nat : minT = MIN_GAS_PRICE * k
    BY Zenon, <2>2 DEF MinFeeGrows
  <2>4. FeeWanted(tx, MIN_GAS_PRICE * k) \in Nat /\ MIN_GAS_PRICE * k \in Nat
    BY <1>2, WantedGrows
  <2>5. feeT \in {FeeWanted(tx, minT), minT}
    BY Zenon, FeeTaken
  <2> HIDE DEF feeT, minT
  <2> QED BY <2>3, <2>4, <2>5
<1> HIDE DEF limit, fee
<1>4. max \in Int /\ max = gasMax - buildGas(tx, feeT, gasMax) /\ max <= gasMax
  BY <1>2, <1>3, LimitIs
<1>5. limit \in Int /\ limit <= max /\ (tx.limit # Nothing => limit = tx.limit)
  <2>1. limit # Refused
    BY DEF limit
  <2> HIDE DEF max, feeT
  <2>2. CASE tx.limit = Nothing
    BY <1>1, <1>4, <2>2
  <2>3. CASE tx.limit # Nothing
    BY <1>1, <1>2, <1>4, <2>1, <2>3
  <2> QED BY <2>2, <2>3
<1>6. \A f, g \in Int : f <= g =>
          /\ RoundGas(tx, FALSE, f) \in Nat /\ RoundGas(tx, TRUE, g) \in Nat
          /\ RoundGas(tx, FALSE, f) <= RoundGas(tx, TRUE, g)
  <2> SUFFICES ASSUME NEW f \in Int, NEW g \in Int, f <= g
               PROVE  /\ RoundGas(tx, FALSE, f) \in Nat /\ RoundGas(tx, TRUE, g) \in Nat
                      /\ RoundGas(tx, FALSE, f) <= RoundGas(tx, TRUE, g)
    OBVIOUS
  <2>1. LimitMax(tx, f) \in Int /\ LimitMax(tx, f) <= gasMax
    BY <1>2, LimitIs
  <2>2. LimitAt(tx, f) = (IF tx.limit = Nothing THEN LimitMax(tx, f) ELSE tx.limit)
    BY DEF LimitAt
  <2>3. LimitAt(tx, f) \in Int /\ LimitAt(tx, f) <= gasMax
    <3> HIDE DEF max, feeT
    <3> QED BY <1>2, <1>4, <1>5, <2>1, <2>2
  <2> QED BY <1>2, <2>3, GasGrows DEF RoundGas
<1>7. PICK k, l \in Nat : minF = MIN_GAS_PRICE * k /\ minT = MIN_GAS_PRICE * l /\ k <= l
  <2>1. MinFeeGrows(tx, FALSE, tx, TRUE)
    BY Zenon, <1>6, FeesGrow DEF EachRoundGrows
  <2> QED BY Zenon, <2>1 DEF MinFeeGrows
<1>8. fee \in Int /\ fee <= feeT
  <2>1. serializeAettos(tx, MIN_GAS_PRICE * k, FALSE) # Refused
    BY Zenon, <1>1a, <1>7 DEF fee
  <2>2. /\ serializeAettos(tx, MIN_GAS_PRICE * k, FALSE) \in Int
        /\ serializeAettos(tx, MIN_GAS_PRICE * k, FALSE) <= serializeAettos(tx, MIN_GAS_PRICE * l, TRUE)
    BY Zenon, <1>2, <1>7, <2>1, FeeForLimit
  <2> QED BY Zenon, <1>1a, <1>7, <2>2
<1>9. buildGas(tx, fee, limit) \in Nat /\ buildGas(tx, fee, limit) <= buildGas(tx, feeT, gasMax) /\ buildGas(tx, feeT, gasMax) \in Nat
  <2> HIDE DEF max, feeT
  <2>1. limit <= gasMax
    BY <1>2, <1>4, <1>5
  <2> QED BY <1>2, <1>3, <1>5, <1>8, <2>1, GasGrows
<1>10. limit + buildGas(tx, fee, limit) <= gasMax
  <2> HIDE DEF max, feeT
  <2> QED BY <1>2, <1>4, <1>5, <1>9
<1> QED BY <1>10 DEF limit, fee

-----------------------------------------------------------------------------
(* transferFunds *)

\* A spend has no gas limit.
LEMMA SpendGas ==
    ASSUME NEW tx, NEW ty, Fits(tx), Fits(ty), Alike(tx, ty), tx.tag = "SpendTx", NEW f \in Int, NEW g \in Int, f <= g
    PROVE  /\ RoundGas(tx, FALSE, f) \in Nat /\ RoundGas(ty, FALSE, g) \in Nat
           /\ RoundGas(tx, FALSE, f) <= RoundGas(ty, FALSE, g)
<1>1. tx.tag \notin Running /\ ty.tag \notin Running
  BY DEF Running, Alike
<1>2. \A n, m : TxLength(tx, f, n) = TxLength(tx, f, m) /\ TxLength(ty, g, n) = TxLength(ty, g, m)
  BY <1>1 DEF TxLength
<1>3. \A n : buildGas(tx, f, n) = buildGas(tx, f, 0) /\ buildGas(ty, g, n) = buildGas(ty, g, 0)
  BY <1>2 DEF buildGas
<1>4. buildGas(tx, f, 0) \in Nat /\ buildGas(ty, g, 0) \in Nat /\ buildGas(tx, f, 0) <= buildGas(ty, g, 0)
  BY GasGrows
<1>5. /\ RoundGas(tx, FALSE, f) = buildGas(tx, f, LimitAt(tx, f))
      /\ RoundGas(ty, FALSE, g) = buildGas(ty, g, LimitAt(ty, g))
  BY DEF RoundGas
<1> QED BY <1>3, <1>4, <1>5

\* The fee of a smaller amount is not greater.
LEMMA SpendFees ==
    ASSUME NEW bytes \in Nat, NEW price, price \in Given(Nat), price # Nothing => price >= MIN_GAS_PRICE,
           NEW a \in Int, NEW d \in Int, a <= d
    PROVE  /\ Built(Spend(bytes, a, price)).fee \in Nat /\ Built(Spend(bytes, d, price)).fee \in Nat
           /\ Built(Spend(bytes, a, price)).fee <= Built(Spend(bytes, d, price)).fee
<1> DEFINE sa == Spend(bytes, a, price)  sd == Spend(bytes, d, price)
<1>1. Item(a) \in Nat /\ Item(d) \in Nat /\ Item(a) <= Item(d)
  BY ItemGrows
<1>2. /\ Fits(sa) /\ Fits(sd) /\ Alike(sa, sd) /\ sa.tag = "SpendTx"
      /\ sa.price = price /\ sd.price = price /\ sa.fee = Nothing /\ sd.fee = Nothing
  BY <1>1 DEF Spend, Fits, Alike
<1>3. /\ Built(sa).fee = serializeAettos(sa, calculateMinFee(sa, FALSE), FALSE)
      /\ Built(sd).fee = serializeAettos(sd, calculateMinFee(sd, FALSE), FALSE)
  BY DEF Built
<1> HIDE DEF sa, sd
<1>4. PICK k, l \in Nat : /\ calculateMinFee(sa, FALSE) = MIN_GAS_PRICE * k
                          /\ calculateMinFee(sd, FALSE) = MIN_GAS_PRICE * l /\ k <= l
  <2>1. \A f, g \in Int : f <= g =>
            /\ RoundGas(sa, FALSE, f) \in Nat /\ RoundGas(sd, FALSE, g) \in Nat
            /\ RoundGas(sa, FALSE, f) <= RoundGas(sd, FALSE, g)
    BY Zenon, <1>2, SpendGas
  <2>2. MinFeeGrows(sa, FALSE, sd, FALSE)
    BY Zenon, <2>1, FeesGrow DEF EachRoundGrows
  <2> QED BY Zenon, <2>2 DEF MinFeeGrows
<1> DEFINE m == MIN_GAS_PRICE * k  n == MIN_GAS_PRICE * l
<1>5. FeeWanted(sa, m) \in Nat /\ FeeWanted(sa, n) \in Nat /\ FeeWanted(sa, m) <= FeeWanted(sa, n)
  BY <1>2, <1>4, WantedGrows DEF Given
<1>6. FeeWanted(sd, n) = FeeWanted(sa, n)
  BY Zenon, <1>2 DEF FeeWanted
<1>7. \A t \in {sa, sd}, j \in Nat : MIN_GAS_PRICE * j <= FeeWanted(t, MIN_GAS_PRICE * j)
  <2> SUFFICES ASSUME NEW t \in {sa, sd}, NEW j \in Nat PROVE MIN_GAS_PRICE * j <= FeeWanted(t, MIN_GAS_PRICE * j)
    OBVIOUS
  <2> DEFINE w == MIN_GAS_PRICE * j
  <2>0. t.price = price /\ t.fee = Nothing
    BY <1>2
  <2>1. CASE price # Nothing
    <3>1. w \div MIN_GAS_PRICE = j /\ w <= j * price
      BY <2>1, PriceIsPaid DEF Given
    <3> HIDE DEF w
    <3>2. FeeWanted(t, w) = j * price
      BY <2>0, <2>1, <3>1 DEF FeeWanted
    <3> QED BY <3>1, <3>2 DEF w
  <2>2. CASE price = Nothing
    <3>1. w \in Nat
      BY PriceIsPaid, TxFeesAssumption
    <3> HIDE DEF w
    <3>2. FeeWanted(t, w) = w
      BY <2>0, <2>2 DEF FeeWanted
    <3> QED BY <3>1, <3>2 DEF w
  <2> QED BY <2>1, <2>2
<1>8. m <= FeeWanted(sa, m) /\ n <= FeeWanted(sd, n)
  BY <1>7
<1> HIDE DEF m, n
<1>9. Built(sa).fee = FeeWanted(sa, m) /\ Built(sd).fee = FeeWanted(sd, n)
  BY Zenon, <1>3, <1>4, <1>8, FeeTaken DEF m, n
<1>10. Built(sa).fee \in Nat /\ Built(sd).fee \in Nat /\ Built(sa).fee <= Built(sd).fee
  BY <1>5, <1>6, <1>9
<1> QED BY <1>10 DEF sa, sd

\* What is sent and its fee are no more than the balance.
LEMMA TransferLeavesRoom ==
    ASSUME NEW t, IsTransfer(t), t.price = t.priceThen, transferFunds(t) # Refused
    PROVE  transferFunds(t).amount + transferFunds(t).fee <= t.balance
<1> DEFINE desired == Share(t.balance, t.percent)
           fee == Built(Spend(t.bytes, desired, t.price)).fee
           amount == IF desired + fee > t.balance THEN t.balance - fee ELSE desired
           then == Built(Spend(t.bytes, amount, t.price)).fee
<1>1. t.bytes \in Nat /\ t.balance \in Nat /\ t.price \in Given(Nat) /\ (t.price # Nothing => t.price >= MIN_GAS_PRICE)
  BY DEF IsTransfer
<1>2. desired \in Int
  <2>1. t.balance * t.percent \in Nat
    BY DEF IsTransfer
  <2> DEFINE p == t.balance * t.percent
  <2> HIDE DEF p
  <2>2. p \in Nat => (p + 50) \div 100 \in Int
    OBVIOUS
  <2> QED BY <2>1, <2>2 DEF Share, p
<1> HIDE DEF desired
<1>3. fee \in Nat
  BY <1>1, <1>2, SpendFees
<1> HIDE DEF fee
<1>4. amount \in Int /\ amount <= desired /\ amount + fee <= t.balance
  BY <1>1, <1>2, <1>3
<1> HIDE DEF amount
<1>5. then \in Nat /\ then <= fee
  BY <1>1, <1>2, <1>4, SpendFees DEF fee
<1>6. transferFunds(t) = (IF amount < 0 THEN Refused ELSE [amount |-> amount, fee |-> then])
  BY Zenon DEF transferFunds, desired, fee, amount
<1>7. transferFunds(t).amount = amount /\ transferFunds(t).fee = then
  BY <1>6
<1> HIDE DEF then
<1> QED BY <1>1, <1>3, <1>4, <1>5, <1>7

-----------------------------------------------------------------------------
(* The cached price *)

\* An answer on its way was given a short time ago, a cached price was when it arrived.
PricesOK ==
    /\ now \in Nat
    /\ cache.time \in Nat /\ cache.read \in Nat /\ cache.time <= now /\ cache.time - cache.read <= MaxLatency
    /\ DOMAIN asked = Builders
    /\ \A b \in Builders :
        /\ asked[b].is \in {"idle", "answered", "got"} /\ asked[b].read \in Nat
        /\ asked[b].is = "answered" => now - asked[b].read <= MaxLatency
        /\ asked[b].is = "got" => now - asked[b].read <= CacheTime + MaxLatency

\* What a builder gets does not change what the others have.
LEMMA AskingOK ==
    ASSUME PricesOK, NEW b \in Builders, NEW is \in {"idle", "answered", "got"}, NEW price, NEW read \in Nat,
           Asking(b, is, price, read), now' = now,
           is = "answered" => now - read <= MaxLatency,
           is = "got" => now - read <= CacheTime + MaxLatency
    PROVE  /\ DOMAIN asked' = Builders
           /\ \A c \in Builders :
                /\ asked'[c].is \in {"idle", "answered", "got"} /\ asked'[c].read \in Nat
                /\ asked'[c].is = "answered" => now' - asked'[c].read <= MaxLatency
                /\ asked'[c].is = "got" => now' - asked'[c].read <= CacheTime + MaxLatency
<1>1. asked' = [asked EXCEPT ![b] = [is |-> is, price |-> price, read |-> read]] /\ DOMAIN asked = Builders
  BY DEF Asking, PricesOK
<1>2. DOMAIN asked' = Builders
  BY <1>1
<1>3. ASSUME NEW c \in Builders
      PROVE  /\ asked'[c].is \in {"idle", "answered", "got"} /\ asked'[c].read \in Nat
             /\ asked'[c].is = "answered" => now' - asked'[c].read <= MaxLatency
             /\ asked'[c].is = "got" => now' - asked'[c].read <= CacheTime + MaxLatency
  <2>1. CASE c = b
    <3>1. asked'[c].is = is /\ asked'[c].read = read
      BY <1>1, <2>1
    <3> QED BY <3>1
  <2>2. CASE c # b
    <3>1. asked'[c] = asked[c]
      BY <1>1, <2>2
    <3> QED BY <3>1 DEF PricesOK
  <2> QED BY <2>1, <2>2
<1> QED BY <1>2, <1>3

LEMMA PricesStep == PricesOK /\ [TfNext]_tfvars => PricesOK'
<1> SUFFICES ASSUME PricesOK, [TfNext]_tfvars PROVE PricesOK'
  OBVIOUS
<1>0. CacheTime \in Nat /\ MaxLatency \in Nat
  BY PricesAssumption
<1>1. CASE BuildTx \/ TransferFunds \/ UNCHANGED tfvars
  <2>1. UNCHANGED <<now, cache, asked>>
    BY <1>1 DEF BuildTx, TransferFunds, tfvars
  <2> QED BY <2>1 DEF PricesOK
<1>2. CASE TimePasses
  <2>1. now' = now + 1 /\ UNCHANGED <<cache, asked>>
    BY <1>2 DEF TimePasses
  <2>2. \A b \in Builders : asked[b].is # "got" /\ (asked[b].is = "answered" => now - asked[b].read < MaxLatency)
    BY <1>2 DEF TimePasses
  <2> QED BY <1>0, <2>1, <2>2 DEF PricesOK
<1>3. ASSUME NEW b \in Builders, Ask(b) PROVE PricesOK'
  <2>1. UNCHANGED <<now, cache>>
    BY <1>3 DEF Ask
  <2>2. CASE cache.time > now - CacheTime
    <3>1. Asking(b, "got", cache.price, cache.read)
      BY <1>3, <2>2 DEF Ask
    <3>2. now - cache.read <= CacheTime + MaxLatency
      BY <1>0, <2>2 DEF PricesOK
    <3>3. cache.read \in Nat
      BY DEF PricesOK
    <3> QED BY <2>1, <3>1, <3>2, <3>3, AskingOK DEF PricesOK
  <2>3. CASE ~(cache.time > now - CacheTime)
    <3>1. Asking(b, "answered", Increased(offered), now)
      BY <1>3, <2>3 DEF Ask
    <3>2. now \in Nat /\ now - now <= MaxLatency
      BY <1>0 DEF PricesOK
    <3> QED BY <2>1, <3>1, <3>2, AskingOK DEF PricesOK
  <2> QED BY <2>2, <2>3
<1>4. ASSUME NEW b \in Builders, Arrives(b) PROVE PricesOK'
  <2>1. /\ now' = now /\ asked[b].is = "answered"
        /\ Asking(b, "got", asked[b].price, asked[b].read)
        /\ cache' = [price |-> asked[b].price, time |-> now, read |-> asked[b].read]
    BY <1>4 DEF Arrives
  <2>2. now \in Nat /\ asked[b].read \in Nat /\ now - asked[b].read <= MaxLatency
    BY <2>1 DEF PricesOK
  <2>3. now - asked[b].read <= CacheTime + MaxLatency
    BY <1>0, <2>2
  <2>4. cache'.time = now /\ cache'.read = asked[b].read
    BY <2>1
  <2> QED BY <2>1, <2>2, <2>3, <2>4, AskingOK DEF PricesOK
<1>5. ASSUME NEW b \in Builders, Again(b) PROVE PricesOK'
  <2>1. UNCHANGED <<now, cache>> /\ Asking(b, "idle", 0, 0)
    BY <1>5 DEF Again, Asking, Idle
  <2> QED BY <2>1, AskingOK DEF PricesOK
<1> QED BY <1>1, <1>2, <1>3, <1>4, <1>5 DEF TfNext

\* The result is of the task.
ResultOK ==
    /\ task \in Transactions \cup Transfers \cup {Nothing}
    /\ result # Nothing => \/ task \in Transactions /\ result = Built(task)
                           \/ task \in Transfers /\ result = transferFunds(task)

LEMMA ResultStep == ResultOK /\ [TfNext]_tfvars => ResultOK'
<1> SUFFICES ASSUME ResultOK, [TfNext]_tfvars PROVE ResultOK'
  OBVIOUS
<1>1. CASE BuildTx
  BY <1>1 DEF BuildTx, ResultOK
<1>2. CASE TransferFunds
  BY <1>2 DEF TransferFunds, ResultOK
<1>3. CASE UNCHANGED <<task, result>>
  BY <1>3 DEF ResultOK
<1> QED BY <1>1, <1>2, <1>3 DEF TfNext, TimePasses, Ask, Arrives, Again, tfvars

\* Whatever is built, sent and asked for, at any prices and sizes: gas limit and gas fit into a micro
\* block (gas-limit.ts), a transfer and its fee into the balance (spend.ts), and no price that is used is
\* older than the cache and an answer take (gas-price.ts).
THEOREM LimitsAreKept == TfSpec => []WithinLimits
<1>1. TfInit => PricesOK /\ ResultOK
  BY PricesAssumption DEF TfInit, PricesOK, ResultOK, NoPrice, Idle
<1>2. PricesOK /\ ResultOK /\ [TfNext]_tfvars => PricesOK' /\ ResultOK'
  BY PricesStep, ResultStep
<1>3. PricesOK /\ ResultOK => WithinLimits
  <2> SUFFICES ASSUME PricesOK, ResultOK PROVE WithinLimits
    OBVIOUS
  <2>1. GasFits
    <3> SUFFICES ASSUME IsBuilt, task.tag \in Running \ {"GaMetaTx"}, result.limit # Refused, result.fee # Refused
                 PROVE  result.limit + buildGas(task, result.fee, result.limit) <= gasMax
      BY DEF GasFits
    <3>1. result = Built(task) /\ IsTx(task)
      BY TasksAssumption DEF IsBuilt, ResultOK
    <3> QED BY <3>1, LimitLeavesRoom
  <2>2. TransferFits
    <3> SUFFICES ASSUME IsTransferred, task.price = task.priceThen
                 PROVE  result.amount + result.fee <= task.balance
      BY DEF TransferFits
    <3>1. result = transferFunds(task) /\ IsTransfer(task) /\ result # Refused
      BY TasksAssumption DEF IsTransferred, ResultOK
    <3> QED BY <3>1, TransferLeavesRoom
  <2>3. PriceIsRecent
    BY DEF PriceIsRecent, PricesOK
  <2> QED BY <2>1, <2>2, <2>3 DEF WithinLimits
<1> QED BY <1>1, <1>2, <1>3, PTL DEF TfSpec
=============================================================================
