----------------------------- MODULE QueueLemmas ------------------------------
(***************************************************************************)
(* Facts that several proofs cite.  About sequences used as queues, such   *)
(* as the action queue of the channel or the responses of an oracle: which *)
(* elements a queue has, and that it has none of them twice.  And about    *)
(* sets of numbers: they have a least element, which is how the proofs do  *)
(* their inductions, and a largest if they are bounded.                    *)
(***************************************************************************)
EXTENDS Naturals, Sequences, SequenceTheorems, WellFoundedInduction, TLAPS

Has(s, x) == \E i \in 1 .. Len(s) : s[i] = x

Once(s) == \A i, j \in 1 .. Len(s) : s[i] = s[j] => i = j

\* Nothing is in the empty queue.
LEMMA HasEmpty == ASSUME NEW x PROVE ~ Has(<<>>, x) /\ Once(<<>>)
BY DEF Has, Once

\* Only y is in <<y>>.
LEMMA HasSingle == ASSUME NEW x, NEW y PROVE (Has(<<y>>, x) <=> x = y) /\ Once(<<y>>)
BY DEF Has, Once

\* A concatenation has the elements of both sequences.
LEMMA HasConcat ==
  ASSUME NEW S, NEW s \in Seq(S), NEW t \in Seq(S), NEW x
  PROVE  Has(s \o t, x) <=> Has(s, x) \/ Has(t, x)
<1>1. /\ Len(s) \in Nat /\ Len(t) \in Nat
      /\ Len(s \o t) = Len(s) + Len(t)
      /\ \A i \in 1 .. Len(s) + Len(t) :
           (s \o t)[i] = IF i <= Len(s) THEN s[i] ELSE t[i - Len(s)]
  BY ConcatProperties, LenProperties
<1>2. ASSUME Has(s \o t, x) PROVE Has(s, x) \/ Has(t, x)
  BY <1>1, <1>2 DEF Has
<1>3. ASSUME Has(s, x) PROVE Has(s \o t, x)
  BY <1>1, <1>3 DEF Has
<1>4. ASSUME Has(t, x) PROVE Has(s \o t, x)
  <2>1. PICK i \in 1 .. Len(t) : t[i] = x
    BY <1>4 DEF Has
  <2>2. (s \o t)[Len(s) + i] = x /\ Len(s) + i \in 1 .. Len(s \o t)
    BY <1>1, <2>1
  <2> QED BY <2>2 DEF Has
<1> QED BY <1>2, <1>3, <1>4

\* The concatenation of disjoint sequences without duplicates has none.
LEMMA OnceConcat ==
  ASSUME NEW S, NEW s \in Seq(S), NEW t \in Seq(S),
         Once(s), Once(t), \A x \in S : ~ (Has(s, x) /\ Has(t, x))
  PROVE  Once(s \o t)
<1>1. /\ Len(s) \in Nat /\ Len(t) \in Nat
      /\ Len(s \o t) = Len(s) + Len(t)
      /\ \A i \in 1 .. Len(s) + Len(t) :
           (s \o t)[i] = IF i <= Len(s) THEN s[i] ELSE t[i - Len(s)]
      /\ \A i \in 1 .. Len(s) : s[i] \in S
  BY ConcatProperties, LenProperties, ElementOfSeq
<1>2. \A i \in 1 .. Len(s), j \in 1 .. Len(t) : s[i] # t[j]
  BY <1>1 DEF Has
<1> QED BY <1>1, <1>2 DEF Once

\* The tail of a queue without duplicates loses its head, and nothing else.
LEMMA HasTail ==
  ASSUME NEW S, NEW s \in Seq(S), s # <<>>, Once(s), NEW x
  PROVE  Has(Tail(s), x) <=> Has(s, x) /\ x # Head(s)
<1>1. /\ Len(s) \in Nat \ {0}
      /\ Len(Tail(s)) = Len(s) - 1
      /\ \A i \in 1 .. Len(s) - 1 : Tail(s)[i] = s[i + 1]
      /\ Head(s) = s[1]
  BY HeadTailProperties, LenProperties, EmptySeq
<1>2. ASSUME Has(Tail(s), x) PROVE Has(s, x) /\ x # Head(s)
  BY <1>1, <1>2 DEF Has, Once
<1>3. ASSUME Has(s, x), x # Head(s) PROVE Has(Tail(s), x)
  <2>1. PICK i \in 1 .. Len(s) : s[i] = x
    BY <1>3 DEF Has
  <2>2. i - 1 \in 1 .. Len(s) - 1 /\ Tail(s)[i - 1] = x
    BY <1>1, <1>3, <2>1
  <2> QED BY <1>1, <2>2 DEF Has
<1> QED BY <1>2, <1>3

\* It has no duplicates either, and the queue has its head.
LEMMA OnceTail ==
  ASSUME NEW S, NEW s \in Seq(S), s # <<>>, Once(s)
  PROVE  Once(Tail(s)) /\ Tail(s) \in Seq(S) /\ Has(s, Head(s)) /\ Head(s) \in S
<1>1. /\ Len(s) \in Nat \ {0}
      /\ Len(Tail(s)) = Len(s) - 1
      /\ \A i \in 1 .. Len(s) - 1 : Tail(s)[i] = s[i + 1]
      /\ Head(s) = s[1]
      /\ Tail(s) \in Seq(S) /\ Head(s) \in S
  BY HeadTailProperties, LenProperties, EmptySeq
<1> QED BY <1>1 DEF Has, Once

\* A queue has its head.
LEMMA HasHead ==
  ASSUME NEW S, NEW s \in Seq(S), s # <<>>
  PROVE  Has(s, Head(s))
<1>1. Len(s) \in Nat \ {0} /\ Head(s) = s[1]
  BY EmptySeq, LenProperties
<1> QED BY <1>1 DEF Has

\* A queue takes a list of at most one element that it does not have.
LEMMA Extend ==
  ASSUME NEW S, NEW s \in Seq(S), NEW x \in S, NEW l \in {<<>>, <<x>>},
         Once(s), Has(s, x) => l = <<>>
  PROVE  /\ s \o l \in Seq(S)
         /\ Once(s \o l)
         /\ \A y : Has(s \o l, y) <=> Has(s, y) \/ (l = <<x>> /\ y = x)
<1>1. l \in Seq(S)
  <2>1. <<>> \in Seq(S)
    OBVIOUS
  <2>2. <<x>> \in Seq(S)
    OBVIOUS
  <2> QED BY <2>1, <2>2
<1>2. \A y : Has(l, y) <=> l = <<x>> /\ y = x
  BY HasEmpty, HasSingle
<1>3. Once(l)
  BY HasEmpty, HasSingle
<1>4. s \o l \in Seq(S)
  BY <1>1, ConcatProperties
<1>5. Once(s \o l)
  <2>1. \A y \in S : ~ (Has(s, y) /\ Has(l, y))
    <3>1. CASE l = <<>>
      BY <3>1, HasEmpty
    <3>2. CASE l # <<>>
      BY <3>2, <1>2
    <3> QED BY <3>1, <3>2
  <2> QED BY <1>1, <1>3, <2>1, OnceConcat
<1>6. \A y : Has(s \o l, y) <=> Has(s, y) \/ Has(l, y)
  BY <1>1, HasConcat
<1> QED BY <1>2, <1>4, <1>5, <1>6

\* An element that is put at the end is in the queue, with all there were.
LEMMA HasAppend ==
  ASSUME NEW S, NEW s \in Seq(S), NEW x \in S, NEW y
  PROVE  Has(Append(s, x), y) <=> Has(s, y) \/ y = x
<1>1. /\ Len(s) \in Nat /\ Len(Append(s, x)) = Len(s) + 1
      /\ \A i \in 1 .. Len(s) : Append(s, x)[i] = s[i]
      /\ Append(s, x)[Len(s) + 1] = x
  BY AppendProperties, LenProperties
<1> QED BY <1>1 DEF Has

\* Put at the end, a new element is there once.
LEMMA OnceAppend ==
  ASSUME NEW S, NEW s \in Seq(S), NEW x \in S, Once(s), ~ Has(s, x)
  PROVE  Once(Append(s, x)) /\ Append(s, x) \in Seq(S)
<1>1. /\ Len(s) \in Nat /\ Len(Append(s, x)) = Len(s) + 1 /\ Append(s, x) \in Seq(S)
      /\ \A i \in 1 .. Len(s) : Append(s, x)[i] = s[i]
      /\ Append(s, x)[Len(s) + 1] = x
  BY AppendProperties, LenProperties
<1> QED BY <1>1 DEF Has, Once

-----------------------------------------------------------------------------
\* A set of natural numbers has a least element.
LEMMA Least ==
  ASSUME NEW S, S \subseteq Nat, S # {}
  PROVE  \E x \in S : \A y \in S : x <= y
<1> DEFINE R == OpToRel(<, Nat)
<1>1. IsWellFoundedOn(R, Nat)
  BY NatLessThanWellFounded
<1>2. \A x, y \in Nat : x < y <=> <<x, y>> \in R
  BY DEF OpToRel
<1> HIDE DEF R
<1>3. PICK x \in S : \A y \in S : <<y, x>> \notin R
  BY <1>1, WFMin
<1>4. \A y \in S : ~(y < x)
  BY <1>2, <1>3
<1>5. x \in Nat /\ \A y \in S : y \in Nat
  OBVIOUS
<1> QED BY <1>3, <1>4, <1>5

\* A bounded set of natural numbers has a largest one.
LEMMA Greatest ==
  ASSUME NEW N \in Nat, NEW S, S \subseteq 0 .. N, S # {}
  PROVE  \E x \in S : \A y \in S : y <= x
<1> DEFINE Below == {N - n : n \in S}
<1>1. \A n \in S : n \in Nat /\ N - n \in Nat
  OBVIOUS
<1>2. Below \subseteq Nat /\ Below # {}
  BY <1>1
<1>3. PICK b \in Below : \A m \in Below : b <= m
  <2> HIDE DEF Below
  <2> QED BY <1>2, Least
<1>4. PICK n \in S : b = N - n
  OBVIOUS
<1>5. \A m \in S : N - n <= N - m
  BY <1>3, <1>4
<1>6. \A m \in S : m <= n
  BY <1>1, <1>5
<1> QED BY <1>6
=============================================================================
