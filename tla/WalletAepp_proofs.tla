--------------------------- MODULE WalletAepp_proofs ---------------------------
(***************************************************************************)
(* The sessions of WalletAepp, for every number of aepps, sessions and     *)
(* requests and every way to tie them: a request is in one place, the ends *)
(* agree on whether they are connected, and what an aepp was told last is  *)
(* what the wallet has. The errors that they send each other are those of  *)
(* RpcErrors, which is of one connection.                                  *)
(***************************************************************************)
EXTENDS WalletAepp, RpcErrors, QueueLemmas, FiniteSetTheorems

-----------------------------------------------------------------------------
(* What travels, and what waits *)

Kinds == {"current", "connected"}
Args == {None} \cup Kinds \cup Nodes \cup Accounts
ArgsOf(method) ==
    CASE method \in {"subscribe", "unsubscribe"} -> Kinds
      [] method = "updateNetwork" -> Nodes
      [] method = "sign" -> Accounts
      [] OTHER -> {None}
Nets == [networkId : Nodes, node : Nodes]
Views == [current : SUBSET Accounts, connected : SUBSET Accounts]

Requests == {m \in [type : {"request"}, id : Ids, method : Methods, arg : Args] : m.arg \in ArgsOf(m.method)}
Goodbye == Notification("closeConnection", None)
WalletMessages == Requests \cup {Goodbye, PortClosed}

ValuesOf(method) ==
    CASE method = "connect" -> Nets
      [] method \in {"subscribe", "unsubscribe"} -> Views
      [] method = "address" -> SUBSET Accounts
      [] method = "sign" -> Accounts \X Nodes
      [] OTHER -> {"null"}
Results == UNION {[type : {"result"}, id : Ids, method : {m}, value : ValuesOf(m)] : m \in Methods}
Failures == [type : {"error"}, id : Ids, method : Methods,
             why : {"notAuthorized", "permissionDeny", "rejected", "internal"}]
Pushes == [type : {"notify"}, method : {"updateAddress"}, value : Views]
          \cup [type : {"notify"}, method : {"updateNetwork"}, value : Nets] \cup {Goodbye}
AeppMessages == Results \cup Failures \cup Pushes \cup {PortClosed}

TaskSet == {t \in [s : Sessions, id : Ids, method : Methods, arg : Args,
                   stage : {"user", "info", "network"}, node : Nodes] :
              t.arg \in ArgsOf(t.method) /\ (t.stage = "info" => t.method = "connect")}
FetchSet == [node : Nodes, for : [s : {None}, id : Nat] \cup {t \in TaskSet : t.method = "updateNetwork"}]

\* The wallet's variables, the aepps', and what is between them.
WalletTypes ==
    /\ known \subseteq Sessions /\ heard \subseteq Sessions
    /\ status \in [Sessions -> {"new", "waiting", "connected", "disconnected"}]
    /\ subs \in [Sessions -> SUBSET Kinds]
    /\ accounts \subseteq Accounts /\ selected \in Accounts \cup {None}
    /\ node \in Nodes /\ raced \in BOOLEAN /\ ops \in 0..MaxOps
    /\ tasks \subseteq TaskSet /\ fetching \subseteq FetchSet
AeppTypes ==
    /\ attached \subseteq Sessions /\ accepted \subseteq Sessions /\ overlapped \subseteq Aepps
    /\ rpc \in [Aepps -> Sessions \cup {None}]
    /\ view \in [Aepps -> Views \cup {None}] /\ net \in [Aepps -> Nets \cup {None}]
    /\ lastId \in [Sessions -> 0..MaxRequests]
    /\ calls \in [Sessions -> SUBSET [id : Ids, method : Methods]]
QueueTypes ==
    /\ toWallet \in [Sessions -> Seq(WalletMessages)]
    /\ toAepp \in [Sessions -> Seq(AeppMessages)]
Types == setup \in Setups /\ WalletTypes /\ AeppTypes /\ QueueTypes

-----------------------------------------------------------------------------
(* Where requests are *)

Entry(x) == [id |-> x.id, method |-> x.method]
Responses == {"result", "error"}

\* The requests that the messages of some types in a queue are about, and that
\* there is one such message for each.
Entries(q, T) == {Entry(q[i]) : i \in {j \in 1..Len(q) : q[j].type \in T}}
OnceIn(q, T) == \A i, j \in 1..Len(q) : q[i].type \in T /\ q[j].type \in T /\ q[i].id = q[j].id => i = j

Asked(s) == Entries(toWallet[s], {"request"})
Tended(s) == {Entry(t) : t \in {u \in tasks : u.s = s}}
Selecting(s) == {Entry(f.for) : f \in {g \in fetching : g.for.s = s}}
Answered(s) == Entries(toAepp[s], Responses)

Disjoint(A, B) == \A c \in A, d \in B : c.id # d.id

\* Requests in one of four places, with the callbacks K and the last id n.
Placed(A, B, C, D, K, n, att) ==
    /\ Disjoint(A, B) /\ Disjoint(A, C) /\ Disjoint(A, D)
    /\ Disjoint(B, C) /\ Disjoint(B, D) /\ Disjoint(C, D)
    /\ \A c \in A \cup B \cup C \cup D :
         /\ c.id <= n
         /\ att => c \in K
         /\ \A d \in K : d.id = c.id => d = c
    /\ \A d \in K : d.id <= n

OnceWaiting(s) ==
    /\ \A t, u \in tasks : t.s = s /\ u.s = s /\ t.id = u.id => t = u
    /\ \A f, g \in fetching : f.for.s = s /\ g.for.s = s /\ f.for.id = g.for.id => f = g

PlacesOK(s) ==
    /\ OnceIn(toWallet[s], {"request"}) /\ OnceIn(toAepp[s], Responses) /\ OnceWaiting(s)
    /\ Placed(Asked(s), Tended(s), Selecting(s), Answered(s), calls[s], lastId[s], s \in attached)

PlacesInv == \A s \in Sessions : PlacesOK(s)

-----------------------------------------------------------------------------
(* Who is connected *)

\* A session in use was begun at both ends, and a port says that it is closed
\* only once the wallet let go of it.
Begun(s) ==
    /\ s \in attached \cup accepted => lastId[s] > 0 /\ status[s] # "new"
    /\ Has(toAepp[s], PortClosed) => PortGone(s) /\ status[s] # "new"

\* Two sessions of an aepp at a time are remembered.
Apart(s) == \A x \in attached \ {s} : s \in attached /\ Owner(x) = Owner(s) => Owner(s) \in overlapped

\* The only session of an aepp is its client.
Holds(s) ==
    /\ s \in attached /\ Alone(s) /\ (s \in accepted \/ ~Sdk(Owner(s))) => rpc[Owner(s)] = s \/ PortGone(s)
    /\ Window(s) /\ rpc[Owner(s)] = s => s \in attached

HeldOK(s) == Begun(s) /\ Apart(s) /\ Holds(s) /\ (Window(s) /\ s \in known => s \in heard)
HeldInv == \A s \in Sessions : HeldOK(s)

-----------------------------------------------------------------------------
(* Queues *)

\* A message at the end of a queue.
LEMMA AppendFacts ==
    ASSUME NEW S, NEW q \in Seq(S), NEW m \in S
    PROVE  /\ Append(q, m) \in Seq(S)
           /\ Len(q) \in Nat /\ Len(Append(q, m)) = Len(q) + 1
           /\ \A i \in 1..Len(q) : Append(q, m)[i] = q[i]
           /\ Append(q, m)[Len(q) + 1] = m
BY AppendProperties, LenProperties

\* The first message of a queue, and the rest.
LEMMA TailFacts ==
    ASSUME NEW S, NEW q \in Seq(S), q # <<>>
    PROVE  /\ Tail(q) \in Seq(S) /\ Head(q) \in S
           /\ Len(q) \in Nat \ {0} /\ Len(Tail(q)) = Len(q) - 1
           /\ Head(q) = q[1]
           /\ \A i \in 1..Len(q) - 1 : Tail(q)[i] = q[i + 1]
BY HeadTailProperties, LenProperties, EmptySeq

\* The messages that are not about requests change nothing.
LEMMA AppendEntries ==
    ASSUME NEW S, NEW q \in Seq(S), NEW m \in S, NEW T
    PROVE  /\ m.type \notin T => Entries(Append(q, m), T) = Entries(q, T)
           /\ m.type \in T => Entries(Append(q, m), T) = Entries(q, T) \cup {Entry(m)}
<1> DEFINE n == Len(q)
<1>1. /\ n \in Nat /\ Len(Append(q, m)) = n + 1
      /\ \A i \in 1..n : Append(q, m)[i] = q[i]
      /\ Append(q, m)[n + 1] = m
  BY AppendFacts
<1>2. Entries(Append(q, m), T) \subseteq Entries(q, T) \cup {Entry(m)}
  BY <1>1 DEF Entries
<1>3. Entries(q, T) \subseteq Entries(Append(q, m), T)
  BY <1>1 DEF Entries
<1>4. m.type \in T => Entry(m) \in Entries(Append(q, m), T)
  BY <1>1 DEF Entries
<1>5. m.type \notin T => Entries(Append(q, m), T) \subseteq Entries(q, T)
  BY <1>1 DEF Entries
<1> QED BY <1>2, <1>3, <1>4, <1>5

\* A message about a request that no other one is about.
LEMMA AppendOnce ==
    ASSUME NEW S, NEW q \in Seq(S), NEW m \in S, NEW T, OnceIn(q, T),
           m.type \in T => \A c \in Entries(q, T) : c.id # m.id
    PROVE  OnceIn(Append(q, m), T)
<1> DEFINE n == Len(q)
<1>1. /\ n \in Nat /\ Len(Append(q, m)) = n + 1
      /\ \A i \in 1..n : Append(q, m)[i] = q[i]
      /\ Append(q, m)[n + 1] = m
  BY AppendFacts
<1>2. \A i \in 1..n : q[i].type \in T => Entry(q[i]) \in Entries(q, T)
  BY DEF Entries
<1>3. \A i \in 1..n : q[i].type \in T => Entry(q[i]).id = q[i].id
  BY DEF Entry
<1>4. \A i \in 1..n : q[i].type \in T /\ m.type \in T => q[i].id # m.id
  BY <1>2, <1>3
<1> QED BY <1>1, <1>4 DEF OnceIn

\* A queue without its first message.
LEMMA TailEntries ==
    ASSUME NEW S, NEW q \in Seq(S), q # <<>>, NEW T, OnceIn(q, T)
    PROVE  /\ Entries(Tail(q), T) \subseteq Entries(q, T)
           /\ OnceIn(Tail(q), T)
           /\ Head(q).type \in T => /\ Entry(Head(q)) \in Entries(q, T)
                                    /\ \A c \in Entries(Tail(q), T) : c.id # Head(q).id
<1> DEFINE n == Len(q)
<1>1. /\ n \in Nat \ {0} /\ Len(Tail(q)) = n - 1 /\ Head(q) = q[1]
      /\ \A i \in 1..n - 1 : Tail(q)[i] = q[i + 1]
  BY TailFacts
<1>2. Entries(Tail(q), T) \subseteq Entries(q, T)
  BY <1>1 DEF Entries
<1>3. OnceIn(Tail(q), T)
  BY <1>1 DEF OnceIn
<1>4. Head(q).type \in T => Entry(Head(q)) \in Entries(q, T)
  BY <1>1 DEF Entries
<1>5. ASSUME Head(q).type \in T, NEW c \in Entries(Tail(q), T) PROVE c.id # Head(q).id
  <2>1. PICK i \in 1..n - 1 : q[i + 1].type \in T /\ c = Entry(q[i + 1])
    BY <1>1 DEF Entries
  <2>2. c.id = q[i + 1].id
    BY <2>1 DEF Entry
  <2> QED BY <1>1, <1>5, <2>1, <2>2 DEF OnceIn
<1> QED BY <1>2, <1>3, <1>4, <1>5

\* A queue has the message at its head.
LEMMA TailHas ==
    ASSUME NEW S, NEW q \in Seq(S), q # <<>>, NEW x, Has(Tail(q), x)
    PROVE  Has(q, x)
<1>1. /\ Len(q) \in Nat \ {0} /\ Len(Tail(q)) = Len(q) - 1
      /\ \A i \in 1..Len(q) - 1 : Tail(q)[i] = q[i + 1]
  BY TailFacts
<1> QED BY <1>1 DEF Has

-----------------------------------------------------------------------------
(* Requests that move *)

\* Fewer requests in the places, and the others as they were.
LEMMA PlacedFewer ==
    ASSUME NEW A, NEW B, NEW C, NEW D, NEW K, NEW n \in Nat, NEW att, Placed(A, B, C, D, K, n, att),
           NEW A1, A1 \subseteq A, NEW B1, B1 \subseteq B, NEW C1, C1 \subseteq C, NEW D1, D1 \subseteq D,
           NEW att1, att1 => att
    PROVE  Placed(A1, B1, C1, D1, K, n, att1)
BY DEF Placed, Disjoint

\* A new request, which may be lost at once.
LEMMA PlacedAsks ==
    ASSUME NEW A, NEW B, NEW C, NEW D, NEW K, NEW n \in Nat, NEW att, Placed(A, B, C, D, K, n, att),
           \A d \in A \cup B \cup C \cup D \cup K : d.id \in Nat,
           NEW c, c.id = n + 1
    PROVE  /\ Placed(A, B, C, D, K, n + 1, att)
           /\ Placed(A, B, C, D, K \cup {c}, n + 1, att)
           /\ Placed(A \cup {c}, B, C, D, K \cup {c}, n + 1, att)
<1>1. \A d \in A \cup B \cup C \cup D \cup K : d.id <= n + 1 /\ d.id # c.id
  BY DEF Placed
<1>2. c.id <= n + 1
  OBVIOUS
<1> QED BY <1>1, <1>2 DEF Placed, Disjoint

-----------------------------------------------------------------------------
(* What is sent *)

\* A queue that lost messages at its head or got some that are of other types.
Silent(q, q1, T) == Entries(q1, T) \subseteq Entries(q, T) /\ (OnceIn(q, T) => OnceIn(q1, T))
NoneClosed(q, q1) == Has(q1, PortClosed) => Has(q, PortClosed)

\* The types of the messages.
LEMMA MessageTypes ==
    /\ \A m \in Requests : m.type = "request" /\ m.id \in Ids /\ m.method \in Methods /\ m.arg \in ArgsOf(m.method)
    /\ \A m \in Results : m.type = "result" /\ m.id \in Ids /\ m.method \in Methods /\ m.value \in ValuesOf(m.method)
    /\ \A m \in Failures : m.type = "error" /\ m.id \in Ids /\ m.method \in Methods
    /\ \A m \in Pushes : m.type = "notify" /\ m.method \in {"updateAddress", "updateNetwork", "closeConnection"}
    /\ \A m \in Pushes : /\ m.method = "updateAddress" => m.value \in Views
                         /\ m.method = "updateNetwork" => m.value \in Nets
    /\ PortClosed.type = "closed" /\ PortClosed.method = "closed"
    /\ Goodbye.type = "notify" /\ Goodbye.method = "closeConnection"
BY DEF Requests, Results, Failures, Pushes, PortClosed, Goodbye, Notification

\* A message at the end that is not about a request.
LEMMA SilentAppend ==
    ASSUME NEW S, NEW q \in Seq(S), NEW m \in S, NEW T, m.type \notin T
    PROVE  Silent(q, Append(q, m), T)
BY AppendEntries, AppendOnce DEF Silent

\* A message taken from the head.
LEMMA SilentTail ==
    ASSUME NEW S, NEW q \in Seq(S), q # <<>>, NEW T
    PROVE  Silent(q, Tail(q), T)
<1>1. /\ Len(q) \in Nat \ {0} /\ Len(Tail(q)) = Len(q) - 1
      /\ \A i \in 1..Len(q) - 1 : Tail(q)[i] = q[i + 1]
  BY TailFacts
<1>2. Entries(Tail(q), T) \subseteq Entries(q, T)
  BY <1>1 DEF Entries
<1> QED BY <1>2, TailEntries DEF Silent

\* One message after the other.
LEMMA SilentTwice ==
    ASSUME NEW T, NEW q, NEW q1, NEW q2, Silent(q, q1, T), Silent(q1, q2, T)
    PROVE  Silent(q, q2, T)
BY DEF Silent

\* A message on the way, if anybody takes it.
LEMMA SentFacts ==
    ASSUME NEW S, NEW queues \in [Sessions -> Seq(S)], NEW s \in Sessions, NEW m \in S
    PROVE  /\ Sent(queues, s, m) \in [Sessions -> Seq(S)]
           /\ \A x \in Sessions : Sent(queues, s, m)[x] = IF x = s /\ Flows(s) THEN Append(queues[x], m) ELSE queues[x]
<1>1. Append(queues[s], m) \in Seq(S)
  BY AppendFacts
<1> QED BY <1>1 DEF Sent

\* A port that is closed.
LEMMA ClosedFacts ==
    ASSUME NEW S, NEW queues \in [Sessions -> Seq(S)], NEW s \in Sessions, PortClosed \in S
    PROVE  /\ Closed(queues, s) \in [Sessions -> Seq(S)]
           /\ \A x \in Sessions : Closed(queues, s)[x] = IF x = s /\ ~Window(s) THEN Append(queues[x], PortClosed)
                                                         ELSE queues[x]
           /\ \A x \in Sessions : Silent(queues[x], Closed(queues, s)[x], {"request"})
                                  /\ Silent(queues[x], Closed(queues, s)[x], Responses)
<1>1. Append(queues[s], PortClosed) \in Seq(S)
  BY AppendFacts
<1>2. /\ Closed(queues, s) \in [Sessions -> Seq(S)]
      /\ \A x \in Sessions : Closed(queues, s)[x] = IF x = s /\ ~Window(s) THEN Append(queues[x], PortClosed)
                                                    ELSE queues[x]
  BY <1>1 DEF Closed
<1>3. \A x \in Sessions : /\ Silent(queues[x], Append(queues[x], PortClosed), {"request"})
                          /\ Silent(queues[x], Append(queues[x], PortClosed), Responses)
  BY SilentAppend, MessageTypes DEF Responses
<1>4. \A x \in Sessions : /\ Silent(queues[x], queues[x], {"request"}) /\ Silent(queues[x], queues[x], Responses)
  BY DEF Silent
<1> QED BY <1>2, <1>3, <1>4

\* A notification.
LEMMA NotificationQueue ==
    ASSUME NEW q \in Seq(AeppMessages), NEW m \in Pushes
    PROVE  /\ Append(q, m) \in Seq(AeppMessages)
           /\ Silent(q, Append(q, m), Responses) /\ NoneClosed(q, Append(q, m))
<1>1. m \in AeppMessages /\ m.type = "notify" /\ m # PortClosed
  BY MessageTypes DEF AeppMessages
<1>2. Append(q, m) \in Seq(AeppMessages) /\ Silent(q, Append(q, m), Responses)
  BY <1>1, AppendFacts, SilentAppend DEF Responses
<1>3. NoneClosed(q, Append(q, m))
  BY <1>1, HasAppend DEF NoneClosed
<1> QED BY <1>2, <1>3

\* A notification to each of some clients.
LEMMA SentAllFacts ==
    ASSUME NEW queues \in [Sessions -> Seq(AeppMessages)], NEW msgs, \A x \in DOMAIN msgs : msgs[x] \in Pushes
    PROVE  /\ SentAll(queues, msgs) \in [Sessions -> Seq(AeppMessages)]
           /\ \A x \in Sessions : /\ Silent(queues[x], SentAll(queues, msgs)[x], Responses)
                                  /\ NoneClosed(queues[x], SentAll(queues, msgs)[x])
<1>1. \A x \in Sessions : x \in DOMAIN msgs =>
         /\ Append(queues[x], msgs[x]) \in Seq(AeppMessages)
         /\ Silent(queues[x], Append(queues[x], msgs[x]), Responses)
         /\ NoneClosed(queues[x], Append(queues[x], msgs[x]))
  BY NotificationQueue
<1>2. \A x \in Sessions : Silent(queues[x], queues[x], Responses) /\ NoneClosed(queues[x], queues[x])
  BY DEF Silent, NoneClosed
<1> QED BY <1>1, <1>2 DEF SentAll

\* A response to a request, or none, at the end of the queue of a session.
Responded(old, new, s, c) ==
    /\ \A x \in Sessions \ {s} : new[x] = old[x]
    /\ Entries(new[s], Responses) \subseteq Entries(old[s], Responses) \cup {c}
    /\ OnceIn(old[s], Responses) /\ (\A d \in Entries(old[s], Responses) : d.id # c.id) => OnceIn(new[s], Responses)

\* A response.
LEMMA ResponseFacts ==
    ASSUME NEW queues \in [Sessions -> Seq(AeppMessages)], NEW s \in Sessions, NEW r \in Results \cup Failures
    PROVE  /\ Sent(queues, s, r) \in [Sessions -> Seq(AeppMessages)]
           /\ \A x \in Sessions : NoneClosed(queues[x], Sent(queues, s, r)[x])
           /\ Responded(queues, Sent(queues, s, r), s, Entry(r))
<1> DEFINE p == Sent(queues, s, r)
<1>1. r \in AeppMessages /\ r.type \in Responses /\ r # PortClosed
  BY MessageTypes DEF AeppMessages, Responses
<1>2. /\ p \in [Sessions -> Seq(AeppMessages)]
      /\ \A x \in Sessions : p[x] = IF x = s /\ Flows(s) THEN Append(queues[x], r) ELSE queues[x]
  BY <1>1, SentFacts
<1>3. /\ Entries(Append(queues[s], r), Responses) = Entries(queues[s], Responses) \cup {Entry(r)}
      /\ OnceIn(queues[s], Responses) /\ (\A d \in Entries(queues[s], Responses) : d.id # r.id) =>
           OnceIn(Append(queues[s], r), Responses)
  BY <1>1, AppendEntries, AppendOnce
<1>4. NoneClosed(queues[s], Append(queues[s], r)) /\ \A x \in Sessions : NoneClosed(queues[x], queues[x])
  BY <1>1, HasAppend DEF NoneClosed
<1> HIDE DEF p
<1>5. Entry(r).id = r.id
  BY DEF Entry
<1>6. Responded(queues, p, s, Entry(r))
  BY <1>2, <1>3, <1>5 DEF Responded
<1>7. \A x \in Sessions : NoneClosed(queues[x], p[x])
  BY <1>2, <1>4
<1> QED BY <1>2, <1>6, <1>7 DEF p

\* What the wallet tells its clients of its accounts.
LEMMA PushFacts ==
    ASSUME QueueTypes, NEW all \in Views, NEW times \in {1, 2}, _pushAccountsToApps(all, times)
    PROVE  /\ toAepp' \in [Sessions -> Seq(AeppMessages)]
           /\ \A x \in Sessions : Silent(toAepp[x], toAepp'[x], Responses) /\ NoneClosed(toAepp[x], toAepp'[x])
<1> DEFINE msgs == [s \in Subscribers |-> Notification("updateAddress", _getAccountsForClient(all, subs[s]))]
           one == SentAll(toAepp, msgs)
           two == SentAll(one, msgs)
<1>1. \A x \in DOMAIN msgs : msgs[x] \in Pushes
  BY DEF Notification, Pushes, Views, _getAccountsForClient
<1>2. toAepp' = one \/ toAepp' = two
  BY DEF _pushAccountsToApps
<1> HIDE DEF msgs
<1>3. /\ one \in [Sessions -> Seq(AeppMessages)]
      /\ \A x \in Sessions : Silent(toAepp[x], one[x], Responses) /\ NoneClosed(toAepp[x], one[x])
  BY <1>1, SentAllFacts DEF QueueTypes
<1> HIDE DEF one
<1>4. /\ two \in [Sessions -> Seq(AeppMessages)]
      /\ \A x \in Sessions : Silent(one[x], two[x], Responses) /\ NoneClosed(one[x], two[x])
  BY <1>1, <1>3, SentAllFacts
<1> HIDE DEF two
<1>5. \A x \in Sessions : Silent(toAepp[x], two[x], Responses) /\ NoneClosed(toAepp[x], two[x])
  BY <1>3, <1>4 DEF Silent, NoneClosed
<1> QED BY <1>2, <1>3, <1>4, <1>5

-----------------------------------------------------------------------------
(* Types *)

\* A handler takes the message at the head of its queue.
LEMMA HearsFacts ==
    ASSUME Types, NEW s \in Sessions, NEW method, Hears(s, method)
    PROVE  /\ s \in heard /\ toWallet[s] # <<>> /\ Head(toWallet[s]).method = method
           /\ toWallet' = [toWallet EXCEPT ![s] = Tail(@)]
           /\ toWallet' \in [Sessions -> Seq(WalletMessages)]
           /\ \A x \in Sessions : Silent(toWallet[x], toWallet'[x], {"request"})
           /\ method \in Methods => Head(toWallet[s]) \in Requests
           /\ OnceIn(toWallet[s], {"request"}) /\ Head(toWallet[s]) \in Requests =>
                /\ Entry(Head(toWallet[s])) \in Asked(s)
                /\ \A c \in Asked(s)' : c.id # Head(toWallet[s]).id
<1>1. /\ s \in heard /\ toWallet[s] # <<>> /\ Head(toWallet[s]).method = method
      /\ toWallet' = [toWallet EXCEPT ![s] = Tail(@)]
  BY DEF Hears
<1>2. toWallet \in [Sessions -> Seq(WalletMessages)]
  BY DEF Types, QueueTypes
<1>3. Tail(toWallet[s]) \in Seq(WalletMessages) /\ Head(toWallet[s]) \in WalletMessages
  BY <1>1, <1>2, TailFacts
<1>4. Silent(toWallet[s], Tail(toWallet[s]), {"request"})
  BY <1>1, <1>2, SilentTail
<1>5. method \in Methods => Head(toWallet[s]) \in Requests
  BY <1>1, <1>3, MessageTypes DEF WalletMessages, Methods
<1>6. \A x \in Sessions : Silent(toWallet[x], toWallet'[x], {"request"})
  BY <1>1, <1>2, <1>4 DEF Silent
<1>7. ASSUME OnceIn(toWallet[s], {"request"}), Head(toWallet[s]) \in Requests
      PROVE  /\ Entry(Head(toWallet[s])) \in Asked(s)
             /\ \A c \in Asked(s)' : c.id # Head(toWallet[s]).id
  <2>1. toWallet'[s] = Tail(toWallet[s]) /\ Head(toWallet[s]).type \in {"request"}
    BY <1>1, <1>2, <1>7, MessageTypes
  <2> QED BY <1>1, <1>2, <1>7, <2>1, TailEntries DEF Asked
<1> QED BY <1>1, <1>2, <1>3, <1>5, <1>6, <1>7

\* The task that a request becomes, and how a request or a task is answered.
LEMMA TaskOf ==
    ASSUME Types, NEW s \in Sessions, Head(toWallet[s]) \in Requests, NEW stage \in {"user", "network"}
    PROVE  /\ Task(s, stage) \in TaskSet /\ Task(s, stage).s = s
           /\ Entry(Task(s, stage)) = Entry(Head(toWallet[s]))
<1>1. /\ Head(toWallet[s]).id \in Ids /\ Head(toWallet[s]).method \in Methods
      /\ Head(toWallet[s]).arg \in ArgsOf(Head(toWallet[s]).method) /\ Head(toWallet[s]).arg \in Args
  BY DEF Requests
<1>2. node \in Nodes
  BY DEF Types, WalletTypes
<1> QED BY <1>1, <1>2 DEF Task, TaskSet, Entry

\* Both have the id and the method of a request.
LEMMA AnswerOf ==
    ASSUME NEW t, t.id \in Ids, t.method \in Methods
    PROVE  /\ \A why \in {"notAuthorized", "permissionDeny", "rejected", "internal"} :
                Failure(t, why) \in Failures /\ Entry(Failure(t, why)) = Entry(t) /\ Failure(t, why).id = t.id
           /\ \A v \in ValuesOf(t.method) :
                Result(t, v) \in Results /\ Entry(Result(t, v)) = Entry(t) /\ Result(t, v).id = t.id
<1>1. ASSUME NEW why \in {"notAuthorized", "permissionDeny", "rejected", "internal"}
      PROVE  Failure(t, why) \in Failures /\ Entry(Failure(t, why)) = Entry(t) /\ Failure(t, why).id = t.id
  BY DEF Failure, Failures, Entry
<1>2. ASSUME NEW v \in ValuesOf(t.method)
      PROVE  Result(t, v) \in Results /\ Entry(Result(t, v)) = Entry(t) /\ Result(t, v).id = t.id
  <2>1. Result(t, v) \in [type : {"result"}, id : Ids, method : {t.method}, value : ValuesOf(t.method)]
    BY DEF Result
  <2> QED BY <2>1 DEF Result, Results, Entry
<1> QED BY <1>1, <1>2

\* What the wallet shows of its accounts.
LEMMA Shown ==
    ASSUME Types
    PROVE  /\ getAccounts \in Views
           /\ \A all \in Views, sub \in SUBSET Kinds : _getAccountsForClient(all, sub) \in Views
<1>1. accounts \subseteq Accounts /\ selected \in Accounts \cup {None}
  BY DEF Types, WalletTypes
<1> QED BY <1>1 DEF getAccounts, Views, _getAccountsForClient

\* What the user and the node of the wallet do.
LEMMA WalletUserTypes ==
    ASSUME Types, WalletUser
    PROVE  Types'
<1> USE DEF WalletTypes, AeppTypes, wallet, purse, aepp
<1>1. ASSUME NEW s \in Sessions, AddRpcClient(s) PROVE Types'
  BY <1>1 DEF AddRpcClient, Types, QueueTypes
<1>2. setup.ops \in 0..MaxOps
  BY SetupAssumption DEF Types, SetupType
<1>3. WalletOp => ops' \in 0..MaxOps
  BY <1>2, BoundAssumption DEF WalletOp, Types
<1>4. ASSUME NEW s \in Sessions, NEW bye \in BOOLEAN, RemoveRpcClient(s, bye) PROVE Types'
  <2>1. toAepp' \in [Sessions -> Seq(AeppMessages)]
    <3> DEFINE q == IF bye THEN Sent(toAepp, s, Goodbye) ELSE toAepp
    <3>1. Goodbye \in AeppMessages /\ PortClosed \in AeppMessages
      BY DEF AeppMessages, Pushes
    <3>2. q \in [Sessions -> Seq(AeppMessages)]
      BY <3>1, SentFacts DEF Types, QueueTypes
    <3>3. toAepp' = Closed(q, s)
      BY <1>4 DEF RemoveRpcClient, Goodbye
    <3> HIDE DEF q
    <3> QED BY <3>1, <3>2, <3>3, ClosedFacts
  <2> QED BY <1>3, <1>4, <2>1 DEF RemoveRpcClient, Dropped, Types, QueueTypes
<1>5. ASSUME NEW added \in SUBSET Accounts, NEW chosen \in Accounts \cup {None}, NEW times \in {1, 2},
             PurseChange(added, chosen, times)
      PROVE  Types'
  <2>1. [current |-> IF chosen = None THEN {} ELSE {chosen}, connected |-> added \ {chosen}] \in Views
    BY DEF Views
  <2>2. toAepp' \in [Sessions -> Seq(AeppMessages)]
    BY <1>5, <2>1, PushFacts DEF PurseChange, Types
  <2> QED BY <1>3, <1>5, <2>2 DEF PurseChange, Types, QueueTypes
<1>6. ASSUME NEW a \in Accounts, selectAccount(a) PROVE Types'
  <2>1. accounts \in SUBSET Accounts /\ PurseChange(accounts, a, 1)
    BY <1>6 DEF selectAccount, Types
  <2> QED BY <1>5, <2>1
<1>7. ASSUME NEW a \in Accounts, NEW select \in BOOLEAN, addAccount(a, select) PROVE Types'
  <2>1. PurseChange(accounts \cup {a}, IF select THEN a ELSE selected, IF select THEN 2 ELSE 1)
    BY <1>7 DEF addAccount
  <2>2. accounts \cup {a} \in SUBSET Accounts /\ (IF select THEN a ELSE selected) \in Accounts \cup {None}
    BY DEF Types
  <2> QED BY <1>5, <2>1, <2>2
<1>8. ASSUME NEW a \in Accounts, removeAccount(a) PROVE Types'
  BY <1>3, <1>8 DEF removeAccount, Types, QueueTypes
<1>9. ASSUME NEW n \in Nodes, selectNode(n) PROVE Types'
  <2>1. [node |-> n, for |-> [s |-> None, id |-> ops]] \in FetchSet
    BY BoundAssumption DEF FetchSet, Types
  <2>2. raced' \in BOOLEAN
    BY <1>9 DEF selectNode, Selects, Types
  <2> QED BY <1>3, <1>9, <2>1, <2>2 DEF selectNode, Selects, Types, QueueTypes
<1> QED BY <1>1, <1>4, <1>6, <1>7, <1>8, <1>9 DEF WalletUser

\* What a node is told of once its network is known.
LEMMA NetworkPushed ==
    ASSUME Types, NEW f \in FetchSet
    PROVE  LET pushed == SentAll(toAepp, [s \in {x \in Sessions : _isRpcClientConnected(x)} |->
                                   Notification("updateNetwork", [networkId |-> f.node, node |-> node])]) IN
           /\ pushed \in [Sessions -> Seq(AeppMessages)]
           /\ \A x \in Sessions : Silent(toAepp[x], pushed[x], Responses) /\ NoneClosed(toAepp[x], pushed[x])
<1> DEFINE msgs == [s \in {x \in Sessions : _isRpcClientConnected(x)} |->
                     Notification("updateNetwork", [networkId |-> f.node, node |-> node])]
<1>1. [networkId |-> f.node, node |-> node] \in Nets
  BY DEF Nets, FetchSet, Types, WalletTypes
<1>2. \A x \in DOMAIN msgs : msgs[x] \in Pushes
  BY <1>1 DEF Notification, Pushes
<1> HIDE DEF msgs
<1>3. /\ SentAll(toAepp, msgs) \in [Sessions -> Seq(AeppMessages)]
      /\ \A x \in Sessions : /\ Silent(toAepp[x], SentAll(toAepp, msgs)[x], Responses)
                             /\ NoneClosed(toAepp[x], SentAll(toAepp, msgs)[x])
  BY <1>2, SentAllFacts DEF Types, QueueTypes
<1> QED BY <1>3 DEF msgs

\* The request that a node was selected for.
LEMMA FetchFacts ==
    ASSUME NEW f \in FetchSet, f.for.s # None
    PROVE  /\ f.for \in TaskSet /\ f.for.method = "updateNetwork"
           /\ Result(f.for, "null") \in Results /\ Entry(Result(f.for, "null")) = Entry(f.for)
           /\ Failure(f.for, "internal") \in Failures /\ Entry(Failure(f.for, "internal")) = Entry(f.for)
           /\ Result(f.for, "null").id = f.for.id /\ Failure(f.for, "internal").id = f.for.id
<1>1. f.for \in TaskSet /\ f.for.method = "updateNetwork"
  BY DEF FetchSet
<1>2. f.for.id \in Ids /\ f.for.method \in Methods /\ "null" \in ValuesOf(f.for.method)
  BY <1>1 DEF TaskSet, ValuesOf, Methods
<1> QED BY <1>1, <1>2, AnswerOf

\* A response, or none if a user of the wallet asked.
LEMMA NetworkAnswered ==
    ASSUME NEW queues \in [Sessions -> Seq(AeppMessages)], NEW f \in FetchSet, NEW q,
           \/ q = IF f.for.s = None THEN queues ELSE Sent(queues, f.for.s, Result(f.for, "null"))
           \/ q = IF f.for.s = None THEN queues ELSE Sent(queues, f.for.s, Failure(f.for, "internal"))
    PROVE  /\ q \in [Sessions -> Seq(AeppMessages)]
           /\ \A x \in Sessions : NoneClosed(queues[x], q[x])
           /\ f.for.s = None => q = queues
           /\ f.for.s # None => f.for.s \in Sessions /\ Responded(queues, q, f.for.s, Entry(f.for))
<1>1. CASE f.for.s = None
  BY <1>1 DEF NoneClosed
<1>2. CASE f.for.s # None
  <2>1. f.for.s \in Sessions
    BY <1>2, FetchFacts DEF TaskSet
  <2>2. PICK r \in Results \cup Failures : q = Sent(queues, f.for.s, r) /\ Entry(r) = Entry(f.for)
    BY <1>2, FetchFacts
  <2> DEFINE s == f.for.s  p == Sent(queues, s, r)
  <2>3. s \in Sessions /\ q = p /\ f.for.s = s
    BY <2>1, <2>2
  <2> HIDE DEF s
  <2>4. /\ p \in [Sessions -> Seq(AeppMessages)]
        /\ \A x \in Sessions : NoneClosed(queues[x], p[x])
        /\ Responded(queues, p, s, Entry(r))
    BY <2>3, ResponseFacts
  <2> HIDE DEF p
  <2> QED BY <1>2, <2>2, <2>3, <2>4
<1> QED BY <1>1, <1>2

\* The node of the wallet answers, or does not.
LEMMA WalletNodeTypes ==
    ASSUME Types, WalletNode
    PROVE  Types'
<1> USE DEF WalletTypes, AeppTypes, wallet, purse, aepp
<1>1. setup.ops \in 0..MaxOps
  BY SetupAssumption DEF Types, SetupType
<1>2. WalletOp => ops' \in 0..MaxOps
  BY <1>1, BoundAssumption DEF WalletOp, Types
<1>3. ASSUME NEW f \in fetching, NetworkSelected(f) PROVE Types'
  <2> DEFINE pushed == SentAll(toAepp, [s \in {x \in Sessions : _isRpcClientConnected(x)} |->
                                   Notification("updateNetwork", [networkId |-> f.node, node |-> node])])
  <2>1. f \in FetchSet
    BY DEF Types
  <2>2. pushed \in [Sessions -> Seq(AeppMessages)]
    BY <2>1, NetworkPushed
  <2>3. toAepp' = IF f.for.s = None THEN pushed ELSE Sent(pushed, f.for.s, Result(f.for, "null"))
    BY <1>3 DEF NetworkSelected
  <2> HIDE DEF pushed
  <2>4. toAepp' \in [Sessions -> Seq(AeppMessages)]
    BY <2>1, <2>2, <2>3, NetworkAnswered
  <2> QED BY <1>3, <2>4 DEF NetworkSelected, Types, QueueTypes
<1>4. ASSUME NEW f \in fetching, NetworkUnknown(f) PROVE Types'
  <2>1. f \in FetchSet
    BY DEF Types
  <2>2. toAepp' = IF f.for.s = None THEN toAepp ELSE Sent(toAepp, f.for.s, Failure(f.for, "internal"))
    BY <1>4 DEF NetworkUnknown
  <2>3. toAepp' \in [Sessions -> Seq(AeppMessages)]
    BY <2>1, <2>2, NetworkAnswered DEF Types, QueueTypes
  <2> QED BY <1>2, <1>4, <2>3 DEF NetworkUnknown, Types, QueueTypes
<1>5. ASSUME NEW t \in tasks, NodeFails(t) PROVE Types'
  <2>1. t \in TaskSet
    BY DEF Types
  <2>2. t.s \in Sessions /\ Failure(t, "internal") \in Failures
    BY <2>1, AnswerOf DEF TaskSet
  <2>3. toAepp' = Sent(toAepp, t.s, Failure(t, "internal")) /\ tasks' = tasks \ {t}
    BY <1>5 DEF NodeFails, WalletInfoFails, Answers
  <2>4. toAepp' \in [Sessions -> Seq(AeppMessages)]
    BY <2>2, <2>3, ResponseFacts DEF Types, QueueTypes
  <2> QED BY <1>2, <1>5, <2>3, <2>4 DEF NodeFails, WalletInfoFails, Types, QueueTypes
<1> QED BY <1>3, <1>4, <1>5 DEF WalletNode

\* The wallet gets a message.
LEMMA WalletHearsTypes ==
    ASSUME Types, NEW s \in Sessions, WalletHears(s)
    PROVE  Types'
<1> USE DEF WalletTypes, AeppTypes, wallet, purse, aepp
<1>1. UNCHANGED <<setup, purse, node, fetching, ops, aepp, calls, lastId, raced>>
  BY DEF WalletHears
<1>2. ASSUME NEW method \in Methods, Hears(s, method), NEW stage \in {"user", "network"}, Awaits(s, stage) PROVE Types'
  <2>1. Task(s, stage) \in TaskSet /\ toWallet' \in [Sessions -> Seq(WalletMessages)]
    BY <1>2, HearsFacts, TaskOf
  <2> QED BY <1>1, <1>2, <2>1 DEF Awaits, Types, QueueTypes
<1>3. ASSUME NEW method \in Methods, Hears(s, method), NEW why \in {"notAuthorized", "permissionDeny"}, Refuses(s, why)
      PROVE  Types'
  <2>1. toWallet' \in [Sessions -> Seq(WalletMessages)] /\ Head(toWallet[s]) \in Requests
    BY <1>3, HearsFacts
  <2>2. Failure(Head(toWallet[s]), why) \in Failures
    BY <2>1, MessageTypes, AnswerOf
  <2>3. toAepp' \in [Sessions -> Seq(AeppMessages)]
    BY <1>3, <2>2, ResponseFacts DEF Refuses, Types, QueueTypes
  <2> QED BY <1>1, <1>3, <2>1, <2>3 DEF Refuses, Types, QueueTypes
<1>4. CASE HearsConnect(s)
  BY <1>2, <1>4 DEF HearsConnect, Methods
<1>5. CASE HearsQuestion(s)
  BY <1>2, <1>3, <1>5 DEF HearsQuestion, Methods
<1>6. CASE HearsSign(s)
  BY <1>2, <1>3, <1>6 DEF HearsSign, Methods
<1>7. CASE HearsUnsubscribe(s)
  <2>1. Hears(s, "unsubscribe") /\ "unsubscribe" \in Methods
    BY <1>7 DEF HearsUnsubscribe, Methods
  <2>2. CASE ~_isRpcClientConnected(s)
    BY <1>3, <1>7, <2>1, <2>2 DEF HearsUnsubscribe
  <2>3. CASE _isRpcClientConnected(s)
    <3> DEFINE m == Head(toWallet[s])  left == subs[s] \ {m.arg}  r == Result(m, _getAccountsForClient(getAccounts, left))
    <3>1. subs' = [subs EXCEPT ![s] = left] /\ toAepp' = Sent(toAepp, s, r) /\ UNCHANGED <<known, status, heard, tasks>>
      BY <1>7, <2>3 DEF HearsUnsubscribe
    <3>2. m \in Requests /\ toWallet' \in [Sessions -> Seq(WalletMessages)] /\ m.method = "unsubscribe"
      BY <2>1, HearsFacts
    <3>3. left \in SUBSET Kinds
      BY DEF Types
    <3> HIDE DEF left, m
    <3>4. _getAccountsForClient(getAccounts, left) \in ValuesOf(m.method)
      BY <3>2, <3>3, Shown DEF ValuesOf
    <3>5. r \in Results
      BY <3>2, <3>4, MessageTypes, AnswerOf
    <3> HIDE DEF r
    <3>6. toAepp' \in [Sessions -> Seq(AeppMessages)]
      BY <3>1, <3>5, ResponseFacts DEF Types, QueueTypes
    <3> QED BY <1>1, <3>1, <3>2, <3>3, <3>6 DEF Types, QueueTypes
  <2> QED BY <2>2, <2>3
<1>8. CASE HearsGoodbye(s)
  <2>1. toWallet' \in [Sessions -> Seq(WalletMessages)]
    BY <1>8, HearsFacts DEF HearsGoodbye
  <2>2. PortClosed \in AeppMessages
    BY DEF AeppMessages
  <2>3. toAepp' \in [Sessions -> Seq(AeppMessages)]
    BY <1>8, <2>2, ClosedFacts DEF HearsGoodbye, Types, QueueTypes
  <2> QED BY <1>1, <1>8, <2>1, <2>3 DEF HearsGoodbye, Dropped, Types, QueueTypes
<1>9. CASE HearsPortClosed(s)
  <2>1. toWallet' \in [Sessions -> Seq(WalletMessages)]
    BY <1>9, HearsFacts DEF HearsPortClosed
  <2> QED BY <1>1, <1>9, <2>1 DEF HearsPortClosed, Types, QueueTypes
<1>10. CASE MissesAtWallet(s)
  <2>1. Tail(toWallet[s]) \in Seq(WalletMessages)
    BY <1>10, TailFacts DEF MissesAtWallet, Types, QueueTypes
  <2> QED BY <1>1, <1>10, <2>1 DEF MissesAtWallet, Types, QueueTypes
<1> QED BY <1>4, <1>5, <1>6, <1>7, <1>8, <1>9, <1>10 DEF WalletHears

\* The value of a message from the wallet.
LEMMA GetsFacts ==
    ASSUME Types, NEW s \in Sessions, NEW type, NEW method, Gets(s, type, method)
    PROVE  /\ s \in attached /\ toAepp[s] # <<>> /\ Head(toAepp[s]) \in AeppMessages
           /\ Head(toAepp[s]).type = type /\ Head(toAepp[s]).method = method
           /\ toAepp' = [toAepp EXCEPT ![s] = Tail(@)]
           /\ toAepp' \in [Sessions -> Seq(AeppMessages)]
           /\ \A x \in Sessions : Silent(toAepp[x], toAepp'[x], Responses) /\ NoneClosed(toAepp[x], toAepp'[x])
           /\ type = "result" => Head(toAepp[s]) \in Results
           /\ type = "error" => Head(toAepp[s]) \in Failures
           /\ type = "notify" => Head(toAepp[s]) \in Pushes
           /\ type = "closed" => Has(toAepp[s], PortClosed)
<1>1. /\ s \in attached /\ toAepp[s] # <<>> /\ toAepp' = [toAepp EXCEPT ![s] = Tail(@)]
      /\ Head(toAepp[s]).type = type /\ Head(toAepp[s]).method = method
  BY DEF Gets
<1>2. toAepp \in [Sessions -> Seq(AeppMessages)]
  BY DEF Types, QueueTypes
<1>3. Tail(toAepp[s]) \in Seq(AeppMessages) /\ Head(toAepp[s]) \in AeppMessages
  BY <1>1, <1>2, TailFacts
<1>4. Silent(toAepp[s], Tail(toAepp[s]), Responses) /\ NoneClosed(toAepp[s], Tail(toAepp[s]))
  BY <1>1, <1>2, SilentTail, TailHas DEF NoneClosed
<1>5. \A x \in Sessions : Silent(toAepp[x], toAepp'[x], Responses) /\ NoneClosed(toAepp[x], toAepp'[x])
  BY <1>1, <1>2, <1>4 DEF Silent, NoneClosed
<1>6. /\ type = "result" => Head(toAepp[s]) \in Results
      /\ type = "error" => Head(toAepp[s]) \in Failures
      /\ type = "notify" => Head(toAepp[s]) \in Pushes
      /\ type = "closed" => Head(toAepp[s]) = PortClosed
  BY <1>1, <1>3, MessageTypes DEF AeppMessages
<1>7. type = "closed" => Has(toAepp[s], PortClosed)
  BY <1>1, <1>2, <1>6, HasHead
<1> QED BY <1>1, <1>2, <1>3, <1>5, <1>6, <1>7

\* The wallet goes on after an await.
LEMMA ProceedsTypes ==
    ASSUME Types, NEW t \in tasks, Proceeds(t)
    PROVE  Types'
<1> USE DEF WalletTypes, AeppTypes, wallet, purse, aepp
<1>1. UNCHANGED <<setup, purse, ops, aepp, calls, lastId, toWallet>>
  BY DEF Proceeds
<1>2. /\ t \in TaskSet /\ t.s \in Sessions /\ t.id \in Ids /\ t.method \in Methods
      /\ t.arg \in ArgsOf(t.method) /\ t.node \in Nodes /\ node \in Nodes
  BY DEF TaskSet, Types
<1>3. ASSUME NEW r \in Results \cup Failures, Answers(t, r), UNCHANGED <<known, status, heard, fetching, raced, node>>,
             subs' \in [Sessions -> SUBSET Kinds]
      PROVE  Types'
  <2>1. toAepp' \in [Sessions -> Seq(AeppMessages)] /\ tasks' = tasks \ {t}
    BY <1>2, <1>3, ResponseFacts DEF Answers, Types, QueueTypes
  <2> QED BY <1>1, <1>3, <2>1 DEF Types, QueueTypes
<1>4. CASE UserRejects(t)
  BY <1>2, <1>3, <1>4, AnswerOf DEF UserRejects, Types
<1>5. CASE ConnectionAccepted(t)
  <2>1. [t EXCEPT !.stage = "info", !.node = node] \in TaskSet
    BY <1>2, <1>5 DEF ConnectionAccepted, TaskSet
  <2>2. raced' \in BOOLEAN
    BY <1>5 DEF ConnectionAccepted, Types
  <2> QED BY <1>1, <1>5, <2>1, <2>2 DEF ConnectionAccepted, Types, QueueTypes
<1>6. CASE WalletInfoSent(t)
  <2>1. t.method = "connect" /\ [networkId |-> t.node, node |-> node] \in Nets
    BY <1>2, <1>6 DEF WalletInfoSent, TaskSet, Nets
  <2>2. [networkId |-> t.node, node |-> node] \in ValuesOf(t.method)
    BY <2>1 DEF ValuesOf
  <2> QED BY <1>2, <1>3, <1>6, <2>2, AnswerOf DEF WalletInfoSent, Types
<1>7. CASE SubscriptionAccepted(t)
  <2>1. t.arg \in Kinds /\ subs' = [subs EXCEPT ![t.s] = @ \cup {t.arg}]
    BY <1>2, <1>7 DEF SubscriptionAccepted, ArgsOf
  <2>2. subs' \in [Sessions -> SUBSET Kinds] /\ subs'[t.s] \in SUBSET Kinds
    BY <1>2, <2>1 DEF Types
  <2>3. _getAccountsForClient(getAccounts, subs'[t.s]) \in ValuesOf(t.method)
    BY <1>7, <2>2, Shown DEF SubscriptionAccepted, ValuesOf
  <2> QED BY <1>2, <1>3, <1>7, <2>2, <2>3, AnswerOf DEF SubscriptionAccepted
<1>8. CASE AccountsShown(t)
  <2>1. accounts \in ValuesOf(t.method)
    BY <1>8 DEF AccountsShown, ValuesOf, Types
  <2> QED BY <1>2, <1>3, <1>8, <2>1, AnswerOf DEF AccountsShown, Types
<1>9. CASE NetworkAccepted(t)
  <2>1. t.arg \in Nodes /\ [node |-> t.arg, for |-> t] \in FetchSet
    BY <1>2, <1>9 DEF NetworkAccepted, ArgsOf, FetchSet
  <2>2. raced' \in BOOLEAN
    BY <1>9 DEF NetworkAccepted, Selects, Types
  <2> QED BY <1>1, <1>9, <2>1, <2>2 DEF NetworkAccepted, Selects, Types, QueueTypes
<1>10. CASE AccountResolved(t)
  <2>1. CASE t.arg \in accounts
    <3>1. [t EXCEPT !.stage = "user"] \in TaskSet
      BY <1>2 DEF TaskSet
    <3> QED BY <1>1, <1>10, <2>1, <3>1 DEF AccountResolved, Types, QueueTypes
  <2>2. CASE t.arg \notin accounts
    BY <1>2, <1>3, <1>10, <2>2, AnswerOf DEF AccountResolved, Types
  <2> QED BY <2>1, <2>2
<1>11. CASE Signed(t)
  <2>1. <<t.arg, t.node>> \in ValuesOf(t.method)
    BY <1>2, <1>11 DEF Signed, ValuesOf, ArgsOf
  <2> QED BY <1>2, <1>3, <1>11, <2>1, AnswerOf DEF Signed, Types
<1> QED BY <1>4, <1>5, <1>6, <1>7, <1>8, <1>9, <1>10, <1>11 DEF Proceeds

\* A request of an aepp.
LEMMA CallsFacts ==
    ASSUME Types, NEW s \in Sessions, NEW method \in Methods, NEW arg \in ArgsOf(method), Calls(s, method, arg)
    PROVE  /\ lastId[s] \in Nat /\ lastId[s] + 1 \in Ids
           /\ lastId' = [lastId EXCEPT ![s] = lastId[s] + 1]
           /\ calls' = IF Window(s) \/ s \in attached
                       THEN [calls EXCEPT ![s] = @ \cup {[id |-> lastId[s] + 1, method |-> method]}] ELSE calls
           /\ Request(lastId[s] + 1, method, arg) \in Requests
           /\ toWallet' = Sent(toWallet, s, Request(lastId[s] + 1, method, arg))
           /\ UNCHANGED <<setup, wallet, purse, node, tasks, fetching, ops, raced, toAepp>>
<1>1. /\ lastId[s] < setup.requests[s] /\ lastId' = [lastId EXCEPT ![s] = lastId[s] + 1]
      /\ UNCHANGED <<setup, wallet, purse, node, tasks, fetching, ops, raced, toAepp>>
  BY DEF Calls
<1>2. lastId[s] \in 0..MaxRequests /\ setup.requests[s] \in Ids
  BY SetupAssumption DEF Types, AeppTypes, SetupType
<1>3. lastId'[s] = lastId[s] + 1 /\ lastId[s] \in Nat /\ lastId[s] + 1 \in Ids
  BY <1>1, <1>2, BoundAssumption DEF Ids, Types, AeppTypes
<1>4. toWallet' = Sent(toWallet, s, Request(lastId[s] + 1, method, arg))
  BY <1>3 DEF Calls
<1>5. calls' = IF Window(s) \/ s \in attached
               THEN [calls EXCEPT ![s] = @ \cup {[id |-> lastId[s] + 1, method |-> method]}] ELSE calls
  BY <1>3 DEF Calls
<1>6. arg \in Args
  BY DEF ArgsOf, Args
<1>7. Request(lastId[s] + 1, method, arg) \in Requests
  BY <1>3, <1>6 DEF Request, Requests
<1> QED BY <1>1, <1>3, <1>4, <1>5, <1>7

\* What an aepp asks for, with the argument it takes.
LEMMA AsksFacts ==
    ASSUME NEW s \in Sessions, Asks(s) \/ AsksToSign(s)
    PROVE  UNCHANGED aepp /\ \E method \in Methods : \E arg \in ArgsOf(method) : Calls(s, method, arg)
<1>1. CASE Asks(s)
  <2>1. CASE \E method \in {"subscribe", "unsubscribe"}, value \in {"current", "connected"} : Calls(s, method, value)
    BY <1>1, <2>1 DEF Asks, Methods, ArgsOf, Kinds
  <2>2. CASE Calls(s, "address", None)
    BY <1>1, <2>2 DEF Asks, Methods, ArgsOf
  <2>3. CASE \E n \in Nodes : Calls(s, "updateNetwork", n)
    BY <1>1, <2>3 DEF Asks, Methods, ArgsOf
  <2> QED BY <1>1, <2>1, <2>2, <2>3 DEF Asks
<1>2. CASE AsksToSign(s)
  BY <1>2 DEF AsksToSign, Methods, ArgsOf
<1> QED BY <1>1, <1>2

\* The messages of an aepp to the wallet.
LEMMA GoodbyeFacts ==
    ASSUME Types, NEW s \in Sessions,
           toWallet' = Closed(toWallet, s) \/ toWallet' = Closed(Sent(toWallet, s, Goodbye), s)
    PROVE  /\ toWallet' \in [Sessions -> Seq(WalletMessages)]
           /\ \A x \in Sessions : Silent(toWallet[x], toWallet'[x], {"request"})
<1> DEFINE sent == Sent(toWallet, s, Goodbye)
<1>1. /\ Goodbye \in WalletMessages /\ PortClosed \in WalletMessages
      /\ toWallet \in [Sessions -> Seq(WalletMessages)]
  BY DEF WalletMessages, Types, QueueTypes
<1>2. /\ sent \in [Sessions -> Seq(WalletMessages)]
      /\ \A x \in Sessions : sent[x] = IF x = s /\ Flows(s) THEN Append(toWallet[x], Goodbye) ELSE toWallet[x]
  BY <1>1, SentFacts
<1>3. \A x \in Sessions : Silent(toWallet[x], toWallet[x], {"request"}) /\ Silent(toWallet[x], Append(toWallet[x], Goodbye), {"request"})
  BY <1>1, MessageTypes, SilentAppend DEF Silent
<1>4. \A x \in Sessions : Silent(toWallet[x], sent[x], {"request"})
  BY <1>2, <1>3
<1> HIDE DEF sent
<1>5. /\ Closed(toWallet, s) \in [Sessions -> Seq(WalletMessages)]
      /\ \A x \in Sessions : Silent(toWallet[x], Closed(toWallet, s)[x], {"request"})
  BY <1>1, ClosedFacts
<1>6. /\ Closed(sent, s) \in [Sessions -> Seq(WalletMessages)]
      /\ \A x \in Sessions : Silent(sent[x], Closed(sent, s)[x], {"request"})
  BY <1>1, <1>2, ClosedFacts
<1>7. \A x \in Sessions : Silent(toWallet[x], Closed(sent, s)[x], {"request"})
  BY <1>4, <1>6, SilentTwice
<1>8. toWallet' = Closed(toWallet, s) \/ toWallet' = Closed(sent, s)
  BY DEF sent
<1> QED BY <1>5, <1>6, <1>7, <1>8

\* What the user of an aepp does.
LEMMA AeppUserTypes ==
    ASSUME Types, AeppUser
    PROVE  Types'
<1> USE DEF WalletTypes, AeppTypes, wallet, purse, aepp
<1>1. \A s \in Sessions : Owner(s) \in Aepps
  BY SetupAssumption DEF Types, SetupType, Owner
<1>2. ASSUME NEW s \in Sessions, Connect(s) PROVE Types'
  <2>1. 1 \in Ids /\ "connect" \in Methods
    <3>1. setup.requests[s] \in Ids
      BY SetupAssumption DEF Types, SetupType
    <3> QED BY <3>1, BoundAssumption DEF Ids, Methods
  <2>2. Request(1, "connect", None) \in WalletMessages
    BY <2>1 DEF WalletMessages, Requests, Request, Args, ArgsOf
  <2>3. Append(toWallet[s], Request(1, "connect", None)) \in Seq(WalletMessages)
    BY <2>2, AppendFacts DEF Types, QueueTypes
  <2>4. toWallet' \in [Sessions -> Seq(WalletMessages)]
    BY <1>2, <2>3 DEF Connect, Types, QueueTypes
  <2>5. calls' \in [Sessions -> SUBSET [id : Ids, method : Methods]]
    BY <1>2, <2>1 DEF Connect, Types
  <2>6. lastId' \in [Sessions -> 0..MaxRequests]
    BY <1>2, <2>1 DEF Connect, Types, Ids
  <2>7. rpc' \in [Aepps -> Sessions \cup {None}] /\ attached' \subseteq Sessions /\ overlapped' \subseteq Aepps
    BY <1>1, <1>2 DEF Connect, Types
  <2> QED BY <1>2, <2>4, <2>5, <2>6, <2>7 DEF Connect, Types, QueueTypes
<1>3. ASSUME NEW s \in Sessions, Asks(s) \/ AsksToSign(s) PROVE Types'
  <2>1. PICK method \in Methods : \E arg \in ArgsOf(method) : Calls(s, method, arg)
    BY <1>3, AsksFacts
  <2>2. PICK arg \in ArgsOf(method) : Calls(s, method, arg)
    BY <2>1
  <2>3. UNCHANGED aepp
    BY <1>3, AsksFacts
  <2> DEFINE c == [id |-> lastId[s] + 1, method |-> method]  m == Request(lastId[s] + 1, method, arg)
  <2>4. /\ lastId[s] + 1 \in Ids /\ lastId' = [lastId EXCEPT ![s] = lastId[s] + 1]
        /\ calls' = IF Window(s) \/ s \in attached THEN [calls EXCEPT ![s] = @ \cup {c}] ELSE calls
        /\ m \in Requests /\ toWallet' = Sent(toWallet, s, m)
        /\ UNCHANGED <<setup, wallet, purse, node, tasks, fetching, ops, raced, toAepp>>
    BY <2>2, CallsFacts
  <2>5. c \in [id : Ids, method : Methods]
    BY <2>4
  <2> HIDE DEF c, m
  <2>6. toWallet' \in [Sessions -> Seq(WalletMessages)]
    BY <2>4, SentFacts DEF WalletMessages, Types, QueueTypes
  <2>7. calls' \in [Sessions -> SUBSET [id : Ids, method : Methods]]
    BY <2>4, <2>5 DEF Types
  <2>8. lastId' \in [Sessions -> 0..MaxRequests]
    BY <2>4 DEF Types, Ids
  <2> QED BY <2>3, <2>4, <2>6, <2>7, <2>8 DEF Types, QueueTypes
<1>4. ASSUME NEW s \in Sessions, Disconnect(s) PROVE Types'
  <2>1. toWallet' \in [Sessions -> Seq(WalletMessages)]
    BY <1>4, GoodbyeFacts DEF Disconnect, Goodbye
  <2>2. rpc' \in [Aepps -> Sessions \cup {None}] /\ view' \in [Aepps -> Views \cup {None}] /\ attached' \subseteq Sessions
    BY <1>1, <1>4 DEF Disconnect, LetsGo, OnDisconnect, Types
  <2> QED BY <1>4, <2>1, <2>2 DEF Disconnect, Types, QueueTypes
<1> QED BY <1>2, <1>3, <1>4 DEF AeppUser

\* An aepp gets a message.
LEMMA AeppHearsTypes ==
    ASSUME Types, NEW s \in Sessions, AeppHears(s)
    PROVE  Types'
<1> USE DEF WalletTypes, AeppTypes, wallet, purse, aepp
<1>1. UNCHANGED <<setup, wallet, purse, node, tasks, fetching, ops, lastId, raced>>
  BY DEF AeppHears
<1>2. Owner(s) \in Aepps
  BY SetupAssumption DEF Types, SetupType, Owner
<1>3. Settles(s) => calls' \in [Sessions -> SUBSET [id : Ids, method : Methods]]
  BY DEF Settles, Types
<1>4. CASE GetsWalletInfo(s)
  <2>1. Head(toAepp[s]) \in Results /\ Head(toAepp[s]).method = "connect" /\ toAepp' \in [Sessions -> Seq(AeppMessages)]
    BY <1>4, GetsFacts DEF GetsWalletInfo
  <2>2. Head(toAepp[s]).value \in Nets
    BY <2>1, MessageTypes DEF ValuesOf
  <2>3. net' \in [Aepps -> Nets \cup {None}] /\ rpc' \in [Aepps -> Sessions \cup {None}] /\ accepted' \subseteq Sessions
    BY <1>2, <1>4, <2>2 DEF GetsWalletInfo, Types
  <2> QED BY <1>1, <1>3, <1>4, <2>1, <2>3 DEF GetsWalletInfo, Types, QueueTypes
<1>5. CASE GetsSubscription(s)
  <2>1. /\ Head(toAepp[s]) \in Results /\ Head(toAepp[s]).method \in {"subscribe", "unsubscribe"}
        /\ toAepp' \in [Sessions -> Seq(AeppMessages)]
    BY <1>5, GetsFacts DEF GetsSubscription
  <2>2. Head(toAepp[s]).value \in Views
    BY <2>1, MessageTypes DEF ValuesOf
  <2>3. view' \in [Aepps -> Views \cup {None}]
    BY <1>2, <1>5, <2>2 DEF GetsSubscription, Types
  <2> QED BY <1>1, <1>3, <1>5, <2>1, <2>3 DEF GetsSubscription, Types, QueueTypes
<1>6. CASE GetsAnswer(s)
  <2>1. toAepp' \in [Sessions -> Seq(AeppMessages)]
    BY <1>6, GetsFacts DEF GetsAnswer
  <2> QED BY <1>1, <1>3, <1>6, <2>1 DEF GetsAnswer, Types, QueueTypes
<1>7. CASE GetsAccounts(s)
  <2>1. /\ Head(toAepp[s]) \in Pushes /\ Head(toAepp[s]).method = "updateAddress"
        /\ toAepp' \in [Sessions -> Seq(AeppMessages)]
    BY <1>7, GetsFacts DEF GetsAccounts
  <2>2. view' \in [Aepps -> Views \cup {None}]
    BY <1>2, <1>7, <2>1, MessageTypes DEF GetsAccounts, Types
  <2> QED BY <1>1, <1>7, <2>1, <2>2 DEF GetsAccounts, Types, QueueTypes
<1>8. CASE GetsNetwork(s)
  <2>1. /\ Head(toAepp[s]) \in Pushes /\ Head(toAepp[s]).method = "updateNetwork"
        /\ toAepp' \in [Sessions -> Seq(AeppMessages)]
    BY <1>8, GetsFacts DEF GetsNetwork
  <2>2. net' \in [Aepps -> Nets \cup {None}]
    BY <1>2, <1>8, <2>1, MessageTypes DEF GetsNetwork, Types
  <2> QED BY <1>1, <1>8, <2>1, <2>2 DEF GetsNetwork, Types, QueueTypes
<1>9. CASE GetsGoodbye(s)
  <2>1. toAepp' \in [Sessions -> Seq(AeppMessages)] /\ toWallet' \in [Sessions -> Seq(WalletMessages)]
    BY <1>9, GetsFacts, GoodbyeFacts DEF GetsGoodbye
  <2>2. rpc' \in [Aepps -> Sessions \cup {None}] /\ view' \in [Aepps -> Views \cup {None}] /\ attached' \subseteq Sessions
    BY <1>2, <1>9 DEF GetsGoodbye, LetsGo, OnDisconnect, Types
  <2> QED BY <1>1, <1>9, <2>1, <2>2 DEF GetsGoodbye, Types, QueueTypes
<1>10. CASE GetsPortClosed(s)
  <2>1. toAepp' \in [Sessions -> Seq(AeppMessages)]
    BY <1>10, GetsFacts DEF GetsPortClosed
  <2>2. rpc' \in [Aepps -> Sessions \cup {None}] /\ view' \in [Aepps -> Views \cup {None}]
    BY <1>2, <1>10 DEF GetsPortClosed, OnDisconnect, Types
  <2> QED BY <1>1, <1>10, <2>1, <2>2 DEF GetsPortClosed, Types, QueueTypes
<1>11. CASE MissesAtAepp(s)
  <2>1. Tail(toAepp[s]) \in Seq(AeppMessages)
    BY <1>11, TailFacts DEF MissesAtAepp, Types, QueueTypes
  <2> QED BY <1>1, <1>11, <2>1 DEF MissesAtAepp, Types, QueueTypes
<1> QED BY <1>4, <1>5, <1>6, <1>7, <1>8, <1>9, <1>10, <1>11 DEF AeppHears

\* Every step keeps the types.
LEMMA TypesStep == Types /\ [Next]_vars => Types'
<1> SUFFICES ASSUME Types, [Next]_vars PROVE Types'
  OBVIOUS
<1>1. CASE UNCHANGED vars
  BY <1>1 DEF vars, rest, wallet, purse, aepp, Types, WalletTypes, AeppTypes, QueueTypes
<1> QED BY <1>1, WalletUserTypes, WalletNodeTypes, AeppUserTypes, ProceedsTypes, WalletHearsTypes, AeppHearsTypes DEF Next

-----------------------------------------------------------------------------
(* Every request is in one place *)

At(s) == {u \in tasks : u.s = s}
For(s) == {g \in fetching : g.for.s = s}

\* A step that asks and answers nothing of a session, though messages on
\* the way may be lost.
Idle(s) ==
    /\ Silent(toWallet[s], toWallet'[s], {"request"}) /\ Silent(toAepp[s], toAepp'[s], Responses)
    /\ At(s)' \subseteq At(s) /\ For(s)' \subseteq For(s)
    /\ calls'[s] = calls[s] /\ lastId'[s] = lastId[s] /\ (s \in attached' => s \in attached)

\* A queue that stays as it is.
LEMMA SilentSame == ASSUME NEW q, NEW T PROVE Silent(q, q, T)
BY DEF Silent

\* The ids of requests are numbers.
LEMMA EntryIds ==
    ASSUME Types, NEW s \in Sessions
    PROVE  /\ lastId[s] \in Nat
           /\ \A c \in Asked(s) \cup Tended(s) \cup Selecting(s) \cup Answered(s) \cup calls[s] : c.id \in Ids
<1>1. toWallet[s] \in Seq(WalletMessages) /\ toAepp[s] \in Seq(AeppMessages)
  BY DEF Types, QueueTypes
<1>2. ASSUME NEW c \in Asked(s) PROVE c.id \in Ids
  <2>1. PICK i \in 1..Len(toWallet[s]) : toWallet[s][i].type = "request" /\ c = Entry(toWallet[s][i])
    BY DEF Asked, Entries
  <2>2. toWallet[s][i] \in WalletMessages
    BY <1>1, <2>1, ElementOfSeq
  <2>3. toWallet[s][i].id \in Ids
    BY <2>1, <2>2, MessageTypes DEF WalletMessages
  <2> QED BY <2>1, <2>3 DEF Entry
<1>3. ASSUME NEW c \in Answered(s) PROVE c.id \in Ids
  <2>1. PICK i \in 1..Len(toAepp[s]) : toAepp[s][i].type \in Responses /\ c = Entry(toAepp[s][i])
    BY DEF Answered, Entries
  <2>2. toAepp[s][i] \in AeppMessages
    BY <1>1, <2>1, ElementOfSeq
  <2>3. toAepp[s][i].id \in Ids
    BY <2>1, <2>2, MessageTypes DEF AeppMessages, Responses
  <2> QED BY <2>1, <2>3 DEF Entry
<1>4. ASSUME NEW c \in Tended(s) PROVE c.id \in Ids
  BY DEF Tended, Entry, Types, WalletTypes, TaskSet
<1>5. ASSUME NEW c \in Selecting(s) PROVE c.id \in Ids
  <2>1. PICK g \in fetching : g.for.s = s /\ c = Entry(g.for)
    BY DEF Selecting
  <2>2. g \in FetchSet /\ s # None
    BY NoneAssumption DEF Types, WalletTypes
  <2>3. g.for.id \in Ids
    BY <2>1, <2>2, FetchFacts DEF TaskSet
  <2> QED BY <2>1, <2>3 DEF Entry
<1>6. lastId[s] \in Nat /\ \A c \in calls[s] : c.id \in Ids
  BY BoundAssumption DEF Types, AeppTypes
<1> QED BY <1>2, <1>3, <1>4, <1>5, <1>6

\* Less waits at the wallet.
LEMMA WaitingFewer ==
    ASSUME NEW s, At(s)' \subseteq At(s), For(s)' \subseteq For(s)
    PROVE  /\ OnceWaiting(s) => OnceWaiting(s)'
           /\ Tended(s)' \subseteq Tended(s) /\ Selecting(s)' \subseteq Selecting(s)
<1>1. OnceWaiting(s) => OnceWaiting(s)'
  BY DEF OnceWaiting, At, For
<1>2. Tended(s)' \subseteq Tended(s) /\ Selecting(s)' \subseteq Selecting(s)
  BY DEF Tended, Selecting, At, For
<1> QED BY <1>1, <1>2

\* Nothing new.
LEMMA IdlePlaces ==
    ASSUME Types, NEW s \in Sessions, PlacesOK(s), Idle(s)
    PROVE  PlacesOK(s)'
<1>1. /\ OnceIn(toWallet'[s], {"request"}) /\ OnceIn(toAepp'[s], Responses)
      /\ Asked(s)' \subseteq Asked(s) /\ Answered(s)' \subseteq Answered(s)
  BY DEF Idle, Silent, PlacesOK, Asked, Answered
<1>2. OnceWaiting(s)' /\ Tended(s)' \subseteq Tended(s) /\ Selecting(s)' \subseteq Selecting(s)
  BY WaitingFewer DEF Idle, PlacesOK
<1>3. lastId[s] \in Nat /\ calls'[s] = calls[s] /\ lastId'[s] = lastId[s] /\ (s \in attached' => s \in attached)
  BY EntryIds DEF Idle
<1>4. Placed(Asked(s)', Tended(s)', Selecting(s)', Answered(s)', calls[s], lastId[s], s \in attached')
  <2> DEFINE A1 == Asked(s)'  B1 == Tended(s)'  C1 == Selecting(s)'  D1 == Answered(s)'  att1 == s \in attached'
             A == Asked(s)  B == Tended(s)  C == Selecting(s)  D == Answered(s)  att == s \in attached
  <2>1. /\ Placed(A, B, C, D, calls[s], lastId[s], att) /\ lastId[s] \in Nat /\ (att1 => att)
        /\ A1 \subseteq A /\ B1 \subseteq B /\ C1 \subseteq C /\ D1 \subseteq D
    BY <1>1, <1>2, <1>3 DEF PlacesOK
  <2> HIDE DEF A, A1, B, B1, C, C1, D, D1, att, att1
  <2>2. Placed(A1, B1, C1, D1, calls[s], lastId[s], att1)
    BY <2>1, PlacedFewer
  <2> QED BY <2>2 DEF A1, B1, C1, D1, att1
<1> QED BY <1>1, <1>2, <1>3, <1>4 DEF PlacesOK

\* A request that leaves its place for the answers, if anybody takes them.
LEMMA AnsweredPlaces ==
    ASSUME Types, NEW s \in Sessions, PlacesOK(s),
           OnceIn(toWallet'[s], {"request"}), OnceWaiting(s)',
           Asked(s)' \subseteq Asked(s), Tended(s)' \subseteq Tended(s), Selecting(s)' \subseteq Selecting(s),
           NEW c \in Asked(s) \cup Tended(s) \cup Selecting(s),
           \A d \in Asked(s)' \cup Tended(s)' \cup Selecting(s)' : d.id # c.id,
           Answered(s)' \subseteq Answered(s) \cup {c},
           OnceIn(toAepp[s], Responses) /\ (\A d \in Answered(s) : d.id # c.id) => OnceIn(toAepp'[s], Responses),
           calls'[s] = calls[s], lastId'[s] = lastId[s], s \in attached' => s \in attached
    PROVE  PlacesOK(s)'
<1> DEFINE A1 == Asked(s)'  B1 == Tended(s)'  C1 == Selecting(s)'  D1 == Answered(s)'  att1 == s \in attached'
           A == Asked(s)  B == Tended(s)  C == Selecting(s)  D == Answered(s)  att == s \in attached
<1>1. /\ Placed(A, B, C, D, calls[s], lastId[s], att) /\ lastId[s] \in Nat /\ (att1 => att)
      /\ A1 \subseteq A /\ B1 \subseteq B /\ C1 \subseteq C /\ D1 \subseteq D \cup {c}
      /\ c \in A \cup B \cup C /\ \A d \in A1 \cup B1 \cup C1 : d.id # c.id
  BY EntryIds DEF PlacesOK
<1> HIDE DEF A, A1, B, B1, C, C1, D, D1, att, att1
<1>2. \A d \in D : d.id # c.id
  BY <1>1 DEF Placed, Disjoint
<1>3. Placed(A1, B1, C1, D \cup {c}, calls[s], lastId[s], att)
  <2> DEFINE K == calls[s]  n == lastId[s]
  <2>1. /\ Placed(A, B, C, D, K, n, att) /\ n \in Nat
        /\ A1 \subseteq A /\ B1 \subseteq B /\ C1 \subseteq C /\ D \subseteq D
        /\ c \in A \cup B \cup C \cup D /\ \A d \in A1 \cup B1 \cup C1 \cup D : d.id # c.id
    BY <1>1, <1>2
  <2> HIDE DEF K, n
  <2>2. Placed(A1, B1, C1, D \cup {c}, K, n, att)
    BY <2>1 DEF Placed, Disjoint
  <2> QED BY <2>2 DEF K, n
<1>4. Placed(A1, B1, C1, D1, calls[s], lastId[s], att1)
  BY <1>1, <1>3, PlacedFewer
<1>5. OnceIn(toAepp'[s], Responses)
  BY <1>2 DEF D, PlacesOK
<1> QED BY <1>4, <1>5 DEF PlacesOK, A1, B1, C1, D1, att1

\* A task is done, or taken up by the next one.
LEMMA TaskLeaves ==
    ASSUME Types, NEW t \in tasks, PlacesInv,
           \/ tasks' = tasks \ {t}
           \/ \E u : u.s = t.s /\ Entry(u) = Entry(t) /\ u.id = t.id /\ tasks' = (tasks \ {t}) \cup {u}
    PROVE  /\ t \in TaskSet /\ t.s \in Sessions /\ Entry(t) \in Tended(t.s) /\ Entry(t).id = t.id
           /\ \A x \in Sessions \ {t.s} : At(x)' = At(x)
           /\ Tended(t.s)' \subseteq Tended(t.s)
           /\ \A v, w \in tasks' : v.s = t.s /\ w.s = t.s /\ v.id = w.id => v = w
           /\ tasks' = tasks \ {t} => \A d \in Tended(t.s)' : d.id # t.id
<1>1. t \in TaskSet /\ t.s \in Sessions /\ Entry(t) \in Tended(t.s) /\ Entry(t).id = t.id
  BY DEF Types, WalletTypes, TaskSet, Tended, Entry
<1>2. \A v, w \in tasks : v.s = t.s /\ w.s = t.s /\ v.id = w.id => v = w
  BY <1>1 DEF PlacesInv, PlacesOK, OnceWaiting
<1>3. CASE tasks' = tasks \ {t}
  <2>1. \A x \in Sessions \ {t.s} : At(x)' = At(x)
    BY <1>3 DEF At
  <2>2. Tended(t.s)' \subseteq Tended(t.s)
    BY <1>3 DEF Tended
  <2>3. ASSUME NEW d \in Tended(t.s)' PROVE d.id # t.id
    <3>1. PICK u \in tasks \ {t} : u.s = t.s /\ d = Entry(u)
      BY <1>3 DEF Tended
    <3>2. d.id = u.id
      BY <3>1 DEF Entry
    <3> QED BY <1>2, <3>1, <3>2
  <2> QED BY <1>1, <1>2, <1>3, <2>1, <2>2, <2>3
<1>4. ASSUME NEW u, u.s = t.s, Entry(u) = Entry(t), u.id = t.id, tasks' = (tasks \ {t}) \cup {u},
             tasks' # tasks \ {t}
      PROVE  /\ \A x \in Sessions \ {t.s} : At(x)' = At(x)
             /\ Tended(t.s)' \subseteq Tended(t.s)
             /\ \A v, w \in tasks' : v.s = t.s /\ w.s = t.s /\ v.id = w.id => v = w
  <2>1. \A x \in Sessions \ {t.s} : At(x)' = At(x)
    BY <1>4 DEF At
  <2>2. Tended(t.s)' \subseteq Tended(t.s)
    BY <1>1, <1>4 DEF Tended
  <2> QED BY <1>2, <1>4, <2>1, <2>2
<1> QED BY <1>1, <1>3, <1>4

\* Nothing new for anybody.
LEMMA AllIdle ==
    ASSUME Types, PlacesInv, \A x \in Sessions : Idle(x)
    PROVE  PlacesInv'
BY IdlePlaces DEF PlacesInv

\* The wallet lets go of a session.
LEMMA LetGoFacts ==
    ASSUME Types, NEW s \in Sessions,
           toAepp' = Closed(toAepp, s) \/ toAepp' = Closed(Sent(toAepp, s, Goodbye), s)
    PROVE  \A x \in Sessions : /\ Silent(toAepp[x], toAepp'[x], Responses)
                               /\ Has(toAepp'[x], PortClosed) => Has(toAepp[x], PortClosed) \/ (x = s /\ ~Window(s))
<1> DEFINE sent == Sent(toAepp, s, Goodbye)
<1>1. /\ Goodbye \in Pushes /\ Goodbye \in AeppMessages /\ PortClosed \in AeppMessages
      /\ toAepp \in [Sessions -> Seq(AeppMessages)]
  BY DEF AeppMessages, Pushes, Types, QueueTypes
<1>2. /\ sent \in [Sessions -> Seq(AeppMessages)]
      /\ \A x \in Sessions : sent[x] = IF x = s /\ Flows(s) THEN Append(toAepp[x], Goodbye) ELSE toAepp[x]
  BY <1>1, SentFacts
<1>3. \A x \in Sessions : /\ Silent(toAepp[x], toAepp[x], Responses) /\ Silent(toAepp[x], Append(toAepp[x], Goodbye), Responses)
                          /\ NoneClosed(toAepp[x], toAepp[x]) /\ NoneClosed(toAepp[x], Append(toAepp[x], Goodbye))
  BY <1>1, NotificationQueue, SilentSame DEF NoneClosed
<1>4. \A x \in Sessions : Silent(toAepp[x], sent[x], Responses) /\ NoneClosed(toAepp[x], sent[x])
  BY <1>2, <1>3
<1> HIDE DEF sent
<1>5. ASSUME NEW q \in [Sessions -> Seq(AeppMessages)],
             \A x \in Sessions : Silent(toAepp[x], q[x], Responses) /\ NoneClosed(toAepp[x], q[x]),
             NEW x \in Sessions
      PROVE  /\ Silent(toAepp[x], Closed(q, s)[x], Responses)
             /\ Has(Closed(q, s)[x], PortClosed) => Has(toAepp[x], PortClosed) \/ (x = s /\ ~Window(s))
  <2> DEFINE p == Closed(q, s)
  <2>1. /\ Silent(q[x], p[x], Responses)
        /\ p[x] = IF x = s /\ ~Window(s) THEN Append(q[x], PortClosed) ELSE q[x]
    BY <1>1, <1>5, ClosedFacts
  <2> HIDE DEF p
  <2>2. Silent(toAepp[x], p[x], Responses)
    BY <1>5, <2>1, SilentTwice
  <2>3. Has(p[x], PortClosed) => Has(toAepp[x], PortClosed) \/ (x = s /\ ~Window(s))
    BY <1>5, <2>1 DEF NoneClosed
  <2> QED BY <2>2, <2>3 DEF p
<1>6. toAepp' = Closed(toAepp, s) \/ toAepp' = Closed(sent, s)
  BY DEF sent
<1>7. \A x \in Sessions : Silent(toAepp[x], toAepp[x], Responses) /\ NoneClosed(toAepp[x], toAepp[x])
  BY <1>3
<1>8. CASE toAepp' = Closed(toAepp, s)
  BY <1>1, <1>5, <1>7, <1>8
<1>9. CASE toAepp' = Closed(sent, s)
  BY <1>2, <1>4, <1>5, <1>9
<1> QED BY <1>6, <1>8, <1>9

\* What the wallet's user does answers nobody.
LEMMA WalletUserPlaces ==
    ASSUME Types, PlacesInv, WalletUser
    PROVE  PlacesInv'
<1> USE DEF wallet, purse, aepp
<1>1. ASSUME UNCHANGED <<tasks, fetching, calls, lastId, attached, toWallet>>,
             \A x \in Sessions : Silent(toAepp[x], toAepp'[x], Responses)
      PROVE  PlacesInv'
  BY <1>1, SilentSame, AllIdle DEF Idle, At, For
<1>2. ASSUME NEW s \in Sessions, AddRpcClient(s) PROVE PlacesInv'
  BY <1>1, <1>2, SilentSame DEF AddRpcClient
<1>3. ASSUME NEW s \in Sessions, NEW bye \in BOOLEAN, RemoveRpcClient(s, bye) PROVE PlacesInv'
  <2>1. toAepp' = Closed(toAepp, s) \/ toAepp' = Closed(Sent(toAepp, s, Goodbye), s)
    BY <1>3 DEF RemoveRpcClient, Goodbye
  <2>2. \A x \in Sessions : Silent(toAepp[x], toAepp'[x], Responses)
    BY <2>1, LetGoFacts
  <2> QED BY <1>1, <1>3, <2>2 DEF RemoveRpcClient
<1>4. ASSUME NEW added \in SUBSET Accounts, NEW chosen \in Accounts \cup {None}, NEW times \in {1, 2},
             PurseChange(added, chosen, times)
      PROVE  PlacesInv'
  <2>1. [current |-> IF chosen = None THEN {} ELSE {chosen}, connected |-> added \ {chosen}] \in Views
    BY DEF Views
  <2>2. \A x \in Sessions : Silent(toAepp[x], toAepp'[x], Responses)
    BY <1>4, <2>1, PushFacts DEF PurseChange, Types
  <2> QED BY <1>1, <1>4, <2>2 DEF PurseChange
<1>5. ASSUME NEW a \in Accounts, selectAccount(a) PROVE PlacesInv'
  <2>1. accounts \in SUBSET Accounts /\ PurseChange(accounts, a, 1)
    BY <1>5 DEF selectAccount, Types, WalletTypes
  <2> QED BY <1>4, <2>1
<1>6. ASSUME NEW a \in Accounts, NEW select \in BOOLEAN, addAccount(a, select) PROVE PlacesInv'
  <2>1. PurseChange(accounts \cup {a}, IF select THEN a ELSE selected, IF select THEN 2 ELSE 1)
    BY <1>6 DEF addAccount
  <2>2. accounts \cup {a} \in SUBSET Accounts /\ (IF select THEN a ELSE selected) \in Accounts \cup {None}
    BY DEF Types, WalletTypes
  <2> QED BY <1>4, <2>1, <2>2
<1>7. ASSUME NEW a \in Accounts, removeAccount(a) PROVE PlacesInv'
  BY <1>1, <1>7, SilentSame DEF removeAccount
<1>8. ASSUME NEW n \in Nodes, selectNode(n) PROVE PlacesInv'
  <2>1. \A x \in Sessions : For(x)' = For(x)
    BY <1>8, NoneAssumption DEF selectNode, Selects, For
  <2> QED BY <1>8, <2>1, SilentSame, AllIdle DEF selectNode, Idle, At
<1> QED BY <1>2, <1>3, <1>5, <1>6, <1>7, <1>8 DEF WalletUser

\* The node of the wallet: a request for it is answered.
LEMMA NetworkPlaces ==
    ASSUME Types, PlacesInv, NEW f \in fetching, NEW queues \in [Sessions -> Seq(AeppMessages)],
           \A x \in Sessions : Silent(toAepp[x], queues[x], Responses),
           \/ toAepp' = IF f.for.s = None THEN queues ELSE Sent(queues, f.for.s, Result(f.for, "null"))
           \/ toAepp' = IF f.for.s = None THEN queues ELSE Sent(queues, f.for.s, Failure(f.for, "internal")),
           fetching' = fetching \ {f}, UNCHANGED <<tasks, calls, lastId, attached, toWallet>>
    PROVE  PlacesInv'
<1>1. f \in FetchSet
  BY DEF Types, WalletTypes
<1>2. /\ f.for.s = None => toAepp' = queues
      /\ f.for.s # None => f.for.s \in Sessions /\ Responded(queues, toAepp', f.for.s, Entry(f.for))
  <2> DEFINE q == toAepp'
  <2>1. \/ q = IF f.for.s = None THEN queues ELSE Sent(queues, f.for.s, Result(f.for, "null"))
        \/ q = IF f.for.s = None THEN queues ELSE Sent(queues, f.for.s, Failure(f.for, "internal"))
    OBVIOUS
  <2> HIDE DEF q
  <2>2. /\ f.for.s = None => q = queues
        /\ f.for.s # None => f.for.s \in Sessions /\ Responded(queues, q, f.for.s, Entry(f.for))
    BY <1>1, <2>1, NetworkAnswered
  <2> QED BY <2>2 DEF q
<1>3. ASSUME NEW x \in Sessions, x # f.for.s PROVE PlacesOK(x)'
  <2>1. Silent(toAepp[x], toAepp'[x], Responses)
    BY <1>2, <1>3 DEF Responded
  <2>2. Idle(x)
    BY <2>1, SilentSame DEF Idle, At, For
  <2> QED BY <2>2, IdlePlaces DEF PlacesInv
<1>4. ASSUME NEW s \in Sessions, s = f.for.s PROVE PlacesOK(s)'
  <2> DEFINE c == Entry(f.for)
  <2>1. s # None /\ PlacesOK(s)
    BY NoneAssumption DEF PlacesInv
  <2>2. c \in Selecting(s) /\ c.id = f.for.id
    BY <1>4 DEF Selecting, Entry
  <2>3. At(s)' = At(s) /\ For(s)' \subseteq For(s) /\ Tended(s)' = Tended(s) /\ Asked(s)' = Asked(s)
    BY DEF At, For, Tended, Asked
  <2>4. OnceWaiting(s)' /\ Selecting(s)' \subseteq Selecting(s)
    BY <2>1, <2>3, WaitingFewer DEF PlacesOK
  <2>5. ASSUME NEW d \in Selecting(s)' PROVE d.id # c.id
    <3>1. PICK g \in fetching \ {f} : g.for.s = s /\ d = Entry(g.for)
      BY DEF Selecting
    <3>2. d.id = g.for.id
      BY <3>1 DEF Entry
    <3> QED BY <1>4, <2>1, <2>2, <3>1, <3>2 DEF PlacesOK, OnceWaiting
  <2>6. \A d \in Asked(s)' \cup Tended(s)' : d.id # c.id
    BY <2>1, <2>2, <2>3 DEF PlacesOK, Placed, Disjoint
  <2>7. Silent(toAepp[s], queues[s], Responses)
    OBVIOUS
  <2>8. Answered(s)' \subseteq Answered(s) \cup {c}
    BY <1>2, <1>4, <2>1, <2>7 DEF Answered, Silent, Responded
  <2>9. OnceIn(toAepp[s], Responses) /\ (\A d \in Answered(s) : d.id # c.id) => OnceIn(toAepp'[s], Responses)
    BY <1>2, <1>4, <2>1, <2>2, <2>7 DEF Answered, Silent, Responded
  <2>10. OnceIn(toWallet'[s], {"request"})
    BY <2>1 DEF PlacesOK
  <2> HIDE DEF c
  <2> QED BY <2>1, <2>2, <2>3, <2>4, <2>5, <2>6, <2>8, <2>9, <2>10, AnsweredPlaces
<1> QED BY <1>3, <1>4 DEF PlacesInv

\* A task that ends with its answer.
LEMMA AnswersPlaces ==
    ASSUME Types, PlacesInv, NEW t \in tasks, NEW r \in Results \cup Failures, Answers(t, r),
           Entry(r) = Entry(t), r.id = t.id,
           UNCHANGED <<fetching, calls, lastId, attached, toWallet>>
    PROVE  PlacesInv'
<1>1. tasks' = tasks \ {t} /\ toAepp' = Sent(toAepp, t.s, r)
  BY DEF Answers
<1>2. /\ t \in TaskSet /\ t.s \in Sessions /\ Entry(t) \in Tended(t.s) /\ Entry(t).id = t.id
      /\ \A x \in Sessions \ {t.s} : At(x)' = At(x)
      /\ Tended(t.s)' \subseteq Tended(t.s)
      /\ \A v, w \in tasks' : v.s = t.s /\ w.s = t.s /\ v.id = w.id => v = w
      /\ \A d \in Tended(t.s)' : d.id # t.id
  BY <1>1, TaskLeaves
<1>3. toAepp \in [Sessions -> Seq(AeppMessages)]
  BY DEF Types, QueueTypes
<1> DEFINE s == t.s  c == Entry(t)
<1>4. Responded(toAepp, toAepp', s, c)
  <2> DEFINE p == Sent(toAepp, s, r)
  <2>1. s \in Sessions /\ toAepp' = p
    BY <1>1, <1>2
  <2> HIDE DEF s
  <2>2. Responded(toAepp, p, s, Entry(r))
    BY <1>3, <2>1, ResponseFacts
  <2> QED BY <2>1, <2>2
<1>5. ASSUME NEW x \in Sessions, x # s PROVE PlacesOK(x)'
  <2>1. Idle(x)
    BY <1>2, <1>4, <1>5, SilentSame DEF Idle, For, Responded
  <2> QED BY <2>1, IdlePlaces DEF PlacesInv
<1>6. PlacesOK(s)'
  <2>1. PlacesOK(s) /\ s \in Sessions
    BY <1>2 DEF PlacesInv
  <2>2. Selecting(s)' = Selecting(s) /\ Asked(s)' = Asked(s)
    BY DEF Selecting, Asked
  <2>3. OnceWaiting(s)'
    BY <1>2, <2>1 DEF PlacesOK, OnceWaiting
  <2>4. \A d \in Asked(s)' \cup Selecting(s)' : d.id # c.id
    BY <1>2, <2>1, <2>2 DEF PlacesOK, Placed, Disjoint
  <2>5. Answered(s)' \subseteq Answered(s) \cup {c}
    BY <1>4 DEF Answered, Responded
  <2>6. OnceIn(toAepp[s], Responses) /\ (\A d \in Answered(s) : d.id # c.id) => OnceIn(toAepp'[s], Responses)
    BY <1>2, <1>4 DEF Answered, Responded
  <2>7. OnceIn(toWallet'[s], {"request"})
    BY <2>1 DEF PlacesOK
  <2>8. c \in Tended(s) /\ Tended(s)' \subseteq Tended(s) /\ \A d \in Tended(s)' : d.id # c.id
    BY <1>2
  <2> HIDE DEF c, s
  <2> QED BY <2>1, <2>2, <2>3, <2>4, <2>5, <2>6, <2>7, <2>8, AnsweredPlaces
<1> QED BY <1>5, <1>6 DEF PlacesInv

\* What the node answers, or does not.
LEMMA WalletNodePlaces ==
    ASSUME Types, PlacesInv, WalletNode
    PROVE  PlacesInv'
<1> USE DEF wallet, purse, aepp
<1>1. ASSUME NEW f \in fetching, NetworkSelected(f) PROVE PlacesInv'
  <2> DEFINE pushed == SentAll(toAepp, [s \in {x \in Sessions : _isRpcClientConnected(x)} |->
                                   Notification("updateNetwork", [networkId |-> f.node, node |-> node])])
  <2>1. f \in FetchSet
    BY DEF Types, WalletTypes
  <2>2. /\ pushed \in [Sessions -> Seq(AeppMessages)]
        /\ \A x \in Sessions : Silent(toAepp[x], pushed[x], Responses)
    BY <2>1, NetworkPushed
  <2>3. /\ toAepp' = IF f.for.s = None THEN pushed ELSE Sent(pushed, f.for.s, Result(f.for, "null"))
        /\ fetching' = fetching \ {f} /\ UNCHANGED <<tasks, calls, lastId, attached, toWallet>>
    BY <1>1 DEF NetworkSelected
  <2> HIDE DEF pushed
  <2> QED BY <2>2, <2>3, NetworkPlaces
<1>2. ASSUME NEW f \in fetching, NetworkUnknown(f) PROVE PlacesInv'
  <2>1. /\ toAepp' = IF f.for.s = None THEN toAepp ELSE Sent(toAepp, f.for.s, Failure(f.for, "internal"))
        /\ fetching' = fetching \ {f} /\ UNCHANGED <<tasks, calls, lastId, attached, toWallet>>
    BY <1>2 DEF NetworkUnknown
  <2> DEFINE queues == toAepp
  <2>2. queues \in [Sessions -> Seq(AeppMessages)] /\ \A x \in Sessions : Silent(toAepp[x], queues[x], Responses)
    BY SilentSame DEF Types, QueueTypes
  <2>3. toAepp' = IF f.for.s = None THEN queues ELSE Sent(queues, f.for.s, Failure(f.for, "internal"))
    BY <2>1
  <2> HIDE DEF queues
  <2> QED BY <2>1, <2>2, <2>3, NetworkPlaces
<1>3. ASSUME NEW t \in tasks, NodeFails(t) PROVE PlacesInv'
  <2>1. t \in TaskSet
    BY DEF Types, WalletTypes
  <2> DEFINE r == Failure(t, "internal")
  <2>2. r \in Failures /\ Entry(r) = Entry(t) /\ r.id = t.id
    BY <2>1, AnswerOf DEF TaskSet
  <2>3. Answers(t, r) /\ UNCHANGED <<fetching, calls, lastId, attached, toWallet>>
    BY <1>3 DEF NodeFails, WalletInfoFails
  <2> HIDE DEF r
  <2> QED BY <2>2, <2>3, AnswersPlaces
<1> QED BY <1>1, <1>2, <1>3 DEF WalletNode

\* A task that only moves on.
LEMMA StagePlaces ==
    ASSUME Types, PlacesInv, NEW t \in tasks, NEW u, u.s = t.s, Entry(u) = Entry(t), u.id = t.id,
           tasks' = (tasks \ {t}) \cup {u}, UNCHANGED <<fetching, calls, lastId, attached, toWallet, toAepp>>
    PROVE  PlacesInv'
<1>1. /\ t.s \in Sessions
      /\ \A x \in Sessions \ {t.s} : At(x)' = At(x)
      /\ Tended(t.s)' \subseteq Tended(t.s)
      /\ \A v, w \in tasks' : v.s = t.s /\ w.s = t.s /\ v.id = w.id => v = w
  BY TaskLeaves
<1>2. ASSUME NEW x \in Sessions, x # t.s PROVE PlacesOK(x)'
  <2>1. Idle(x)
    BY <1>1, <1>2, SilentSame DEF Idle, For
  <2> QED BY <2>1, IdlePlaces DEF PlacesInv
<1> DEFINE s == t.s
<1>3. PlacesOK(s)'
  <2>1. PlacesOK(s) /\ s \in Sessions /\ lastId[s] \in Nat
    BY <1>1, EntryIds DEF PlacesInv
  <2>2. OnceWaiting(s)'
    BY <1>1, <2>1 DEF PlacesOK, OnceWaiting
  <2>3. Selecting(s)' = Selecting(s) /\ Asked(s)' = Asked(s) /\ Answered(s)' = Answered(s)
    BY DEF Selecting, Asked, Answered
  <2>4. Tended(s)' \subseteq Tended(s)
    BY <1>1
  <2> DEFINE B1 == Tended(s)'  A == Asked(s)  B == Tended(s)  C == Selecting(s)  D == Answered(s)  att == s \in attached
  <2>5. Placed(A, B, C, D, calls[s], lastId[s], att) /\ B1 \subseteq B
    BY <2>1, <2>4 DEF PlacesOK
  <2> HIDE DEF s, A, B, B1, C, D, att
  <2>6. Placed(A, B1, C, D, calls[s], lastId[s], att)
    BY <2>1, <2>5, PlacedFewer
  <2> QED BY <2>1, <2>2, <2>3, <2>6 DEF PlacesOK, A, B1, C, D, att
<1> QED BY <1>2, <1>3 DEF PlacesInv

\* The wallet selects the node a request names.
LEMMA NetworkAcceptedPlaces ==
    ASSUME Types, PlacesInv, NEW t \in tasks, NEW n, tasks' = tasks \ {t},
           fetching' = fetching \cup {[node |-> n, for |-> t]}, UNCHANGED <<calls, lastId, attached, toWallet, toAepp>>
    PROVE  PlacesInv'
<1>1. /\ t.s \in Sessions /\ Entry(t) \in Tended(t.s) /\ Entry(t).id = t.id
      /\ \A x \in Sessions \ {t.s} : At(x)' = At(x)
      /\ Tended(t.s)' \subseteq Tended(t.s)
      /\ \A v, w \in tasks' : v.s = t.s /\ w.s = t.s /\ v.id = w.id => v = w
      /\ \A d \in Tended(t.s)' : d.id # t.id
  BY TaskLeaves
<1>2. ASSUME NEW x \in Sessions, x # t.s PROVE PlacesOK(x)'
  <2>1. For(x)' = For(x)
    BY <1>2 DEF For
  <2>2. Idle(x)
    BY <1>1, <1>2, <2>1, SilentSame DEF Idle
  <2> QED BY <2>2, IdlePlaces DEF PlacesInv
<1> DEFINE s == t.s  c == Entry(t)
<1>3. PlacesOK(s)'
  <2>1. PlacesOK(s) /\ s \in Sessions /\ lastId[s] \in Nat
    BY <1>1, EntryIds DEF PlacesInv
  <2>2. Selecting(s)' = Selecting(s) \cup {c} /\ Asked(s)' = Asked(s) /\ Answered(s)' = Answered(s)
    <3>1. Selecting(s)' \subseteq Selecting(s) \cup {c}
      BY DEF Selecting
    <3>2. Selecting(s) \cup {c} \subseteq Selecting(s)'
      <4>1. c \in Selecting(s)'
        <5>1. [node |-> n, for |-> t] \in fetching' /\ [node |-> n, for |-> t].for = t
          OBVIOUS
        <5> QED BY <5>1 DEF Selecting
      <4>2. Selecting(s) \subseteq Selecting(s)'
        BY DEF Selecting
      <4> QED BY <4>1, <4>2
    <3>3. Asked(s)' = Asked(s) /\ Answered(s)' = Answered(s)
      BY DEF Asked, Answered
    <3> QED BY <3>1, <3>2, <3>3
  <2>3. \A d \in Asked(s) \cup Selecting(s) \cup Answered(s) : d.id # c.id
    BY <1>1, <2>1 DEF PlacesOK, Placed, Disjoint
  <2>4. \A g \in fetching : g.for.s = s => g.for.id # t.id
    <3>1. \A g \in fetching : g.for.s = s => Entry(g.for) \in Selecting(s) /\ Entry(g.for).id = g.for.id
      BY DEF Selecting, Entry
    <3> QED BY <1>1, <2>3, <3>1
  <2>5. \A f, g \in fetching' : f.for.s = s /\ g.for.s = s /\ f.for.id = g.for.id => f = g
    BY <2>1, <2>4 DEF PlacesOK, OnceWaiting
  <2>6. OnceWaiting(s)'
    BY <1>1, <2>5 DEF OnceWaiting
  <2> DEFINE B1 == Tended(s)'  A == Asked(s)  B == Tended(s)  C == Selecting(s)  D == Answered(s)  att == s \in attached
  <2>7. /\ Placed(A, B, C, D, calls[s], lastId[s], att) /\ B1 \subseteq B
        /\ c \in B /\ \A d \in A \cup B1 \cup C \cup D : d.id # c.id
    BY <1>1, <2>1, <2>3 DEF PlacesOK
  <2> HIDE DEF s, c, A, B, B1, C, D, att
  <2>8. Placed(A, B1, C \cup {c}, D, calls[s], lastId[s], att)
    BY <2>1, <2>7 DEF Placed, Disjoint
  <2> QED BY <2>1, <2>2, <2>6, <2>8 DEF PlacesOK, A, B1, C, D, att
<1> QED BY <1>2, <1>3 DEF PlacesInv

\* The wallet goes on after an await.
LEMMA ProceedsPlaces ==
    ASSUME Types, PlacesInv, NEW t \in tasks, Proceeds(t)
    PROVE  PlacesInv'
<1> USE DEF wallet, purse, aepp
<1>1. UNCHANGED <<calls, lastId, attached, toWallet>>
  BY DEF Proceeds
<1>2. /\ t \in TaskSet /\ t.s \in Sessions /\ t.id \in Ids /\ t.method \in Methods
      /\ t.arg \in ArgsOf(t.method) /\ t.node \in Nodes /\ node \in Nodes
  BY DEF TaskSet, Types, WalletTypes
<1>3. ASSUME NEW why \in {"rejected", "internal"}, Answers(t, Failure(t, why)), UNCHANGED fetching PROVE PlacesInv'
  <2> DEFINE r == Failure(t, why)
  <2>1. r \in Failures /\ Entry(r) = Entry(t) /\ r.id = t.id /\ Answers(t, r)
    BY <1>2, <1>3, AnswerOf
  <2> HIDE DEF r
  <2> QED BY <1>1, <1>3, <2>1, AnswersPlaces
<1>4. ASSUME NEW v \in ValuesOf(t.method), Answers(t, Result(t, v)), UNCHANGED fetching PROVE PlacesInv'
  <2> DEFINE r == Result(t, v)
  <2>1. r \in Results /\ Entry(r) = Entry(t) /\ r.id = t.id /\ Answers(t, r)
    BY <1>2, <1>4, AnswerOf
  <2> HIDE DEF r
  <2> QED BY <1>1, <1>4, <2>1, AnswersPlaces
<1>5. CASE UserRejects(t)
  BY <1>3, <1>5 DEF UserRejects
<1>6. CASE ConnectionAccepted(t)
  <2> DEFINE u == [t EXCEPT !.stage = "info", !.node = node]
  <2>1. u.s = t.s /\ Entry(u) = Entry(t) /\ u.id = t.id
    BY <1>2 DEF TaskSet, Entry
  <2>2. tasks' = (tasks \ {t}) \cup {u} /\ UNCHANGED <<fetching, toAepp>>
    BY <1>6 DEF ConnectionAccepted
  <2> HIDE DEF u
  <2> QED BY <1>1, <2>1, <2>2, StagePlaces
<1>7. CASE WalletInfoSent(t)
  <2>1. t.method = "connect" /\ [networkId |-> t.node, node |-> node] \in Nets
    BY <1>2, <1>7 DEF WalletInfoSent, TaskSet, Nets
  <2>2. [networkId |-> t.node, node |-> node] \in ValuesOf(t.method)
    BY <2>1 DEF ValuesOf
  <2> QED BY <1>4, <1>7, <2>2 DEF WalletInfoSent
<1>8. CASE SubscriptionAccepted(t)
  <2>1. t.arg \in Kinds /\ subs' = [subs EXCEPT ![t.s] = @ \cup {t.arg}]
    BY <1>2, <1>8 DEF SubscriptionAccepted, ArgsOf
  <2>2. subs'[t.s] \in SUBSET Kinds
    BY <1>2, <2>1 DEF Types, WalletTypes
  <2>3. _getAccountsForClient(getAccounts, subs'[t.s]) \in ValuesOf(t.method)
    BY <1>8, <2>2, Shown DEF SubscriptionAccepted, ValuesOf
  <2> QED BY <1>4, <1>8, <2>3 DEF SubscriptionAccepted
<1>9. CASE AccountsShown(t)
  <2>1. accounts \in ValuesOf(t.method)
    BY <1>9 DEF AccountsShown, ValuesOf, Types, WalletTypes
  <2> QED BY <1>4, <1>9, <2>1 DEF AccountsShown
<1>10. CASE NetworkAccepted(t)
  BY <1>1, <1>10, NetworkAcceptedPlaces DEF NetworkAccepted, Selects
<1>11. CASE AccountResolved(t)
  <2>1. CASE t.arg \in accounts
    <3> DEFINE u == [t EXCEPT !.stage = "user"]
    <3>1. u.s = t.s /\ Entry(u) = Entry(t) /\ u.id = t.id
      BY <1>2 DEF TaskSet, Entry
    <3>2. tasks' = (tasks \ {t}) \cup {u} /\ UNCHANGED <<fetching, toAepp>>
      BY <1>11, <2>1 DEF AccountResolved
    <3> HIDE DEF u
    <3> QED BY <1>1, <3>1, <3>2, StagePlaces
  <2>2. CASE t.arg \notin accounts
    BY <1>3, <1>11, <2>2 DEF AccountResolved
  <2> QED BY <2>1, <2>2
<1>12. CASE Signed(t)
  <2>1. <<t.arg, t.node>> \in ValuesOf(t.method)
    BY <1>2, <1>12 DEF Signed, ValuesOf, ArgsOf
  <2> QED BY <1>4, <1>12, <2>1 DEF Signed
<1> QED BY <1>5, <1>6, <1>7, <1>8, <1>9, <1>10, <1>11, <1>12 DEF Proceeds

\* A request that the wallet takes up.
LEMMA AwaitsPlaces ==
    ASSUME Types, PlacesInv, NEW s \in Sessions, NEW method \in Methods, Hears(s, method),
           NEW stage \in {"user", "network"}, Awaits(s, stage), UNCHANGED <<fetching, calls, lastId, attached>>
    PROVE  PlacesInv'
<1> DEFINE m == Head(toWallet[s])  u == Task(s, stage)  c == Entry(m)
<1>1. tasks' = tasks \cup {u} /\ toAepp' = toAepp
  BY DEF Awaits
<1>2. /\ toWallet' = [toWallet EXCEPT ![s] = Tail(@)]
      /\ \A x \in Sessions : Silent(toWallet[x], toWallet'[x], {"request"})
      /\ m \in Requests
      /\ OnceIn(toWallet[s], {"request"}) => c \in Asked(s) /\ \A d \in Asked(s)' : d.id # m.id
  BY HearsFacts
<1>3. PlacesOK(s) /\ lastId[s] \in Nat
  BY EntryIds DEF PlacesInv
<1>4. u.s = s /\ Entry(u) = c /\ c.id = m.id /\ u.id = m.id
  BY <1>2, TaskOf DEF Entry, Task
<1> HIDE DEF m, u, c
<1>5. ASSUME NEW x \in Sessions, x # s PROVE PlacesOK(x)'
  <2>1. At(x)' = At(x)
    BY <1>1, <1>4, <1>5 DEF At
  <2>2. Idle(x)
    BY <1>1, <1>2, <2>1, SilentSame DEF Idle, For
  <2> QED BY <2>2, IdlePlaces DEF PlacesInv
<1>6. PlacesOK(s)'
  <2>1. c \in Asked(s) /\ \A d \in Asked(s)' : d.id # c.id
    BY <1>2, <1>3, <1>4 DEF PlacesOK
  <2>2. Selecting(s)' = Selecting(s) /\ Answered(s)' = Answered(s)
    BY <1>1 DEF Selecting, Answered
  <2>3. Tended(s)' \subseteq Tended(s) \cup {c}
    BY <1>1, <1>4 DEF Tended
  <2>4. \A d \in Tended(s) \cup Selecting(s) \cup Answered(s) : d.id # c.id
    BY <1>3, <2>1 DEF PlacesOK, Placed, Disjoint
  <2>5. \A t \in tasks : t.s = s => t.id # c.id
    <3>1. \A t \in tasks : t.s = s => Entry(t) \in Tended(s) /\ Entry(t).id = t.id
      BY DEF Tended, Entry
    <3> QED BY <2>4, <3>1
  <2>6. OnceWaiting(s)'
    BY <1>1, <1>3, <1>4, <2>5 DEF PlacesOK, OnceWaiting
  <2>7. OnceIn(toWallet'[s], {"request"}) /\ OnceIn(toAepp'[s], Responses) /\ Asked(s)' \subseteq Asked(s)
    BY <1>1, <1>2, <1>3 DEF PlacesOK, Silent, Asked
  <2> DEFINE A1 == Asked(s)'  B1 == Tended(s)'  A == Asked(s)  B == Tended(s)  C == Selecting(s)  D == Answered(s)
             att == s \in attached
  <2>8. /\ Placed(A, B, C, D, calls[s], lastId[s], att) /\ A1 \subseteq A /\ B1 \subseteq B \cup {c}
        /\ c \in A /\ (\A d \in A1 \cup B \cup C \cup D : d.id # c.id)
    BY <1>3, <2>1, <2>3, <2>4, <2>7 DEF PlacesOK
  <2> HIDE DEF A, A1, B, B1, C, D, att
  <2>9. Placed(A1, B1, C, D, calls[s], lastId[s], att)
    BY <1>3, <2>8 DEF Placed, Disjoint
  <2> QED BY <1>3, <2>2, <2>6, <2>7, <2>9 DEF PlacesOK, A1, B1, C, D, att
<1> QED BY <1>5, <1>6 DEF PlacesInv

\* A request that the wallet answers at once.
LEMMA HeardPlaces ==
    ASSUME Types, PlacesInv, NEW s \in Sessions, NEW method \in Methods, Hears(s, method),
           NEW r \in Results \cup Failures, Entry(r) = Entry(Head(toWallet[s])),
           toAepp' = Sent(toAepp, s, r), UNCHANGED <<tasks, fetching, calls, lastId, attached>>
    PROVE  PlacesInv'
<1> DEFINE m == Head(toWallet[s])  c == Entry(m)
<1>1. /\ \A x \in Sessions : Silent(toWallet[x], toWallet'[x], {"request"})
      /\ m \in Requests
      /\ OnceIn(toWallet[s], {"request"}) => c \in Asked(s) /\ \A d \in Asked(s)' : d.id # m.id
  BY HearsFacts
<1>2. PlacesOK(s) /\ c.id = m.id
  BY DEF PlacesInv, Entry
<1>3. Responded(toAepp, toAepp', s, c)
  <2> DEFINE p == Sent(toAepp, s, r)
  <2>1. Responded(toAepp, p, s, Entry(r))
    BY ResponseFacts DEF Types, QueueTypes
  <2> QED BY <2>1
<1> HIDE DEF m, c
<1>4. ASSUME NEW x \in Sessions, x # s PROVE PlacesOK(x)'
  <2>1. Idle(x)
    BY <1>1, <1>3, <1>4, SilentSame DEF Idle, At, For, Responded
  <2> QED BY <2>1, IdlePlaces DEF PlacesInv
<1>5. PlacesOK(s)'
  <2>1. c \in Asked(s) /\ \A d \in Asked(s)' : d.id # c.id
    BY <1>1, <1>2 DEF PlacesOK
  <2>2. OnceWaiting(s)' /\ Tended(s)' = Tended(s) /\ Selecting(s)' = Selecting(s)
    BY <1>2 DEF PlacesOK, OnceWaiting, Tended, Selecting
  <2>3. \A d \in Tended(s)' \cup Selecting(s)' : d.id # c.id
    BY <1>2, <2>1, <2>2 DEF PlacesOK, Placed, Disjoint
  <2>4. OnceIn(toWallet'[s], {"request"}) /\ Asked(s)' \subseteq Asked(s)
    BY <1>1, <1>2 DEF PlacesOK, Silent, Asked
  <2>5. /\ Answered(s)' \subseteq Answered(s) \cup {c}
        /\ OnceIn(toAepp[s], Responses) /\ (\A d \in Answered(s) : d.id # c.id) => OnceIn(toAepp'[s], Responses)
    BY <1>3 DEF Answered, Responded
  <2> QED BY <1>2, <2>1, <2>2, <2>3, <2>4, <2>5, AnsweredPlaces
<1> QED BY <1>4, <1>5 DEF PlacesInv

\* The wallet gets a message.
LEMMA WalletHearsPlaces ==
    ASSUME Types, PlacesInv, NEW s \in Sessions, WalletHears(s)
    PROVE  PlacesInv'
<1> USE DEF wallet, purse, aepp
<1>1. UNCHANGED <<fetching, calls, lastId, attached>>
  BY DEF WalletHears
<1>2. ASSUME NEW method \in Methods, Hears(s, method), NEW why \in {"notAuthorized", "permissionDeny"}, Refuses(s, why)
      PROVE  PlacesInv'
  <2> DEFINE r == Failure(Head(toWallet[s]), why)
  <2>1. Head(toWallet[s]) \in Requests
    BY <1>2, HearsFacts
  <2>2. r \in Failures /\ Entry(r) = Entry(Head(toWallet[s]))
    BY <2>1, MessageTypes, AnswerOf
  <2>3. toAepp' = Sent(toAepp, s, r) /\ tasks' = tasks
    BY <1>2 DEF Refuses
  <2> HIDE DEF r
  <2> QED BY <1>1, <1>2, <2>2, <2>3, HeardPlaces
<1>3. ASSUME NEW method \in Methods, Hears(s, method), NEW stage \in {"user", "network"}, Awaits(s, stage)
      PROVE  PlacesInv'
  BY <1>1, <1>3, AwaitsPlaces
<1>4. ASSUME NEW method, Hears(s, method), tasks' = tasks, \A x \in Sessions : Silent(toAepp[x], toAepp'[x], Responses)
      PROVE  PlacesInv'
  <2>1. \A x \in Sessions : Silent(toWallet[x], toWallet'[x], {"request"})
    BY <1>4, HearsFacts
  <2> QED BY <1>1, <1>4, <2>1, AllIdle DEF Idle, At, For
<1>5. CASE HearsConnect(s)
  BY <1>3, <1>5 DEF HearsConnect, Methods
<1>6. CASE HearsQuestion(s)
  BY <1>2, <1>3, <1>6 DEF HearsQuestion, Methods
<1>7. CASE HearsSign(s)
  BY <1>2, <1>3, <1>7 DEF HearsSign, Methods
<1>8. CASE HearsUnsubscribe(s)
  <2>1. Hears(s, "unsubscribe") /\ "unsubscribe" \in Methods
    BY <1>8 DEF HearsUnsubscribe, Methods
  <2>2. CASE ~_isRpcClientConnected(s)
    BY <1>2, <1>8, <2>1, <2>2 DEF HearsUnsubscribe
  <2>3. CASE _isRpcClientConnected(s)
    <3> DEFINE m == Head(toWallet[s])  left == subs[s] \ {m.arg}  r == Result(m, _getAccountsForClient(getAccounts, left))
    <3>1. toAepp' = Sent(toAepp, s, r) /\ tasks' = tasks
      BY <1>8, <2>3 DEF HearsUnsubscribe
    <3>2. m \in Requests /\ m.method = "unsubscribe"
      BY <2>1, HearsFacts
    <3>3. left \in SUBSET Kinds
      BY DEF Types, WalletTypes
    <3> HIDE DEF left
    <3>4. _getAccountsForClient(getAccounts, left) \in ValuesOf(m.method)
      BY <3>2, <3>3, Shown DEF ValuesOf
    <3>5. r \in Results /\ Entry(r) = Entry(m)
      BY <3>2, <3>4, MessageTypes, AnswerOf
    <3> HIDE DEF r
    <3> QED BY <1>1, <2>1, <3>1, <3>5, HeardPlaces
  <2> QED BY <2>2, <2>3
<1>9. CASE HearsGoodbye(s)
  <2>1. toAepp' = Closed(toAepp, s) /\ tasks' = tasks /\ Hears(s, "closeConnection")
    BY <1>9 DEF HearsGoodbye
  <2>2. \A x \in Sessions : Silent(toAepp[x], toAepp'[x], Responses)
    BY <2>1, LetGoFacts
  <2> QED BY <1>4, <2>1, <2>2
<1>10. CASE HearsPortClosed(s)
  BY <1>4, <1>10, SilentSame DEF HearsPortClosed
<1>11. CASE MissesAtWallet(s)
  <2>1. Silent(toWallet[s], Tail(toWallet[s]), {"request"})
    BY <1>11, SilentTail DEF MissesAtWallet, Types, QueueTypes
  <2>2. \A x \in Sessions : Silent(toWallet[x], toWallet'[x], {"request"})
    BY <1>11, <2>1, SilentSame DEF MissesAtWallet, Types, QueueTypes
  <2> QED BY <1>1, <1>11, <2>2, SilentSame, AllIdle DEF MissesAtWallet, Idle, At, For
<1> QED BY <1>5, <1>6, <1>7, <1>8, <1>9, <1>10, <1>11 DEF WalletHears

\* The first request of a session.
LEMMA ConnectPlaces ==
    ASSUME Types, PlacesInv, NEW s \in Sessions, Connect(s)
    PROVE  PlacesInv'
<1> USE DEF wallet, purse, aepp
<1> DEFINE c == [id |-> 1, method |-> "connect"]  m == Request(1, "connect", None)
<1>1. /\ lastId[s] = 0 /\ lastId' = [lastId EXCEPT ![s] = 1]
      /\ calls' = [calls EXCEPT ![s] = {c}] /\ attached' = attached \cup {s}
      /\ toWallet' = [toWallet EXCEPT ![s] = Append(@, m)]
      /\ UNCHANGED <<tasks, fetching, toAepp>>
  BY DEF Connect
<1>2. 1 \in Ids /\ "connect" \in Methods
  <2>1. setup.requests[s] \in Ids
    BY SetupAssumption DEF Types, SetupType
  <2> QED BY <2>1, BoundAssumption DEF Ids, Methods
<1>3. m \in WalletMessages /\ m.type = "request" /\ Entry(m) = c /\ c.id = 1 /\ m.id = 1
  BY <1>2 DEF WalletMessages, Requests, Request, Args, ArgsOf, Entry
<1>4. toWallet \in [Sessions -> Seq(WalletMessages)] /\ calls'[s] = {c} /\ lastId'[s] = 1
  BY <1>1 DEF Types, QueueTypes, AeppTypes
<1> HIDE DEF c, m
<1>5. ASSUME NEW x \in Sessions, x # s PROVE PlacesOK(x)'
  <2>1. calls'[x] = calls[x] /\ lastId'[x] = lastId[x] /\ toWallet'[x] = toWallet[x] /\ (x \in attached' => x \in attached)
    BY <1>1, <1>5 DEF Types, QueueTypes, AeppTypes
  <2>2. Idle(x)
    BY <1>1, <2>1, SilentSame DEF Idle, At, For
  <2> QED BY <2>2, IdlePlaces DEF PlacesInv
<1>6. PlacesOK(s)'
  <2>1. PlacesOK(s) /\ \A d \in Asked(s) \cup Tended(s) \cup Selecting(s) \cup Answered(s) : d.id \in Nat \ {0} /\ d.id <= 0
    BY <1>1, EntryIds, BoundAssumption DEF PlacesInv, PlacesOK, Placed, Ids
  <2>2. Asked(s) = {} /\ Tended(s) = {} /\ Selecting(s) = {} /\ Answered(s) = {}
    BY <2>1
  <2>3. Tended(s)' = {} /\ Selecting(s)' = {} /\ Answered(s)' = {}
    BY <1>1, <2>2 DEF Tended, Selecting, Answered
  <2>4. toWallet'[s] = Append(toWallet[s], m)
    BY <1>1, <1>4
  <2>5. Asked(s)' = {c} /\ OnceIn(toWallet'[s], {"request"})
    BY <1>3, <1>4, <2>1, <2>2, <2>4, AppendEntries, AppendOnce DEF Asked, PlacesOK
  <2>6. OnceIn(toAepp'[s], Responses) /\ OnceWaiting(s)'
    BY <1>1, <2>1 DEF PlacesOK, OnceWaiting
  <2>7. Placed({c}, {}, {}, {}, {c}, 1, s \in attached')
    BY <1>3 DEF Placed, Disjoint
  <2> QED BY <1>4, <2>3, <2>5, <2>6, <2>7 DEF PlacesOK
<1> QED BY <1>5, <1>6 DEF PlacesInv

\* Every other request of an aepp.
LEMMA CallsPlaces ==
    ASSUME Types, PlacesInv, NEW s \in Sessions, NEW method \in Methods, NEW arg \in ArgsOf(method),
           Calls(s, method, arg), UNCHANGED attached
    PROVE  PlacesInv'
<1> USE DEF wallet, purse, aepp
<1> DEFINE n == lastId[s]  c == [id |-> n + 1, method |-> method]  m == Request(n + 1, method, arg)
<1>1. /\ n \in Nat /\ n + 1 \in Ids /\ lastId' = [lastId EXCEPT ![s] = n + 1]
      /\ calls' = IF Window(s) \/ s \in attached THEN [calls EXCEPT ![s] = @ \cup {c}] ELSE calls
      /\ m \in Requests /\ toWallet' = Sent(toWallet, s, m)
      /\ UNCHANGED <<tasks, fetching, toAepp>>
  BY CallsFacts
<1>2. m \in WalletMessages /\ m.type = "request" /\ Entry(m) = c /\ c.id = n + 1 /\ m.id = n + 1
  BY <1>1 DEF WalletMessages, Request, Entry
<1>3. toWallet \in [Sessions -> Seq(WalletMessages)] /\ calls \in [Sessions -> SUBSET [id : Ids, method : Methods]]
      /\ lastId \in [Sessions -> 0..MaxRequests]
  BY DEF Types, QueueTypes, AeppTypes
<1> HIDE DEF n, c, m
<1>4. \A x \in Sessions : toWallet'[x] = IF x = s /\ Flows(s) THEN Append(toWallet[x], m) ELSE toWallet[x]
  <2> DEFINE p == Sent(toWallet, s, m)
  <2>1. /\ p \in [Sessions -> Seq(WalletMessages)]
        /\ \A x \in Sessions : p[x] = IF x = s /\ Flows(s) THEN Append(toWallet[x], m) ELSE toWallet[x]
    BY <1>2, <1>3, SentFacts
  <2>2. toWallet' = p
    BY <1>1
  <2> HIDE DEF p
  <2> QED BY <2>1, <2>2
<1>5. ASSUME NEW x \in Sessions, x # s PROVE PlacesOK(x)'
  <2>1. calls'[x] = calls[x] /\ lastId'[x] = lastId[x] /\ toWallet'[x] = toWallet[x]
    BY <1>1, <1>3, <1>4, <1>5
  <2>2. Idle(x)
    BY <1>1, <2>1, SilentSame DEF Idle, At, For
  <2> QED BY <2>2, IdlePlaces DEF PlacesInv
<1>6. PlacesOK(s)'
  <2> DEFINE A == Asked(s)  B == Tended(s)  C == Selecting(s)  D == Answered(s)  K == calls[s]  att == s \in attached
             A1 == Asked(s)'  K1 == calls'[s]
  <2>1. PlacesOK(s)
    BY DEF PlacesInv
  <2>2. OnceIn(toAepp'[s], Responses) /\ OnceWaiting(s)' /\ Tended(s)' = B /\ Selecting(s)' = C /\ Answered(s)' = D
    BY <1>1, <2>1 DEF PlacesOK, OnceWaiting, Tended, Selecting, Answered
  <2>3. lastId'[s] = n + 1 /\ K1 = IF Window(s) \/ s \in attached THEN K \cup {c} ELSE K
    BY <1>1, <1>3
  <2>4. Placed(A, B, C, D, K, n, att) /\ \A d \in A \cup B \cup C \cup D \cup K : d.id \in Nat
    BY <2>1, EntryIds DEF PlacesOK, n, Ids
  <2>5. \A d \in A : d.id # m.id
    BY <1>1, <1>2, <2>4 DEF Placed
  <2>6. /\ OnceIn(toWallet'[s], {"request"})
        /\ A1 = IF Flows(s) THEN A \cup {c} ELSE A
    <3>1. CASE ~Flows(s)
      BY <1>4, <2>1, <3>1 DEF PlacesOK, Asked
    <3>2. CASE Flows(s)
      <4>1. toWallet'[s] = Append(toWallet[s], m) /\ OnceIn(toWallet[s], {"request"})
        BY <1>4, <2>1, <3>2 DEF PlacesOK
      <4> QED BY <1>2, <1>3, <2>5, <3>2, <4>1, AppendEntries, AppendOnce DEF Asked
    <3> QED BY <3>1, <3>2
  <2>7. Flows(s) => Window(s) \/ s \in attached
    BY DEF Flows
  <2> HIDE DEF A, A1, B, C, D, K, K1, att
  <2>8. Placed(A1, B, C, D, K1, n + 1, att)
    <3>1. CASE ~(Window(s) \/ s \in attached)
      BY <1>1, <1>2, <2>3, <2>4, <2>6, <2>7, <3>1, PlacedAsks
    <3>2. CASE (Window(s) \/ s \in attached) /\ ~Flows(s)
      BY <1>1, <1>2, <2>3, <2>4, <2>6, <3>2, PlacedAsks
    <3>3. CASE Flows(s)
      BY <1>1, <1>2, <2>3, <2>4, <2>6, <2>7, <3>3, PlacedAsks
    <3> QED BY <3>1, <3>2, <3>3
  <2> QED BY <2>2, <2>3, <2>6, <2>8 DEF PlacesOK, A1, B, C, D, K1, att
<1> QED BY <1>5, <1>6 DEF PlacesInv

\* What the user of an aepp does.
LEMMA AeppUserPlaces ==
    ASSUME Types, PlacesInv, AeppUser
    PROVE  PlacesInv'
<1> USE DEF wallet, purse, aepp
<1>1. ASSUME NEW s \in Sessions, Asks(s) \/ AsksToSign(s) PROVE PlacesInv'
  <2>1. UNCHANGED aepp /\ \E method \in Methods : \E arg \in ArgsOf(method) : Calls(s, method, arg)
    BY <1>1, AsksFacts
  <2> QED BY <2>1, CallsPlaces
<1>2. ASSUME NEW s \in Sessions, Disconnect(s) PROVE PlacesInv'
  <2>1. \A x \in Sessions : Silent(toWallet[x], toWallet'[x], {"request"})
    BY <1>2, GoodbyeFacts DEF Disconnect, Goodbye
  <2>2. UNCHANGED <<tasks, fetching, calls, lastId, toAepp>> /\ attached' \subseteq attached
    BY <1>2 DEF Disconnect, LetsGo
  <2> QED BY <2>1, <2>2, SilentSame, AllIdle DEF Idle, At, For
<1> QED BY <1>1, <1>2, ConnectPlaces DEF AeppUser

\* A request whose answer came.
LEMMA SettlesPlaces ==
    ASSUME Types, PlacesInv, NEW s \in Sessions, NEW type \in Responses, NEW method, Gets(s, type, method), Settles(s),
           UNCHANGED <<tasks, fetching, lastId, attached, toWallet>>
    PROVE  PlacesInv'
<1> DEFINE i == Head(toAepp[s]).id
<1>1. /\ toAepp[s] # <<>> /\ Head(toAepp[s]).type \in Responses /\ toAepp' = [toAepp EXCEPT ![s] = Tail(@)]
      /\ \A x \in Sessions : Silent(toAepp[x], toAepp'[x], Responses)
  BY GetsFacts
<1>2. calls' = [calls EXCEPT ![s] = {c \in @ : c.id # i}]
  BY DEF Settles
<1>3. toAepp \in [Sessions -> Seq(AeppMessages)] /\ calls \in [Sessions -> SUBSET [id : Ids, method : Methods]]
  BY DEF Types, QueueTypes, AeppTypes
<1> HIDE DEF i
<1>4. ASSUME NEW x \in Sessions, x # s PROVE PlacesOK(x)'
  <2>1. calls'[x] = calls[x]
    BY <1>2, <1>3, <1>4
  <2>2. Idle(x)
    BY <1>1, <2>1, SilentSame DEF Idle, At, For
  <2> QED BY <2>2, IdlePlaces DEF PlacesInv
<1>5. PlacesOK(s)'
  <2>1. PlacesOK(s) /\ lastId[s] \in Nat
    BY EntryIds DEF PlacesInv
  <2>2. toAepp'[s] = Tail(toAepp[s]) /\ calls'[s] = {c \in calls[s] : c.id # i}
    BY <1>1, <1>2, <1>3
  <2>3. /\ Entries(Tail(toAepp[s]), Responses) \subseteq Entries(toAepp[s], Responses)
        /\ OnceIn(Tail(toAepp[s]), Responses)
        /\ Entry(Head(toAepp[s])) \in Entries(toAepp[s], Responses)
        /\ \A c \in Entries(Tail(toAepp[s]), Responses) : c.id # Head(toAepp[s]).id
    BY <1>1, <1>3, <2>1, TailEntries DEF PlacesOK
  <2>4. Entry(Head(toAepp[s])).id = i
    BY DEF Entry, i
  <2>5. /\ Answered(s)' \subseteq Answered(s) /\ (\A d \in Answered(s)' : d.id # i)
        /\ \E d \in Answered(s) : d.id = i
    BY <2>2, <2>3, <2>4 DEF Answered, i
  <2>6. OnceWaiting(s)' /\ Tended(s)' = Tended(s) /\ Selecting(s)' = Selecting(s) /\ Asked(s)' = Asked(s)
    BY <2>1 DEF PlacesOK, OnceWaiting, Tended, Selecting, Asked
  <2>7. OnceIn(toWallet'[s], {"request"}) /\ OnceIn(toAepp'[s], Responses)
    BY <2>1, <2>2, <2>3 DEF PlacesOK
  <2> DEFINE A == Asked(s)  B == Tended(s)  C == Selecting(s)  D == Answered(s)  D1 == Answered(s)'  K == calls[s]
             att == s \in attached  n == lastId[s]
  <2>8. Placed(A, B, C, D, K, n, att) /\ n \in Nat /\ D1 \subseteq D /\ (\A d \in D1 : d.id # i) /\ \E d \in D : d.id = i
    BY <2>1, <2>5 DEF PlacesOK
  <2> HIDE DEF A, B, C, D, D1, K, att, n
  <2>9. Placed(A, B, C, D1, {d \in K : d.id # i}, n, att)
    BY <2>8 DEF Placed, Disjoint
  <2> QED BY <2>2, <2>6, <2>7, <2>9 DEF PlacesOK, A, B, C, D1, K, att, n
<1> QED BY <1>4, <1>5 DEF PlacesInv

\* An aepp gets a message.
LEMMA AeppHearsPlaces ==
    ASSUME Types, PlacesInv, NEW s \in Sessions, AeppHears(s)
    PROVE  PlacesInv'
<1> USE DEF wallet, purse, aepp
<1>1. UNCHANGED <<tasks, fetching, lastId>>
  BY DEF AeppHears
<1>2. ASSUME NEW type \in Responses, NEW method, Gets(s, type, method), Settles(s), UNCHANGED <<attached, toWallet>>
      PROVE  PlacesInv'
  BY <1>1, <1>2, SettlesPlaces
<1>3. ASSUME NEW type, NEW method, Gets(s, type, method), UNCHANGED calls, attached' \subseteq attached,
             \A x \in Sessions : Silent(toWallet[x], toWallet'[x], {"request"})
      PROVE  PlacesInv'
  <2>1. \A x \in Sessions : Silent(toAepp[x], toAepp'[x], Responses)
    BY <1>3, GetsFacts
  <2> QED BY <1>1, <1>3, <2>1, AllIdle DEF Idle, At, For
<1>4. CASE GetsWalletInfo(s)
  BY <1>2, <1>4 DEF GetsWalletInfo, Responses
<1>5. CASE GetsSubscription(s)
  BY <1>2, <1>5 DEF GetsSubscription, Responses
<1>6. CASE GetsAnswer(s)
  BY <1>2, <1>6 DEF GetsAnswer, Responses
<1>7. CASE GetsAccounts(s)
  BY <1>3, <1>7, SilentSame DEF GetsAccounts
<1>8. CASE GetsNetwork(s)
  BY <1>3, <1>8, SilentSame DEF GetsNetwork
<1>9. CASE GetsGoodbye(s)
  <2>1. \A x \in Sessions : Silent(toWallet[x], toWallet'[x], {"request"})
    BY <1>9, GoodbyeFacts DEF GetsGoodbye
  <2> QED BY <1>3, <1>9, <2>1 DEF GetsGoodbye, LetsGo
<1>10. CASE GetsPortClosed(s)
  BY <1>3, <1>10, SilentSame DEF GetsPortClosed
<1>11. CASE MissesAtAepp(s)
  <2>1. Silent(toAepp[s], Tail(toAepp[s]), Responses)
    BY <1>11, SilentTail DEF MissesAtAepp, Types, QueueTypes
  <2>2. \A x \in Sessions : Silent(toAepp[x], toAepp'[x], Responses)
    BY <1>11, <2>1, SilentSame DEF MissesAtAepp, Types, QueueTypes
  <2> QED BY <1>1, <1>11, <2>2, SilentSame, AllIdle DEF MissesAtAepp, Idle, At, For
<1> QED BY <1>4, <1>5, <1>6, <1>7, <1>8, <1>9, <1>10, <1>11 DEF AeppHears

\* Every step leaves every request in one place at most.
LEMMA PlacesStep == Types /\ PlacesInv /\ [Next]_vars => PlacesInv'
<1> SUFFICES ASSUME Types, PlacesInv, [Next]_vars PROVE PlacesInv'
  OBVIOUS
<1>1. CASE UNCHANGED vars
  BY <1>1, SilentSame, AllIdle DEF vars, rest, wallet, purse, aepp, Idle, At, For
<1> QED BY <1>1, WalletUserPlaces, WalletNodePlaces, AeppUserPlaces, ProceedsPlaces, WalletHearsPlaces, AeppHearsPlaces
        DEF Next

-----------------------------------------------------------------------------
(* The ends agree on whether they are connected *)

\* What is chosen once.
LEMMA SetupSame ==
    ASSUME UNCHANGED setup
    PROVE  /\ \A x : Owner(x)' = Owner(x) /\ Window(x)' = Window(x) /\ SessionsOf(x)' = SessionsOf(x) /\ Sdk(x)' = Sdk(x)
BY DEF Owner, Window, SessionsOf, Sdk

\* A step of the wallet: it takes up new sessions only, and it alone closes
\* a port that it lets go of.
LEMMA HeldWallet ==
    ASSUME Types, HeldInv, UNCHANGED <<setup, aepp, lastId>>,
           \A x \in Sessions :
             /\ status[x] # "new" => status'[x] # "new"
             /\ x \in heard' => x \in heard \/ status[x] = "new"
             /\ Has(toAepp'[x], PortClosed) =>
                  Has(toAepp[x], PortClosed) \/ (~Window(x) /\ x \notin heard' /\ status'[x] # "new")
             /\ Window(x) /\ x \in known' => (x \in known /\ heard' = heard) \/ x \in heard'
    PROVE  HeldInv'
<1> SUFFICES ASSUME NEW s \in Sessions PROVE HeldOK(s)'
  BY DEF HeldInv
<1>1. HeldOK(s)
  BY DEF HeldInv
<1>2. UNCHANGED <<setup, rpc, attached, accepted, overlapped, lastId>>
  BY DEF aepp
<1>3. \A x : Owner(x)' = Owner(x) /\ Window(x)' = Window(x) /\ SessionsOf(x)' = SessionsOf(x) /\ Sdk(x)' = Sdk(x)
  BY <1>2, SetupSame
<1>4. PortGone(s) /\ status[s] # "new" => PortGone(s)'
  BY <1>3 DEF PortGone
<1>5. Begun(s)'
  <2>1. s \in attached \cup accepted => lastId[s] > 0 /\ status'[s] # "new"
    BY <1>1 DEF HeldOK, Begun
  <2>2. Has(toAepp'[s], PortClosed) => PortGone(s)' /\ status'[s] # "new"
    BY <1>1, <1>3, <1>4 DEF HeldOK, Begun, PortGone
  <2> QED BY <1>2, <2>1, <2>2 DEF Begun
<1>6. Apart(s)'
  BY <1>1, <1>2, <1>3 DEF HeldOK, Apart
<1>7. Holds(s)'
  <2>1. Alone(s)' = Alone(s)
    BY <1>2, <1>3 DEF Alone
  <2>2. s \in attached => status[s] # "new"
    BY <1>1 DEF HeldOK, Begun
  <2> QED BY <1>1, <1>2, <1>3, <1>4, <2>1, <2>2 DEF HeldOK, Holds
<1>8. Window(s)' /\ s \in known' => s \in heard'
  BY <1>1, <1>3 DEF HeldOK
<1> QED BY <1>5, <1>6, <1>7, <1>8 DEF HeldOK

\* A step of an aepp that leaves its sessions as they are, or changes what the
\* one client of an aepp is.
LEMMA HeldAepp ==
    ASSUME Types, HeldInv, UNCHANGED <<setup, wallet>>,
           \A x \in Sessions : /\ lastId[x] > 0 => lastId'[x] > 0
                               /\ x \in attached' \cup accepted' => lastId'[x] > 0 /\ status[x] # "new"
                               /\ Has(toAepp'[x], PortClosed) => Has(toAepp[x], PortClosed)
                               /\ Apart(x)' /\ Holds(x)'
    PROVE  HeldInv'
<1> SUFFICES ASSUME NEW s \in Sessions PROVE HeldOK(s)'
  BY DEF HeldInv
<1>1. HeldOK(s)
  BY DEF HeldInv
<1>2. UNCHANGED <<setup, known, heard, status>>
  BY DEF wallet
<1>3. \A x : Owner(x)' = Owner(x) /\ Window(x)' = Window(x) /\ SessionsOf(x)' = SessionsOf(x) /\ Sdk(x)' = Sdk(x)
  BY <1>2, SetupSame
<1>4. PortGone(s)' = PortGone(s)
  BY <1>2, <1>3 DEF PortGone
<1>5. Begun(s)'
  BY <1>1, <1>2, <1>4 DEF HeldOK, Begun
<1>6. Window(s)' /\ s \in known' => s \in heard'
  BY <1>1, <1>2, <1>3 DEF HeldOK
<1> QED BY <1>5, <1>6 DEF HeldOK

\* What is so of every session before a step.
LEMMA HeldFacts ==
    ASSUME HeldInv, NEW s \in Sessions
    PROVE  /\ s \in attached \cup accepted => lastId[s] > 0 /\ status[s] # "new"
           /\ Has(toAepp[s], PortClosed) => PortGone(s) /\ status[s] # "new"
           /\ \A x \in attached \ {s} : s \in attached /\ Owner(x) = Owner(s) => Owner(s) \in overlapped
           /\ s \in attached /\ Alone(s) /\ (s \in accepted \/ ~Sdk(Owner(s))) => rpc[Owner(s)] = s \/ PortGone(s)
           /\ Window(s) /\ rpc[Owner(s)] = s => s \in attached
           /\ Window(s) /\ s \in known => s \in heard
BY DEF HeldInv, HeldOK, Begun, Apart, Holds

\* An aepp that had one session attached still has one at most.
LEMMA AloneBefore ==
    ASSUME Types, HeldInv, NEW s \in Sessions, UNCHANGED setup, Alone(s)', s \in attached, overlapped \subseteq overlapped'
    PROVE  Alone(s) /\ Owner(s) \notin overlapped'
<1>1. \A x : Owner(x)' = Owner(x) /\ SessionsOf(x)' = SessionsOf(x)
  BY SetupSame
<1>2. Owner(s) \notin overlapped'
  BY <1>1 DEF Alone
<1>3. \A x \in attached : Owner(x) = Owner(s) => x = s
  BY <1>2, HeldFacts
<1>4. SessionsOf(Owner(s)) \cap attached = {s}
  BY <1>3 DEF SessionsOf
<1> QED BY <1>2, <1>4 DEF Alone

\* An aepp that lets go of a session.
LEMMA HeldLetsGo ==
    ASSUME Types, HeldInv, NEW s \in Sessions, s \in attached, LetsGo(s),
           UNCHANGED <<setup, wallet, accepted, overlapped, lastId>>,
           \A x \in Sessions : Has(toAepp'[x], PortClosed) => Has(toAepp[x], PortClosed)
    PROVE  HeldInv'
<1>1. /\ attached' = attached \ {s}
      /\ rpc' = IF Window(s) THEN [rpc EXCEPT ![Owner(s)] = None] ELSE rpc
  BY DEF LetsGo, OnDisconnect
<1>2. /\ \A x : Owner(x)' = Owner(x) /\ Window(x)' = Window(x) /\ SessionsOf(x)' = SessionsOf(x) /\ Sdk(x)' = Sdk(x)
      /\ heard' = heard /\ status' = status
  BY SetupSame DEF wallet
<1>3. rpc \in [Aepps -> Sessions \cup {None}] /\ \A x \in Sessions : Owner(x) \in Aepps
  BY SetupAssumption DEF Types, AeppTypes, SetupType, Owner
<1>4. ASSUME NEW x \in Sessions PROVE Apart(x)'
  BY <1>1, <1>2, HeldFacts DEF Apart
<1>5. ASSUME NEW x \in Sessions PROVE Holds(x)'
  <2>1. ASSUME x \in attached', Alone(x)', x \in accepted \/ ~Sdk(Owner(x)) PROVE rpc'[Owner(x)] = x \/ PortGone(x)'
    <3>1. x # s /\ x \in attached
      BY <1>1, <2>1
    <3>2. Alone(x) /\ Owner(x) \notin overlapped
      BY <2>1, <3>1, AloneBefore
    <3>3. Owner(x) # Owner(s)
      BY <3>1, <3>2, HeldFacts
    <3>4. rpc'[Owner(x)] = rpc[Owner(x)]
      BY <1>1, <1>3, <3>3
    <3>5. rpc[Owner(x)] = x \/ PortGone(x)
      BY <2>1, <3>1, <3>2, HeldFacts
    <3> QED BY <1>2, <3>4, <3>5 DEF PortGone
  <2>2. ASSUME Window(x), rpc'[Owner(x)] = x PROVE x \in attached'
    <3>1. x # None
      BY NoneAssumption
    <3>2. x # s /\ rpc[Owner(x)] = x
      BY <1>1, <1>3, <2>2, <3>1
    <3> QED BY <1>1, <2>2, <3>2, HeldFacts
  <2> QED BY <1>2, <2>1, <2>2 DEF Holds
<1>6. \A x \in Sessions : x \in attached' \cup accepted' => lastId'[x] > 0 /\ status[x] # "new"
  BY <1>1, HeldFacts
<1> QED BY <1>4, <1>5, <1>6, HeldAepp

\* An aepp that is told that it is connected, or that a port is closed.
LEMMA HeldTold ==
    ASSUME Types, HeldInv, NEW s \in Sessions, s \in attached,
           \/ rpc' = [rpc EXCEPT ![Owner(s)] = s]
           \/ rpc' = rpc /\ ~Sdk(Owner(s))
           \/ rpc' = [rpc EXCEPT ![Owner(s)] = None] /\ PortGone(s),
           accepted \subseteq accepted', accepted' \subseteq accepted \cup {s},
           UNCHANGED <<setup, wallet, attached, overlapped, lastId>>,
           \A x \in Sessions : Has(toAepp'[x], PortClosed) => Has(toAepp[x], PortClosed)
    PROVE  HeldInv'
<1>1. /\ \A x : Owner(x)' = Owner(x) /\ Window(x)' = Window(x) /\ SessionsOf(x)' = SessionsOf(x) /\ Sdk(x)' = Sdk(x)
      /\ heard' = heard /\ status' = status
  BY SetupSame DEF wallet
<1>2. rpc \in [Aepps -> Sessions \cup {None}] /\ \A x \in Sessions : Owner(x) \in Aepps
  BY SetupAssumption DEF Types, AeppTypes, SetupType, Owner
<1>3. ASSUME NEW x \in Sessions PROVE Apart(x)'
  BY <1>1, HeldFacts DEF Apart
<1>4. ASSUME NEW x \in Sessions PROVE Holds(x)'
  <2>1. ASSUME x \in attached, Alone(x)', x \in accepted' \/ ~Sdk(Owner(x)) PROVE rpc'[Owner(x)] = x \/ PortGone(x)'
    <3>1. Alone(x) /\ Owner(x) \notin overlapped
      BY <2>1, AloneBefore
    <3>2. CASE x = s
      BY <1>1, <1>2, <2>1, <3>1, <3>2, HeldFacts DEF PortGone
    <3>3. CASE x # s
      <4>1. Owner(x) # Owner(s)
        BY <2>1, <3>1, <3>3, HeldFacts
      <4>2. rpc'[Owner(x)] = rpc[Owner(x)]
        BY <1>2, <4>1
      <4>3. rpc[Owner(x)] = x \/ PortGone(x)
        BY <2>1, <3>1, <3>3, HeldFacts
      <4> QED BY <1>1, <4>2, <4>3 DEF PortGone
    <3> QED BY <3>2, <3>3
  <2>2. ASSUME Window(x), rpc'[Owner(x)] = x PROVE x \in attached
    <3>1. x # None
      BY NoneAssumption
    <3>2. x = s \/ rpc[Owner(x)] = x
      BY <1>2, <2>2, <3>1
    <3> QED BY <2>2, <3>2, HeldFacts
  <2> QED BY <1>1, <2>1, <2>2 DEF Holds
<1>5. \A x \in Sessions : x \in attached' \cup accepted' => lastId'[x] > 0 /\ status[x] # "new"
  BY HeldFacts
<1> QED BY <1>3, <1>4, <1>5, HeldAepp

\* The wallet's own steps.
LEMMA HeldWalletUser ==
    ASSUME Types, HeldInv, WalletUser
    PROVE  HeldInv'
<1> USE DEF wallet, purse
<1>1. ASSUME UNCHANGED <<setup, aepp, lastId, known, status, heard>>,
             \A x \in Sessions : NoneClosed(toAepp[x], toAepp'[x])
      PROVE  HeldInv'
  BY <1>1, HeldWallet DEF NoneClosed
<1>2. ASSUME NEW s \in Sessions, AddRpcClient(s) PROVE HeldInv'
  <2>1. /\ status[s] = "new" /\ heard' = heard \cup {s} /\ known' = known \cup {s} /\ toAepp' = toAepp
        /\ UNCHANGED <<setup, aepp, lastId>> /\ \A x \in Sessions : status[x] # "new" => status'[x] # "new"
    BY <1>2 DEF AddRpcClient, Types, WalletTypes
  <2>2. \A x \in Sessions : Window(x) /\ x \in known' => x \in heard'
    BY <2>1, HeldFacts
  <2> QED BY <2>1, <2>2, HeldWallet
<1>3. ASSUME NEW s \in Sessions, NEW bye \in BOOLEAN, RemoveRpcClient(s, bye) PROVE HeldInv'
  <2>1. toAepp' = Closed(toAepp, s) \/ toAepp' = Closed(Sent(toAepp, s, Goodbye), s)
    BY <1>3 DEF RemoveRpcClient, Goodbye
  <2>2. \A x \in Sessions : Has(toAepp'[x], PortClosed) => Has(toAepp[x], PortClosed) \/ (x = s /\ ~Window(s))
    BY <2>1, LetGoFacts
  <2>3. /\ heard' = heard \ {s} /\ known' = known \ {s} /\ UNCHANGED <<setup, aepp, lastId>>
        /\ status'[s] # "new" /\ \A x \in Sessions : status[x] # "new" => status'[x] # "new"
    BY <1>3 DEF RemoveRpcClient, Dropped, Types, WalletTypes
  <2>4. \A x \in Sessions : Window(x) /\ x \in known' => x \in heard'
    BY <2>3, HeldFacts
  <2> QED BY <2>2, <2>3, <2>4, HeldWallet
<1>4. ASSUME NEW added \in SUBSET Accounts, NEW chosen \in Accounts \cup {None}, NEW times \in {1, 2},
             PurseChange(added, chosen, times)
      PROVE  HeldInv'
  <2>1. [current |-> IF chosen = None THEN {} ELSE {chosen}, connected |-> added \ {chosen}] \in Views
    BY DEF Views
  <2>2. \A x \in Sessions : NoneClosed(toAepp[x], toAepp'[x])
    BY <1>4, <2>1, PushFacts DEF PurseChange, Types
  <2> QED BY <1>1, <1>4, <2>2 DEF PurseChange
<1>5. ASSUME NEW a \in Accounts, selectAccount(a) PROVE HeldInv'
  <2>1. accounts \in SUBSET Accounts /\ PurseChange(accounts, a, 1)
    BY <1>5 DEF selectAccount, Types, WalletTypes
  <2> QED BY <1>4, <2>1
<1>6. ASSUME NEW a \in Accounts, NEW select \in BOOLEAN, addAccount(a, select) PROVE HeldInv'
  <2>1. PurseChange(accounts \cup {a}, IF select THEN a ELSE selected, IF select THEN 2 ELSE 1)
    BY <1>6 DEF addAccount
  <2>2. accounts \cup {a} \in SUBSET Accounts /\ (IF select THEN a ELSE selected) \in Accounts \cup {None}
    BY DEF Types, WalletTypes
  <2> QED BY <1>4, <2>1, <2>2
<1>7. ASSUME NEW a \in Accounts, removeAccount(a) PROVE HeldInv'
  BY <1>1, <1>7 DEF removeAccount, NoneClosed
<1>8. ASSUME NEW n \in Nodes, selectNode(n) PROVE HeldInv'
  BY <1>1, <1>8 DEF selectNode, NoneClosed
<1> QED BY <1>2, <1>3, <1>5, <1>6, <1>7, <1>8 DEF WalletUser

\* What the node answers, or does not.
LEMMA HeldWalletNode ==
    ASSUME Types, HeldInv, WalletNode
    PROVE  HeldInv'
<1> USE DEF wallet, purse
<1>1. ASSUME UNCHANGED <<setup, aepp, lastId, known, status, heard>>,
             \A x \in Sessions : NoneClosed(toAepp[x], toAepp'[x])
      PROVE  HeldInv'
  BY <1>1, HeldWallet DEF NoneClosed
<1>2. ASSUME NEW f \in fetching, NetworkSelected(f) PROVE HeldInv'
  <2> DEFINE pushed == SentAll(toAepp, [s \in {x \in Sessions : _isRpcClientConnected(x)} |->
                                   Notification("updateNetwork", [networkId |-> f.node, node |-> node])])
             q == toAepp'
  <2>1. f \in FetchSet
    BY DEF Types, WalletTypes
  <2>2. /\ pushed \in [Sessions -> Seq(AeppMessages)]
        /\ \A x \in Sessions : NoneClosed(toAepp[x], pushed[x])
    BY <2>1, NetworkPushed
  <2>3. q = IF f.for.s = None THEN pushed ELSE Sent(pushed, f.for.s, Result(f.for, "null"))
    BY <1>2 DEF NetworkSelected
  <2> HIDE DEF pushed, q
  <2>4. \A x \in Sessions : NoneClosed(pushed[x], q[x])
    BY <2>1, <2>2, <2>3, NetworkAnswered
  <2>5. \A x \in Sessions : NoneClosed(toAepp[x], toAepp'[x])
    BY <2>2, <2>4 DEF NoneClosed, q
  <2> QED BY <1>1, <1>2, <2>5 DEF NetworkSelected
<1>3. ASSUME NEW f \in fetching, NetworkUnknown(f) PROVE HeldInv'
  <2> DEFINE q == toAepp'
  <2>1. f \in FetchSet /\ toAepp \in [Sessions -> Seq(AeppMessages)]
    BY DEF Types, WalletTypes, QueueTypes
  <2>2. q = IF f.for.s = None THEN toAepp ELSE Sent(toAepp, f.for.s, Failure(f.for, "internal"))
    BY <1>3 DEF NetworkUnknown
  <2> HIDE DEF q
  <2>3. \A x \in Sessions : NoneClosed(toAepp[x], q[x])
    BY <2>1, <2>2, NetworkAnswered
  <2> QED BY <1>1, <1>3, <2>3 DEF NetworkUnknown, q
<1>4. ASSUME NEW t \in tasks, NodeFails(t) PROVE HeldInv'
  <2> DEFINE r == Failure(t, "internal")  p == Sent(toAepp, t.s, r)
  <2>1. t \in TaskSet /\ t.s \in Sessions /\ r \in Failures
    BY AnswerOf DEF Types, WalletTypes, TaskSet
  <2>2. toAepp' = p /\ UNCHANGED <<setup, aepp, lastId, known, status, heard>>
    BY <1>4 DEF NodeFails, WalletInfoFails, Answers
  <2> HIDE DEF r
  <2>3. \A x \in Sessions : NoneClosed(toAepp[x], p[x])
    BY <2>1, ResponseFacts DEF Types, QueueTypes
  <2> QED BY <1>1, <2>2, <2>3
<1> QED BY <1>2, <1>3, <1>4 DEF WalletNode

\* The wallet goes on after an await.
LEMMA HeldProceeds ==
    ASSUME Types, HeldInv, NEW t \in tasks, Proceeds(t)
    PROVE  HeldInv'
<1>1. UNCHANGED <<setup, aepp, lastId>>
  BY DEF Proceeds
<1>2. known' = known /\ heard' = heard /\ \A x \in Sessions : status[x] # "new" => status'[x] # "new"
  BY DEF Proceeds, wallet, Types, WalletTypes, UserRejects, ConnectionAccepted, WalletInfoSent, SubscriptionAccepted,
         AccountsShown, NetworkAccepted, AccountResolved, Signed
<1>3. \A x \in Sessions : Has(toAepp'[x], PortClosed) => Has(toAepp[x], PortClosed)
  <2>1. /\ t \in TaskSet /\ t.s \in Sessions /\ t.id \in Ids /\ t.method \in Methods
        /\ t.arg \in ArgsOf(t.method) /\ t.node \in Nodes /\ node \in Nodes
    BY DEF TaskSet, Types, WalletTypes
  <2>2. ASSUME NEW r, r # PortClosed, Answers(t, r) PROVE \A x \in Sessions : Has(toAepp'[x], PortClosed) => Has(toAepp[x], PortClosed)
    <3>1. toAepp' = Sent(toAepp, t.s, r) /\ toAepp \in [Sessions -> Seq(AeppMessages)]
      BY <2>2 DEF Answers, Types, QueueTypes
    <3>2. \A x \in Sessions : toAepp'[x] \in {toAepp[x], Append(toAepp[x], r)}
      BY <3>1 DEF Sent
    <3> DEFINE S == AeppMessages \cup {r}
    <3>3. \A x \in Sessions : toAepp[x] \in Seq(S)
      <4>1. \A q \in Seq(AeppMessages) : q \in Seq(S)
        BY SeqDef
      <4> QED BY <3>1, <4>1
    <3>4. r \in S
      OBVIOUS
    <3> HIDE DEF S
    <3>5. \A x \in Sessions : Has(Append(toAepp[x], r), PortClosed) => Has(toAepp[x], PortClosed)
      BY <2>2, <3>3, <3>4, HasAppend
    <3> QED BY <3>2, <3>5
  <2>3. \A v : Result(t, v) # PortClosed /\ Failure(t, v) # PortClosed
    BY DEF Result, Failure, PortClosed
  <2>4. CASE toAepp' = toAepp
    BY <2>4
  <2>5. CASE toAepp' # toAepp
    BY <2>2, <2>3, <2>5 DEF Proceeds, UserRejects, ConnectionAccepted, WalletInfoSent, SubscriptionAccepted,
         AccountsShown, NetworkAccepted, AccountResolved, Signed
  <2> QED BY <2>4, <2>5
<1> QED BY <1>1, <1>2, <1>3, HeldWallet

\* The wallet gets a message.
LEMMA HeldWalletHears ==
    ASSUME Types, HeldInv, NEW s \in Sessions, WalletHears(s)
    PROVE  HeldInv'
<1>1. UNCHANGED <<setup, aepp, lastId>>
  BY DEF WalletHears
<1>2. ASSUME UNCHANGED <<known, status, heard>>, \A x \in Sessions : NoneClosed(toAepp[x], toAepp'[x]) PROVE HeldInv'
  BY <1>1, <1>2, HeldWallet DEF NoneClosed
<1>3. ASSUME NEW method \in Methods, Hears(s, method), NEW why \in {"notAuthorized", "permissionDeny"}, Refuses(s, why)
      PROVE  HeldInv'
  <2> DEFINE r == Failure(Head(toWallet[s]), why)  p == Sent(toAepp, s, r)
  <2>1. Head(toWallet[s]) \in Requests
    BY <1>3, HearsFacts
  <2>2. r \in Failures /\ toAepp' = p
    BY <1>3, <2>1, MessageTypes, AnswerOf DEF Refuses
  <2> HIDE DEF r
  <2>3. \A x \in Sessions : NoneClosed(toAepp[x], p[x])
    BY <2>2, ResponseFacts DEF Types, QueueTypes
  <2> QED BY <1>2, <1>3, <2>2, <2>3 DEF Refuses, wallet
<1>4. ASSUME NEW stage, Awaits(s, stage) PROVE HeldInv'
  BY <1>2, <1>4 DEF Awaits, wallet, NoneClosed
<1>5. CASE HearsConnect(s)
  BY <1>4, <1>5 DEF HearsConnect
<1>6. CASE HearsQuestion(s)
  BY <1>3, <1>4, <1>6 DEF HearsQuestion, Methods
<1>7. CASE HearsSign(s)
  BY <1>3, <1>4, <1>7 DEF HearsSign, Methods
<1>8. CASE HearsUnsubscribe(s)
  <2>1. Hears(s, "unsubscribe") /\ "unsubscribe" \in Methods
    BY <1>8 DEF HearsUnsubscribe, Methods
  <2>2. CASE ~_isRpcClientConnected(s)
    BY <1>3, <1>8, <2>1, <2>2 DEF HearsUnsubscribe
  <2>3. CASE _isRpcClientConnected(s)
    <3> DEFINE m == Head(toWallet[s])  left == subs[s] \ {m.arg}  r == Result(m, _getAccountsForClient(getAccounts, left))
               p == Sent(toAepp, s, r)
    <3>1. toAepp' = p /\ UNCHANGED <<known, status, heard>>
      BY <1>8, <2>3 DEF HearsUnsubscribe
    <3>2. m \in Requests /\ m.method = "unsubscribe"
      BY <2>1, HearsFacts
    <3>3. left \in SUBSET Kinds
      BY DEF Types, WalletTypes
    <3> HIDE DEF left
    <3>4. _getAccountsForClient(getAccounts, left) \in ValuesOf(m.method)
      BY <3>2, <3>3, Shown DEF ValuesOf
    <3>5. r \in Results
      BY <3>2, <3>4, MessageTypes, AnswerOf
    <3> HIDE DEF r
    <3>6. \A x \in Sessions : NoneClosed(toAepp[x], p[x])
      BY <3>5, ResponseFacts DEF Types, QueueTypes
    <3> QED BY <1>2, <3>1, <3>6
  <2> QED BY <2>2, <2>3
<1>9. CASE HearsGoodbye(s)
  <2>1. /\ heard' = heard \ {s} /\ known' = (IF Window(s) THEN known \ {s} ELSE known)
        /\ status'[s] # "new" /\ \A x \in Sessions : status[x] # "new" => status'[x] # "new"
    BY <1>9 DEF HearsGoodbye, Dropped, Types, WalletTypes
  <2>2. \A x \in Sessions : Has(toAepp'[x], PortClosed) => Has(toAepp[x], PortClosed) \/ (x = s /\ ~Window(s))
    BY <1>9, LetGoFacts DEF HearsGoodbye
  <2>3. \A x \in Sessions : Window(x) /\ x \in known' => x \in heard'
    BY <2>1, HeldFacts
  <2> QED BY <1>1, <2>1, <2>2, <2>3, HeldWallet
<1>10. CASE HearsPortClosed(s)
  <2>1. known' = known \ {s} /\ UNCHANGED <<status, heard, toAepp>>
    BY <1>10 DEF HearsPortClosed
  <2> QED BY <1>1, <2>1, HeldWallet
<1>11. CASE MissesAtWallet(s)
  BY <1>2, <1>11 DEF MissesAtWallet, wallet, NoneClosed
<1> QED BY <1>5, <1>6, <1>7, <1>8, <1>9, <1>10, <1>11 DEF WalletHears

\* An aepp that begins a session.
LEMMA HeldConnect ==
    ASSUME Types, HeldInv, NEW s \in Sessions, Connect(s)
    PROVE  HeldInv'
<1> DEFINE a == Owner(s)
<1>1. /\ lastId[s] = 0 /\ status[s] # "new" /\ (~Sdk(a) => \A other \in SessionsOf(a) : lastId[other] = 0)
      /\ attached' = attached \cup {s} /\ accepted' = accepted
      /\ rpc' = IF Sdk(a) THEN rpc ELSE [rpc EXCEPT ![a] = s]
      /\ overlapped' = IF SessionsOf(a) \cap attached # {} THEN overlapped \cup {a} ELSE overlapped
      /\ lastId' = [lastId EXCEPT ![s] = 1]
      /\ UNCHANGED <<setup, wallet, toAepp>>
  BY DEF Connect
<1>2. /\ \A x : Owner(x)' = Owner(x) /\ Window(x)' = Window(x) /\ SessionsOf(x)' = SessionsOf(x) /\ Sdk(x)' = Sdk(x)
      /\ heard' = heard /\ status' = status
  BY <1>1, SetupSame DEF wallet
<1>3. /\ rpc \in [Aepps -> Sessions \cup {None}] /\ \A x \in Sessions : Owner(x) \in Aepps
      /\ lastId \in [Sessions -> 0..MaxRequests]
  BY SetupAssumption DEF Types, AeppTypes, SetupType, Owner
<1>4. s \notin attached /\ s \notin accepted
  BY <1>1, HeldFacts
<1>5. s \in SessionsOf(a) /\ \A x \in Sessions : x \in SessionsOf(a) <=> Owner(x) = a
  BY DEF SessionsOf
<1> HIDE DEF a
<1>6. ASSUME NEW x \in Sessions PROVE Apart(x)'
  <2>1. ASSUME NEW y \in attached' \ {x}, x \in attached', Owner(y) = Owner(x) PROVE Owner(x) \in overlapped'
    <3>1. CASE x \in attached /\ y \in attached
      BY <1>1, <2>1, <3>1, HeldFacts
    <3>2. CASE x = s \/ y = s
      <4>1. Owner(x) = a /\ (x \in attached \/ y \in attached) /\ Owner(y) = a
        BY <1>1, <2>1, <3>2 DEF a
      <4>2. SessionsOf(a) \cap attached # {}
        BY <1>5, <4>1 DEF Types, AeppTypes
      <4> QED BY <1>1, <4>1, <4>2
    <3> QED BY <1>1, <2>1, <3>1, <3>2
  <2> QED BY <1>2, <2>1 DEF Apart
<1>7. ASSUME NEW x \in Sessions PROVE Holds(x)'
  <2>1. ASSUME x \in attached', Alone(x)', x \in accepted \/ ~Sdk(Owner(x)) PROVE rpc'[Owner(x)] = x \/ PortGone(x)'
    <3>1. CASE x = s
      <4>1. Owner(x) = a /\ ~Sdk(a)
        BY <1>4, <2>1, <3>1 DEF a
      <4> QED BY <1>1, <1>3, <3>1, <4>1
    <3>2. CASE x # s
      <4>1. x \in attached
        BY <1>1, <2>1, <3>2
      <4>2. Alone(x) /\ Owner(x) \notin overlapped'
        BY <1>1, <2>1, <4>1, AloneBefore
      <4>3. Owner(x) # a
        <5>1. SessionsOf(Owner(x)) \cap attached' = {x}
          BY <1>2, <2>1 DEF Alone
        <5> QED BY <1>1, <1>5, <3>2, <5>1
      <4>4. rpc'[Owner(x)] = rpc[Owner(x)]
        BY <1>1, <1>3, <4>3
      <4>5. rpc[Owner(x)] = x \/ PortGone(x)
        BY <2>1, <4>1, <4>2, HeldFacts
      <4> QED BY <1>2, <4>4, <4>5 DEF PortGone
    <3> QED BY <3>1, <3>2
  <2>2. ASSUME Window(x), rpc'[Owner(x)] = x PROVE x \in attached'
    <3>1. x = s \/ rpc[Owner(x)] = x
      BY <1>1, <1>3, <2>2
    <3> QED BY <1>1, <2>2, <3>1, HeldFacts
  <2> QED BY <1>1, <1>2, <2>1, <2>2 DEF Holds
<1>8. \A x \in Sessions : /\ lastId[x] > 0 => lastId'[x] > 0
                          /\ x \in attached' \cup accepted' => lastId'[x] > 0 /\ status[x] # "new"
  BY <1>1, <1>3, HeldFacts
<1> QED BY <1>1, <1>6, <1>7, <1>8, HeldAepp

\* What the user of an aepp does.
LEMMA HeldAeppUser ==
    ASSUME Types, HeldInv, AeppUser
    PROVE  HeldInv'
<1>1. ASSUME NEW s \in Sessions, Asks(s) \/ AsksToSign(s) PROVE HeldInv'
  <2>1. UNCHANGED aepp /\ \E method \in Methods : \E arg \in ArgsOf(method) : Calls(s, method, arg)
    BY <1>1, AsksFacts
  <2>2. UNCHANGED <<setup, wallet, toAepp>> /\ lastId' = [lastId EXCEPT ![s] = lastId[s] + 1] /\ lastId[s] \in Nat
    BY <2>1, CallsFacts
  <2>3. UNCHANGED <<rpc, attached, accepted, overlapped>> /\ \A x \in Sessions : lastId[x] > 0 => lastId'[x] > 0
    BY <2>1, <2>2 DEF aepp, Types, AeppTypes
  <2>4. /\ \A x : Owner(x)' = Owner(x) /\ Window(x)' = Window(x) /\ SessionsOf(x)' = SessionsOf(x) /\ Sdk(x)' = Sdk(x)
        /\ heard' = heard
    BY <2>2, SetupSame DEF wallet
  <2>5. ASSUME NEW x \in Sessions PROVE Apart(x)' /\ Holds(x)'
    BY <2>3, <2>4, HeldFacts DEF Apart, Holds, Alone, PortGone
  <2>6. \A x \in Sessions : x \in attached' \cup accepted' => lastId'[x] > 0 /\ status[x] # "new"
    BY <2>3, HeldFacts
  <2> QED BY <2>2, <2>3, <2>5, <2>6, HeldAepp
<1>2. ASSUME NEW s \in Sessions, Disconnect(s) PROVE HeldInv'
  BY <1>2, HeldLetsGo DEF Disconnect
<1> QED BY <1>1, <1>2, HeldConnect DEF AeppUser

\* An aepp gets a message.
LEMMA HeldAeppHears ==
    ASSUME Types, HeldInv, NEW s \in Sessions, AeppHears(s)
    PROVE  HeldInv'
<1>1. UNCHANGED <<setup, wallet, lastId>>
  BY DEF AeppHears
<1>2. ASSUME UNCHANGED <<rpc, attached, accepted, overlapped>>,
             \A x \in Sessions : Has(toAepp'[x], PortClosed) => Has(toAepp[x], PortClosed)
      PROVE  HeldInv'
  <2>1. /\ \A x : Owner(x)' = Owner(x) /\ Window(x)' = Window(x) /\ SessionsOf(x)' = SessionsOf(x) /\ Sdk(x)' = Sdk(x)
        /\ heard' = heard
    BY <1>1, SetupSame DEF wallet
  <2>2. ASSUME NEW x \in Sessions PROVE Apart(x)' /\ Holds(x)'
    BY <1>2, <2>1, HeldFacts DEF Apart, Holds, Alone, PortGone
  <2>3. \A x \in Sessions : x \in attached' \cup accepted' => lastId'[x] > 0 /\ status[x] # "new"
    BY <1>1, <1>2, HeldFacts
  <2> QED BY <1>1, <1>2, <2>2, <2>3, HeldAepp
<1>3. ASSUME NEW type, NEW method, Gets(s, type, method)
      PROVE  s \in attached /\ \A x \in Sessions : Has(toAepp'[x], PortClosed) => Has(toAepp[x], PortClosed)
  BY <1>3, GetsFacts DEF NoneClosed
<1>4. CASE GetsWalletInfo(s)
  <2>1. rpc' = [rpc EXCEPT ![Owner(s)] = s] \/ (rpc' = rpc /\ ~Sdk(Owner(s)))
    BY <1>4 DEF GetsWalletInfo
  <2>2. accepted' = accepted \cup {s} /\ UNCHANGED <<attached, overlapped>> /\ Gets(s, "result", "connect")
    BY <1>4 DEF GetsWalletInfo
  <2> QED BY <1>1, <1>3, <2>1, <2>2, HeldTold
<1>5. CASE GetsSubscription(s)
  BY <1>2, <1>3, <1>5 DEF GetsSubscription
<1>6. CASE GetsAnswer(s)
  BY <1>2, <1>3, <1>6 DEF GetsAnswer, aepp
<1>7. CASE GetsAccounts(s)
  BY <1>2, <1>3, <1>7 DEF GetsAccounts
<1>8. CASE GetsNetwork(s)
  BY <1>2, <1>3, <1>8 DEF GetsNetwork
<1>9. CASE GetsGoodbye(s)
  BY <1>1, <1>3, <1>9, HeldLetsGo DEF GetsGoodbye
<1>10. CASE GetsPortClosed(s)
  <2>1. /\ Gets(s, "closed", "closed") /\ rpc' = [rpc EXCEPT ![Owner(s)] = None]
        /\ UNCHANGED <<attached, accepted, overlapped>>
    BY <1>10 DEF GetsPortClosed, OnDisconnect
  <2>2. PortGone(s)
    BY <2>1, GetsFacts, HeldFacts
  <2> QED BY <1>1, <1>3, <2>1, <2>2, HeldTold
<1>11. CASE MissesAtAepp(s)
  <2>1. toAepp[s] # <<>> /\ toAepp' = [toAepp EXCEPT ![s] = Tail(@)] /\ toAepp \in [Sessions -> Seq(AeppMessages)]
    BY <1>11 DEF MissesAtAepp, Types, QueueTypes
  <2>2. Has(Tail(toAepp[s]), PortClosed) => Has(toAepp[s], PortClosed)
    BY <2>1, TailHas
  <2> QED BY <1>2, <1>11, <2>1, <2>2 DEF MissesAtAepp, aepp
<1> QED BY <1>4, <1>5, <1>6, <1>7, <1>8, <1>9, <1>10, <1>11 DEF AeppHears

\* Every step keeps both ends in agreement.
LEMMA HeldStep == Types /\ HeldInv /\ [Next]_vars => HeldInv'
<1> SUFFICES ASSUME Types, HeldInv, [Next]_vars PROVE HeldInv'
  OBVIOUS
<1>1. CASE UNCHANGED vars
  BY <1>1, HeldWallet DEF vars, rest, wallet
<1> QED BY <1>1, HeldWalletUser, HeldWalletNode, HeldAeppUser, HeldProceeds, HeldWalletHears, HeldAeppHears DEF Next

-----------------------------------------------------------------------------
(* The theorem *)

\* At the start nothing is asked and nobody is connected.
LEMMA SessionsInit == Init => Types /\ PlacesInv /\ HeldInv
<1> SUFFICES ASSUME Init PROVE Types /\ PlacesInv /\ HeldInv
  OBVIOUS
<1>1. Types
  <2>1. WalletTypes
    <3>1. accounts \subseteq Accounts /\ selected \in Accounts \cup {None} /\ node \in Nodes
      BY HomeAssumption DEF Init
    <3>2. ops \in 0..MaxOps
      <4>1. ops = 0 /\ MaxOps \in Nat
        BY BoundAssumption DEF Init
      <4> QED BY <4>1
    <3>3. raced \in BOOLEAN
      BY DEF Init
    <3>4. known \subseteq Sessions /\ heard \subseteq Sessions /\ tasks \subseteq TaskSet /\ fetching \subseteq FetchSet
      BY DEF Init
    <3>5. status \in [Sessions -> {"new", "waiting", "connected", "disconnected"}] /\ subs \in [Sessions -> SUBSET Kinds]
      BY DEF Init
    <3> QED BY <3>1, <3>2, <3>3, <3>4, <3>5 DEF WalletTypes
  <2>2. AeppTypes
    BY BoundAssumption DEF Init, AeppTypes
  <2>3. QueueTypes
    <3>1. \A S : <<>> \in Seq(S)
      BY EmptySeq
    <3> QED BY <3>1 DEF Init, QueueTypes
  <2> QED BY <2>1, <2>2, <2>3 DEF Types, Init
<1>2. ASSUME NEW s \in Sessions PROVE PlacesOK(s)
  <2>1. /\ toWallet[s] = <<>> /\ toAepp[s] = <<>> /\ calls[s] = {} /\ lastId[s] = 0
        /\ tasks = {} /\ fetching = {}
    BY DEF Init
  <2>2. Len(<<>>) = 0
    OBVIOUS
  <2>3. OnceIn(toWallet[s], {"request"}) /\ OnceIn(toAepp[s], Responses) /\ Asked(s) = {} /\ Answered(s) = {}
    BY <2>1, <2>2 DEF OnceIn, Asked, Answered, Entries
  <2>4. OnceWaiting(s) /\ Tended(s) = {} /\ Selecting(s) = {}
    BY <2>1 DEF OnceWaiting, Tended, Selecting
  <2> QED BY <2>1, <2>3, <2>4 DEF PlacesOK, Placed, Disjoint
<1>3. ASSUME NEW s \in Sessions PROVE HeldOK(s)
  <2>1. toAepp[s] = <<>> /\ attached = {} /\ accepted = {} /\ known = {}
    BY DEF Init
  <2>2. rpc[Owner(s)] # s
    <3>1. Owner(s) \in Aepps
      BY <1>1, SetupAssumption DEF Types, SetupType, Owner
    <3> QED BY <3>1, NoneAssumption DEF Init
  <2> QED BY <2>1, <2>2, HasEmpty DEF HeldOK, Begun, Apart, Holds
<1> QED BY <1>1, <1>2, <1>3 DEF PlacesInv, HeldInv

\* A set of at most one element.
LEMMA AtMostOne ==
    ASSUME NEW S, \A x, y \in S : x = y
    PROVE  Cardinality(S) = IF S = {} THEN 0 ELSE 1
<1>1. CASE S = {}
  BY <1>1, FS_EmptySet
<1>2. CASE S # {}
  <2>1. PICK x \in S : TRUE
    BY <1>2
  <2>2. S = {x}
    BY <2>1
  <2> QED BY <1>2, <2>2, FS_Singleton
<1> QED BY <1>1, <1>2

\* The positions in a queue of the messages that are about a request.
LEMMA OncePositions ==
    ASSUME NEW M, NEW q \in Seq(M), NEW T, OnceIn(q, T), NEW id
    PROVE  LET S == {i \in DOMAIN q : q[i].type \in T /\ q[i].id = id} IN
           /\ Cardinality(S) = IF \E c \in Entries(q, T) : c.id = id THEN 1 ELSE 0
<1> DEFINE S == {i \in DOMAIN q : q[i].type \in T /\ q[i].id = id}
<1>1. DOMAIN q = 1..Len(q)
  BY LenProperties
<1>2. \A x, y \in S : x = y
  BY <1>1 DEF OnceIn
<1>3. S # {} <=> \E c \in Entries(q, T) : c.id = id
  <2>1. ASSUME NEW i \in S PROVE \E c \in Entries(q, T) : c.id = id
    <3>1. Entry(q[i]) \in Entries(q, T)
      BY <1>1 DEF Entries
    <3> QED BY <3>1 DEF Entry
  <2>2. ASSUME NEW c \in Entries(q, T), c.id = id PROVE S # {}
    <3>1. PICK i \in 1..Len(q) : q[i].type \in T /\ c = Entry(q[i])
      BY DEF Entries
    <3>2. i \in S
      BY <1>1, <2>2, <3>1 DEF Entry
    <3> QED BY <3>2
  <2> QED BY <2>1, <2>2
<1> HIDE DEF S
<1>4. Cardinality(S) = IF S = {} THEN 0 ELSE 1
  BY <1>2, AtMostOne
<1> QED BY <1>3, <1>4 DEF S

\* The places of a request are the ones the model counts.
LEMMA OneAnswer == Types /\ PlacesInv => OneAnswerPerCall
<1> SUFFICES ASSUME Types, PlacesInv, NEW s \in Sessions, NEW id \in Ids
             PROVE  /\ Places(s, id) <= 1
                    /\ Places(s, id) = 1 /\ s \in attached => \E c \in calls[s] : c.id = id
                    /\ \A i \in DOMAIN toAepp[s] : toAepp[s][i].type \in Responses =>
                          \A c \in calls[s] : c.id = toAepp[s][i].id => c.method = toAepp[s][i].method
  BY DEF OneAnswerPerCall, Responses
<1> DEFINE A == \E c \in Asked(s) : c.id = id
           B == \E c \in Tended(s) : c.id = id
           C == \E c \in Selecting(s) : c.id = id
           D == \E c \in Answered(s) : c.id = id
           SA == {i \in DOMAIN toWallet[s] : toWallet[s][i].type = "request" /\ toWallet[s][i].id = id}
           SB == {t \in tasks : t.s = s /\ t.id = id}
           SC == {f \in fetching : f.for.s = s /\ f.for.id = id}
           SD == {i \in DOMAIN toAepp[s] : toAepp[s][i].type \in {"result", "error"} /\ toAepp[s][i].id = id}
<1>1. PlacesOK(s) /\ toWallet[s] \in Seq(WalletMessages) /\ toAepp[s] \in Seq(AeppMessages)
  BY DEF PlacesInv, Types, QueueTypes
<1>2. Cardinality(SA) = IF A THEN 1 ELSE 0
  <2> DEFINE S == {i \in DOMAIN toWallet[s] : toWallet[s][i].type \in {"request"} /\ toWallet[s][i].id = id}
  <2>1. OnceIn(toWallet[s], {"request"})
    BY <1>1 DEF PlacesOK
  <2>2. Cardinality(S) = IF \E c \in Entries(toWallet[s], {"request"}) : c.id = id THEN 1 ELSE 0
    BY <1>1, <2>1, OncePositions, ZenonT(60)
  <2>3. SA = S
    OBVIOUS
  <2> HIDE DEF S, SA
  <2> QED BY <2>2, <2>3 DEF Asked
<1>3. Cardinality(SB) = IF B THEN 1 ELSE 0
  <2>1. \A x, y \in SB : x = y
    BY <1>1 DEF PlacesOK, OnceWaiting
  <2>2. SB # {} <=> B
    <3>1. \A t : Entry(t).id = t.id
      BY DEF Entry
    <3>2. \A t \in SB : Entry(t) \in Tended(s)
      BY DEF Tended
    <3>3. \A c \in Tended(s) : \E t \in tasks : t.s = s /\ c = Entry(t)
      BY DEF Tended
    <3> QED BY <3>1, <3>2, <3>3
  <2> HIDE DEF SB
  <2> QED BY <2>1, <2>2, AtMostOne
<1>4. Cardinality(SC) = IF C THEN 1 ELSE 0
  <2>1. \A x, y \in SC : x = y
    BY <1>1 DEF PlacesOK, OnceWaiting
  <2>2. SC # {} <=> C
    <3>1. \A f : Entry(f.for).id = f.for.id
      BY DEF Entry
    <3>2. \A f \in SC : Entry(f.for) \in Selecting(s)
      BY DEF Selecting
    <3>3. \A c \in Selecting(s) : \E f \in fetching : f.for.s = s /\ c = Entry(f.for)
      BY DEF Selecting
    <3> QED BY <3>1, <3>2, <3>3
  <2> HIDE DEF SC
  <2> QED BY <2>1, <2>2, AtMostOne
<1>5. Cardinality(SD) = IF D THEN 1 ELSE 0
  <2>1. OnceIn(toAepp[s], {"result", "error"})
    BY <1>1 DEF PlacesOK, Responses
  <2>2. Cardinality(SD) = IF \E c \in Entries(toAepp[s], {"result", "error"}) : c.id = id THEN 1 ELSE 0
    BY <1>1, <2>1, OncePositions, ZenonT(60)
  <2> HIDE DEF SD
  <2> QED BY <2>2 DEF Answered, Responses
<1>6. /\ ~(A /\ B) /\ ~(A /\ C) /\ ~(A /\ D) /\ ~(B /\ C) /\ ~(B /\ D) /\ ~(C /\ D)
      /\ s \in attached /\ (A \/ B \/ C \/ D) => \E c \in calls[s] : c.id = id
  BY <1>1 DEF PlacesOK, Placed, Disjoint
<1>7. Places(s, id) = Cardinality(SA) + Cardinality(SB) + Cardinality(SC) + Cardinality(SD)
  BY DEF Places
<1>8. ASSUME NEW i \in DOMAIN toAepp[s], toAepp[s][i].type \in Responses, NEW c \in calls[s], c.id = toAepp[s][i].id
      PROVE  c.method = toAepp[s][i].method
  <2>1. i \in 1..Len(toAepp[s])
    BY <1>1, LenProperties
  <2>2. Entry(toAepp[s][i]) \in Answered(s)
    BY <1>8, <2>1 DEF Answered, Entries
  <2>3. Entry(toAepp[s][i]).id = c.id /\ Entry(toAepp[s][i]).method = toAepp[s][i].method
    BY <1>8 DEF Entry
  <2>4. c = Entry(toAepp[s][i])
    BY <1>1, <2>2, <2>3 DEF PlacesOK, Placed
  <2> QED BY <2>3, <2>4
<1> HIDE DEF A, B, C, D, SA, SB, SC, SD
<1> QED BY <1>2, <1>3, <1>4, <1>5, <1>6, <1>7, <1>8

\* The types of the model's own invariant.
LEMMA TypesGive == Types => TypeOK
<1> SUFFICES ASSUME Types PROVE TypeOK
  OBVIOUS
<1>1. ASSUME NEW s \in Sessions
      PROVE  /\ \A i \in DOMAIN toWallet[s] : toWallet[s][i].type \in {"request", "notify", "closed"}
             /\ \A i \in DOMAIN toAepp[s] : toAepp[s][i].type \in {"result", "error", "notify", "closed"}
  <2>1. toWallet[s] \in Seq(WalletMessages) /\ toAepp[s] \in Seq(AeppMessages)
    BY DEF Types, QueueTypes
  <2>2. /\ \A i \in DOMAIN toWallet[s] : toWallet[s][i] \in WalletMessages
        /\ \A i \in DOMAIN toAepp[s] : toAepp[s][i] \in AeppMessages
    BY <2>1, ElementOfSeq, LenProperties
  <2> QED BY <2>2, MessageTypes DEF WalletMessages, AeppMessages
<1>2. view \in [Aepps -> ViewType] /\ net \in [Aepps -> NetType]
  BY DEF Types, AeppTypes, Views, Nets, ViewType, NetType
<1> QED BY <1>1, <1>2 DEF TypeOK, Types, WalletTypes, AeppTypes, Kinds

\* Requests and sessions of the aepps and the wallet fit each other: a request
\* is on its way, with the wallet or answered, one at a time, its callback is
\* kept until then and is of the same method (RpcClient.ts:63-90, 125-156),
\* and an aepp and the wallet agree on whether they are connected, whoever
\* lets go first (AeSdkAepp.ts:105-152, AeSdkWallet.ts:189-225).
THEOREM SessionsStayInOrder == Spec => []SessionsInOrder
<1> DEFINE Inv == Types /\ PlacesInv /\ HeldInv
<1>1. Init => Inv
  BY SessionsInit
<1>2. Inv /\ [Next]_vars => Inv'
  BY TypesStep, PlacesStep, HeldStep
<1>3. Inv => SessionsInOrder
  <2> SUFFICES ASSUME Inv PROVE SessionsInOrder
    OBVIOUS
  <2>1. SessionHeld
    BY HeldFacts DEF SessionHeld
  <2> QED BY <2>1, TypesGive, OneAnswer DEF SessionsInOrder
<1> QED BY <1>1, <1>2, <1>3, PTL DEF Spec

-----------------------------------------------------------------------------
(* What the aepps were told last *)

\* The messages that carry what an aepp keeps: the accounts, or the network.
TellsView(m) == \/ m.type = "result" /\ m.method \in {"subscribe", "unsubscribe"}
                \/ m.type = "notify" /\ m.method = "updateAddress"
TellsNet(m) == \/ m.type = "result" /\ m.method = "connect"
               \/ m.type = "notify" /\ m.method = "updateNetwork"
Tells(what, m) == IF what = "view" THEN TellsView(m) ELSE TellsNet(m)

\* What the aepp will have, which has base, once it has read the queue.
Ends(what, q, base, v) ==
    \/ v = base /\ \A i \in 1..Len(q) : ~Tells(what, q[i])
    \/ \E i \in 1..Len(q) : /\ Tells(what, q[i]) /\ v = q[i].value
                            /\ \A j \in 1..Len(q) : j > i => ~Tells(what, q[j])
NewsSame(what, q, q1) == \A base, v : Ends(what, q, base, v) => Ends(what, q1, base, v)
Ended(what, q, v) == \A base : Ends(what, q, base, v)
Greeting(m) == m.type = "result" /\ m.method = "connect"
Greeted(q) == \E i \in 1..Len(q) : Greeting(q[i])

\* The accounts that the wallet shows for a subscription, and what of an
\* aepp's is as good.
ShownOf(all, chosen, sub) ==
    _getAccountsForClient([current |-> IF chosen = None THEN {} ELSE {chosen}, connected |-> all \ {chosen}], sub)
FitsFor(v, all, chosen, sub) ==
    LET shown == ShownOf(all, chosen, sub)
    IN /\ shown.connected \subseteq v.connected \cup v.current
       /\ chosen # None => shown.current = v.current
       /\ ((v.current \cup v.connected) \cap all) \subseteq (shown.current \cup shown.connected)
Fits(v, s) == FitsFor(v, accounts, selected, subs[s])

Watches(s) == Alone(s) /\ _isRpcClientConnected(s) /\ subs[s] # {}
Informed(s) == s \in accepted \/ Greeted(toAepp[s])
Fresh(s) == Alone(s) /\ _isRpcClientConnected(s) /\ Informed(s) /\ fetching = {} /\ ~raced
Here == [networkId |-> node, node |-> node]

\* A subscription follows a connection, of which there is one per session.
Follows(s) ==
    /\ subs[s] # {} => lastId[s] > 0
    /\ status[s] = "disconnected" => s \notin heard
    /\ status[s] \in {"new", "waiting"} => subs[s] = {} /\ \A t \in tasks : t.s = s => t.method # "subscribe"
    /\ \A c \in calls[s] : c.method = "connect" => c.id = 1 /\ s \notin accepted

ViewToCome(s) == Watches(s) => \E v \in Views : Ends("view", toAepp[s], view[Owner(s)], v) /\ Fits(v, s)
NetToCome(s) == Fresh(s) => Ends("net", toAepp[s], net[Owner(s)], Here)

\* No two answers of nodes are awaited at a time, and none is for a node
\* that was left.
Calm == ~raced => /\ \A f, g \in fetching : f = g /\ f.node = node
                  /\ \A t \in tasks : t.stage = "info" => fetching = {} /\ t.node = node

NewsInv == Calm /\ \A s \in Sessions : Follows(s) /\ ViewToCome(s) /\ NetToCome(s)

\* A message at the end of a queue is the last word on what it tells.
LEMMA NewsAppend ==
    ASSUME NEW S, NEW q \in Seq(S), NEW m \in S, NEW what
    PROVE  /\ ~Tells(what, m) => NewsSame(what, q, Append(q, m))
           /\ Tells(what, m) => Ended(what, Append(q, m), m.value)
           /\ Greeted(Append(q, m)) => Greeted(q) \/ Greeting(m)
<1> DEFINE n == Len(q)  p == Append(q, m)
<1>1. /\ n \in Nat /\ Len(p) = n + 1
      /\ \A i \in 1..n : p[i] = q[i]
      /\ p[n + 1] = m
  BY AppendFacts
<1> HIDE DEF p
<1>2. ASSUME ~Tells(what, m), NEW base, NEW v, Ends(what, q, base, v) PROVE Ends(what, p, base, v)
  <2>1. CASE v = base /\ \A i \in 1..n : ~Tells(what, q[i])
    <3>1. \A i \in 1..n + 1 : ~Tells(what, p[i])
      BY <1>1, <1>2, <2>1
    <3> QED BY <1>1, <2>1, <3>1 DEF Ends
  <2>2. CASE \E i \in 1..n : /\ Tells(what, q[i]) /\ v = q[i].value
                             /\ \A j \in 1..n : j > i => ~Tells(what, q[j])
    <3>1. PICK i \in 1..n : /\ Tells(what, q[i]) /\ v = q[i].value
                            /\ \A j \in 1..n : j > i => ~Tells(what, q[j])
      BY <2>2
    <3>2. \A j \in 1..n + 1 : j > i => ~Tells(what, p[j])
      BY <1>1, <1>2, <3>1
    <3>3. i \in 1..n + 1 /\ Tells(what, p[i]) /\ v = p[i].value
      BY <1>1, <3>1
    <3> QED BY <1>1, <3>2, <3>3 DEF Ends
  <2> QED BY <1>2, <2>1, <2>2 DEF Ends
<1>3. ASSUME Tells(what, m), NEW base PROVE Ends(what, p, base, m.value)
  <2>1. n + 1 \in 1..Len(p) /\ \A j \in 1..Len(p) : ~(j > n + 1)
    BY <1>1
  <2> QED BY <1>1, <1>3, <2>1 DEF Ends
<1>4. Greeted(p) => Greeted(q) \/ Greeting(m)
  BY <1>1 DEF Greeted
<1> QED BY <1>2, <1>3, <1>4 DEF NewsSame, Ended, p

\* An aepp that reads a message has what the message tells.
LEMMA NewsTail ==
    ASSUME NEW S, NEW q \in Seq(S), q # <<>>, NEW what, NEW base, NEW v, Ends(what, q, base, v)
    PROVE  /\ ~Tells(what, Head(q)) => Ends(what, Tail(q), base, v)
           /\ Tells(what, Head(q)) => Ends(what, Tail(q), Head(q).value, v)
<1> DEFINE n == Len(q)  p == Tail(q)
<1>1. /\ n \in Nat \ {0} /\ Len(p) = n - 1 /\ Head(q) = q[1]
      /\ \A i \in 1..n - 1 : p[i] = q[i + 1]
  BY TailFacts
<1> HIDE DEF p
<1>2. CASE v = base /\ \A i \in 1..n : ~Tells(what, q[i])
  <2>1. \A i \in 1..n - 1 : ~Tells(what, p[i])
    BY <1>1, <1>2
  <2>2. ~Tells(what, q[1])
    BY <1>1, <1>2
  <2> QED BY <1>1, <1>2, <2>1, <2>2 DEF Ends, p
<1>3. CASE \E i \in 1..n : /\ Tells(what, q[i]) /\ v = q[i].value
                           /\ \A j \in 1..n : j > i => ~Tells(what, q[j])
  <2>1. PICK i \in 1..n : /\ Tells(what, q[i]) /\ v = q[i].value
                          /\ \A j \in 1..n : j > i => ~Tells(what, q[j])
    BY <1>3
  <2>2. CASE i = 1
    <3>1. \A j \in 1..n - 1 : ~Tells(what, p[j])
      <4> TAKE j \in 1..n - 1
      <4>1. j + 1 \in 1..n /\ j + 1 > i
        BY <1>1, <2>2
      <4> QED BY <1>1, <2>1, <4>1
    <3> QED BY <1>1, <2>1, <2>2, <3>1 DEF Ends, p
  <2>3. CASE i # 1
    <3>1. i - 1 \in 1..n - 1 /\ p[i - 1] = q[i]
      <4>1. i - 1 \in 1..n - 1 /\ (i - 1) + 1 = i
        BY <1>1, <2>1, <2>3
      <4>2. p[i - 1] = q[(i - 1) + 1]
        BY <1>1, <4>1
      <4> QED BY <4>1, <4>2
    <3>2. \A j \in 1..n - 1 : j > i - 1 => ~Tells(what, p[j])
      <4> SUFFICES ASSUME NEW j \in 1..n - 1, j > i - 1 PROVE ~Tells(what, p[j])
        OBVIOUS
      <4>1. j + 1 \in 1..n /\ j + 1 > i
        BY <1>1, <2>1
      <4> QED BY <1>1, <2>1, <4>1
    <3> QED BY <1>1, <2>1, <3>1, <3>2 DEF Ends, p
  <2> QED BY <2>2, <2>3
<1> QED BY <1>2, <1>3 DEF Ends

\* Less to read has no more greetings.
LEMMA GreetedTail ==
    ASSUME NEW S, NEW q \in Seq(S), q # <<>>
    PROVE  /\ Greeted(Tail(q)) => Greeted(q)
           /\ Greeting(Head(q)) => Greeted(q)
<1>1. /\ Len(q) \in Nat \ {0} /\ Len(Tail(q)) = Len(q) - 1 /\ Head(q) = q[1]
      /\ \A i \in 1..Len(q) - 1 : Tail(q)[i] = q[i + 1]
  BY TailFacts
<1> QED BY <1>1 DEF Greeted

\* A queue that was read to its end.
LEMMA NewsEmpty ==
    ASSUME NEW what, NEW base, NEW v, Ends(what, <<>>, base, v)
    PROVE  v = base
<1>1. Len(<<>>) = 0
  OBVIOUS
<1> QED BY <1>1 DEF Ends

\* One message after the other.
LEMMA NewsTwice ==
    ASSUME NEW what, NEW q, NEW q1, NEW q2, NewsSame(what, q1, q2)
    PROVE  /\ NewsSame(what, q, q1) => NewsSame(what, q, q2)
           /\ \A v : Ended(what, q1, v) => Ended(what, q2, v)
BY DEF NewsSame, Ended

\* What the wallet shows is as good as itself, and stays so when an account
\* is removed.
LEMMA ShownFits ==
    ASSUME NEW all \in SUBSET Accounts, NEW chosen \in Accounts \cup {None}, NEW sub \in SUBSET Kinds, sub # {}
    PROVE  /\ ShownOf(all, chosen, sub) \in Views
           /\ FitsFor(ShownOf(all, chosen, sub), all, chosen, sub)
           /\ \A v \in Views, a \in Accounts :
                FitsFor(v, all, chosen, sub) => FitsFor(v, all \ {a}, IF chosen = a THEN None ELSE chosen, sub)
<1> DEFINE shown == ShownOf(all, chosen, sub)
<1>1. /\ shown = [current |-> IF chosen = None THEN {} ELSE {chosen},
                  connected |-> IF "connected" \in sub THEN all \ {chosen} ELSE {}]
  BY DEF ShownOf, _getAccountsForClient
<1>2. shown \in Views
  BY <1>1 DEF Views
<1>3. FitsFor(shown, all, chosen, sub)
  BY DEF FitsFor
<1>4. ASSUME NEW v \in Views, NEW a \in Accounts, FitsFor(v, all, chosen, sub)
      PROVE  FitsFor(v, all \ {a}, IF chosen = a THEN None ELSE chosen, sub)
  <2> DEFINE left == IF chosen = a THEN None ELSE chosen
             later == ShownOf(all \ {a}, left, sub)
  <2>1. later = [current |-> IF left = None THEN {} ELSE {left},
                 connected |-> IF "connected" \in sub THEN (all \ {a}) \ {left} ELSE {}]
    BY DEF ShownOf, _getAccountsForClient
  <2>2. /\ shown.connected \subseteq v.connected \cup v.current
        /\ chosen # None => shown.current = v.current
        /\ ((v.current \cup v.connected) \cap all) \subseteq (shown.current \cup shown.connected)
    BY <1>4 DEF FitsFor
  <2>3. None \notin all
    BY NoneAssumption
  <2>4. later.connected \subseteq v.connected \cup v.current
    BY <1>1, <2>1, <2>2, <2>3
  <2>5. left # None => later.current = v.current
    BY <1>1, <2>1, <2>2
  <2>6. ((v.current \cup v.connected) \cap (all \ {a})) \subseteq (later.current \cup later.connected)
    BY <1>1, <2>1, <2>2, <2>3
  <2> QED BY <2>4, <2>5, <2>6 DEF FitsFor
<1> QED BY <1>2, <1>3, <1>4

-----------------------------------------------------------------------------
(* Steps of the wallet *)

\* A step of the wallet leaves the aepps as they are, and tells them of what
\* it changes.
LEMMA NewsWallet ==
    ASSUME Types, NewsInv, UNCHANGED <<setup, aepp, calls, lastId>>, Calm',
           \A x \in Sessions :
             /\ Follows(x)'
             /\ Watches(x)' => \/ /\ Watches(x) /\ NewsSame("view", toAepp[x], toAepp'[x])
                                  /\ \A v \in Views : Fits(v, x) => Fits(v, x)'
                               \/ \E v \in Views : Ended("view", toAepp'[x], v) /\ Fits(v, x)'
             /\ Fresh(x)' => \/ Fresh(x) /\ NewsSame("net", toAepp[x], toAepp'[x]) /\ node' = node
                             \/ Ended("net", toAepp'[x], Here')
    PROVE  NewsInv'
<1> SUFFICES ASSUME NEW s \in Sessions PROVE ViewToCome(s)' /\ NetToCome(s)'
  BY DEF NewsInv
<1>1. ViewToCome(s) /\ NetToCome(s)
  BY DEF NewsInv
<1>2. Owner(s)' = Owner(s) /\ view' = view /\ net' = net
  BY DEF Owner, aepp
<1>3. ViewToCome(s)'
  <2> SUFFICES ASSUME Watches(s)' PROVE \E v \in Views : Ends("view", toAepp'[s], view[Owner(s)], v) /\ Fits(v, s)'
    BY <1>2 DEF ViewToCome
  <2>1. CASE /\ Watches(s) /\ NewsSame("view", toAepp[s], toAepp'[s])
             /\ \A v \in Views : Fits(v, s) => Fits(v, s)'
    BY <1>1, <2>1 DEF ViewToCome, NewsSame
  <2>2. CASE \E v \in Views : Ended("view", toAepp'[s], v) /\ Fits(v, s)'
    BY <2>2 DEF Ended
  <2> QED BY <2>1, <2>2
<1>4. NetToCome(s)'
  <2> SUFFICES ASSUME Fresh(s)' PROVE Ends("net", toAepp'[s], net[Owner(s)], Here')
    BY <1>2 DEF NetToCome
  <2>1. CASE Fresh(s) /\ NewsSame("net", toAepp[s], toAepp'[s]) /\ node' = node
    <3>1. Here' = Here /\ Ends("net", toAepp[s], net[Owner(s)], Here)
      BY <1>1, <2>1 DEF NetToCome, Here
    <3> QED BY <2>1, <3>1 DEF NewsSame
  <2>2. CASE Ended("net", toAepp'[s], Here')
    BY <2>2 DEF Ended
  <2> QED BY <2>1, <2>2
<1> QED BY <1>3, <1>4

\* A queue that got no news.
NoNews(q, q1) == /\ NewsSame("view", q, q1) /\ NewsSame("net", q, q1)
                 /\ Greeted(q1) => Greeted(q)

\* A step of the wallet that changes nothing an aepp is told of, though
\* clients may go.
LEMMA NewsStill ==
    ASSUME Types, NewsInv, UNCHANGED <<setup, aepp, calls, lastId, purse, node, fetching, raced>>,
           \A t \in tasks' \ tasks : /\ t.stage # "info"
                                     /\ t.method = "subscribe" => status[t.s] = "connected" /\ status' = status,
           \A x \in Sessions :
             /\ subs'[x] = subs[x] \/ (subs'[x] = {} /\ x \notin heard')
             /\ status'[x] = "disconnected" => x \notin heard'
             /\ status'[x] \in {"new", "waiting"} => status[x] \in {"new", "waiting"}
             /\ status'[x] = "connected" => status[x] = "connected"
             /\ _isRpcClientConnected(x)' => _isRpcClientConnected(x) /\ NoNews(toAepp[x], toAepp'[x])
    PROVE  NewsInv'
<1>1. UNCHANGED <<attached, accepted, overlapped, accounts, selected>>
  BY DEF aepp, purse
<1>2. Calm'
  BY DEF Calm, NewsInv
<1>3. ASSUME NEW x \in Sessions PROVE Follows(x)'
  <2>1. Follows(x)
    BY DEF NewsInv
  <2>2. subs'[x] # {} => lastId[x] > 0
    BY <2>1 DEF Follows
  <2>3. status'[x] \in {"new", "waiting"} => subs'[x] = {} /\ \A t \in tasks' : t.s = x => t.method # "subscribe"
    <3> SUFFICES ASSUME status'[x] \in {"new", "waiting"} PROVE subs'[x] = {} /\ \A t \in tasks' : t.s = x => t.method # "subscribe"
      OBVIOUS
    <3>1. status[x] \in {"new", "waiting"} /\ status[x] # "connected"
      OBVIOUS
    <3> QED BY <2>1, <3>1 DEF Follows
  <2> QED BY <1>1, <2>1, <2>2, <2>3 DEF Follows
<1>4. ASSUME NEW x \in Sessions, Watches(x)'
      PROVE  /\ Watches(x) /\ NewsSame("view", toAepp[x], toAepp'[x])
             /\ \A v \in Views : Fits(v, x) => Fits(v, x)'
  <2>1. Alone(x)' = Alone(x)
    BY <1>1 DEF Alone, SessionsOf, Owner
  <2>2. _isRpcClientConnected(x)' /\ subs'[x] = subs[x]
    BY <1>4 DEF Watches
  <2> QED BY <1>1, <1>4, <2>1, <2>2 DEF Watches, Fits, NoNews
<1>5. ASSUME NEW x \in Sessions, Fresh(x)'
      PROVE  Fresh(x) /\ NewsSame("net", toAepp[x], toAepp'[x]) /\ node' = node
  <2>1. Alone(x)' = Alone(x)
    BY <1>1 DEF Alone, SessionsOf, Owner
  <2>2. _isRpcClientConnected(x)'
    BY <1>5 DEF Fresh
  <2> QED BY <1>1, <1>5, <2>1, <2>2 DEF Fresh, Informed, NoNews
<1> QED BY <1>2, <1>3, <1>4, <1>5, NewsWallet

\* A queue that stays as it is, or gets a message that tells no news.
LEMMA NoNewsFacts ==
    ASSUME NEW queues \in [Sessions -> Seq(AeppMessages)], NEW s \in Sessions, NEW m \in AeppMessages,
           ~TellsView(m), ~TellsNet(m)
    PROVE  \A x \in Sessions : NoNews(queues[x], queues[x]) /\ NoNews(queues[x], Sent(queues, s, m)[x])
<1>1. \A x \in Sessions : NoNews(queues[x], queues[x])
  BY DEF NoNews, NewsSame
<1>2. Sent(queues, s, m)[s] \in {queues[s], Append(queues[s], m)} /\ \A x \in Sessions \ {s} : Sent(queues, s, m)[x] = queues[x]
  BY DEF Sent
<1>3. \A what : ~Tells(what, m)
  BY DEF Tells
<1>4. NoNews(queues[s], Append(queues[s], m))
  <2>1. NewsSame("view", queues[s], Append(queues[s], m)) /\ NewsSame("net", queues[s], Append(queues[s], m))
    BY <1>3, NewsAppend
  <2>2. Greeted(Append(queues[s], m)) => Greeted(queues[s])
    <3>1. ~Greeting(m)
      BY DEF TellsNet, Greeting
    <3> QED BY <3>1, NewsAppend
  <2> QED BY <2>1, <2>2 DEF NoNews
<1> QED BY <1>1, <1>2, <1>4

\* What a message tells.
LEMMA TellsFacts ==
    /\ \A m \in Failures : ~TellsView(m) /\ ~TellsNet(m)
    /\ \A t, v : t.method \in {"address", "sign", "updateNetwork"} => ~TellsView(Result(t, v)) /\ ~TellsNet(Result(t, v))
    /\ \A t, v : t.method \in {"subscribe", "unsubscribe"} => TellsView(Result(t, v)) /\ ~TellsNet(Result(t, v))
    /\ \A t, v : t.method = "connect" => ~TellsView(Result(t, v)) /\ TellsNet(Result(t, v))
    /\ \A v : LET m == Notification("updateAddress", v) IN TellsView(m) /\ ~TellsNet(m)
    /\ \A v : LET m == Notification("updateNetwork", v) IN ~TellsView(m) /\ TellsNet(m)
    /\ ~TellsView(Goodbye) /\ ~TellsNet(Goodbye) /\ ~TellsView(PortClosed) /\ ~TellsNet(PortClosed)
<1>1. \A m \in Failures : ~TellsView(m) /\ ~TellsNet(m)
  BY MessageTypes DEF TellsView, TellsNet
<1>2. \A t, v : Result(t, v).type = "result" /\ Result(t, v).method = t.method
  BY DEF Result
<1>3. \A v, method : Notification(method, v).type = "notify" /\ Notification(method, v).method = method
  BY DEF Notification
<1>4. ~TellsView(Goodbye) /\ ~TellsNet(Goodbye) /\ ~TellsView(PortClosed) /\ ~TellsNet(PortClosed)
  BY MessageTypes DEF TellsView, TellsNet
<1> QED BY <1>1, <1>2, <1>3, <1>4 DEF TellsView, TellsNet

\* The accounts that are pushed to the subscribers.
LEMMA PushNews ==
    ASSUME Types, NEW all \in Views, NEW times \in {1, 2}, _pushAccountsToApps(all, times), NEW x \in Sessions
    PROVE  /\ NewsSame("net", toAepp[x], toAepp'[x]) /\ (Greeted(toAepp'[x]) => Greeted(toAepp[x]))
           /\ x \in Subscribers /\ Flows(x) => Ended("view", toAepp'[x], _getAccountsForClient(all, subs[x]))
<1> DEFINE v == _getAccountsForClient(all, subs[x])
           m == Notification("updateAddress", v)
           msgs == [s \in Subscribers |-> Notification("updateAddress", _getAccountsForClient(all, subs[s]))]
           q == toAepp[x]  q1 == Append(q, m)  q2 == Append(q1, m)
<1>1. v \in Views /\ q \in Seq(AeppMessages)
  BY Shown DEF Types, WalletTypes, QueueTypes
<1>2. m \in AeppMessages /\ m.value = v /\ TellsView(m) /\ ~TellsNet(m)
  <2>1. m \in Pushes /\ m.value = v
    BY <1>1 DEF Notification, Pushes
  <2> QED BY <2>1, TellsFacts DEF AeppMessages
<1>3. x \in Subscribers => x \in DOMAIN msgs /\ msgs[x] = m
  OBVIOUS
<1>4. x \notin Subscribers => x \notin DOMAIN msgs
  OBVIOUS
<1>5. toAepp' = IF times = 2 THEN SentAll(SentAll(toAepp, msgs), msgs) ELSE SentAll(toAepp, msgs)
  BY DEF _pushAccountsToApps
<1> HIDE DEF m, msgs
<1>6. /\ x \in Subscribers /\ Flows(x) => toAepp'[x] = IF times = 2 THEN q2 ELSE q1
      /\ ~(x \in Subscribers /\ Flows(x)) => toAepp'[x] = q
  BY <1>3, <1>4, <1>5 DEF SentAll
<1>7. /\ Tells("view", m) /\ ~Tells("net", m) /\ ~Greeting(m)
  BY <1>2 DEF Tells, TellsNet, Greeting
<1>8. /\ NewsSame("net", q, q1) /\ Ended("view", q1, v) /\ (Greeted(q1) => Greeted(q)) /\ q1 \in Seq(AeppMessages)
  BY <1>1, <1>2, <1>7, NewsAppend, AppendFacts
<1>9. /\ NewsSame("net", q1, q2) /\ Ended("view", q2, v) /\ (Greeted(q2) => Greeted(q1))
  BY <1>2, <1>7, <1>8, NewsAppend
<1>10. NewsSame("net", q, q2) /\ NewsSame("net", q, q)
  BY <1>8, <1>9 DEF NewsSame
<1> QED BY <1>6, <1>8, <1>9, <1>10

\* A client that an aepp has alone gets what is sent.
LEMMA AloneFlows ==
    ASSUME NEW s \in Sessions, Alone(s), _isRpcClientConnected(s)
    PROVE  s \in attached /\ Flows(s)
BY DEF Alone, _isRpcClientConnected, Flows

\* What stays when the wallet leaves its clients alone.
LEMMA FollowsSame ==
    ASSUME NewsInv, UNCHANGED <<setup, aepp, calls, lastId, wallet>>, NEW x \in Sessions,
           \A t \in tasks' : t.s = x /\ t.method = "subscribe" => t \in tasks
    PROVE  /\ Follows(x)'
           /\ Alone(x)' = Alone(x) /\ _isRpcClientConnected(x)' = _isRpcClientConnected(x) /\ Flows(x)' = Flows(x)
<1>1. UNCHANGED <<attached, accepted, overlapped, known, status, subs, heard>> /\ Follows(x)
  BY DEF aepp, wallet, NewsInv
<1>2. Follows(x)'
  BY <1>1 DEF Follows
<1>3. Alone(x)' = Alone(x)
  BY <1>1 DEF Alone, SessionsOf, Owner
<1> QED BY <1>1, <1>2, <1>3 DEF _isRpcClientConnected, Flows, Window

\* What the wallet's user changes is pushed.
LEMMA NewsPurse ==
    ASSUME Types, NewsInv, NEW added \in SUBSET Accounts, NEW chosen \in Accounts \cup {None}, NEW times \in {1, 2},
           PurseChange(added, chosen, times)
    PROVE  NewsInv'
<1> DEFINE all == [current |-> IF chosen = None THEN {} ELSE {chosen}, connected |-> added \ {chosen}]
<1>1. /\ accounts' = added /\ selected' = chosen /\ _pushAccountsToApps(all, times)
      /\ UNCHANGED <<setup, wallet, node, tasks, fetching, aepp, calls, lastId, raced, toWallet>>
  BY DEF PurseChange
<1>2. all \in Views /\ subs' = subs
  BY <1>1 DEF Views, wallet
<1>3. Calm'
  BY <1>1 DEF Calm, NewsInv
<1>4. ASSUME NEW x \in Sessions
      PROVE  /\ Follows(x)'
             /\ Alone(x)' = Alone(x) /\ _isRpcClientConnected(x)' = _isRpcClientConnected(x)
  BY <1>1, FollowsSame
<1>5. ASSUME NEW x \in Sessions, Watches(x)' PROVE \E v \in Views : Ended("view", toAepp'[x], v) /\ Fits(v, x)'
  <2>1. Alone(x) /\ _isRpcClientConnected(x) /\ subs[x] # {}
    BY <1>2, <1>4, <1>5 DEF Watches
  <2>2. x \in Subscribers /\ Flows(x)
    BY <2>1, AloneFlows DEF Subscribers
  <2>3. Ended("view", toAepp'[x], _getAccountsForClient(all, subs[x]))
    BY <1>1, <1>2, <2>2, PushNews
  <2>4. _getAccountsForClient(all, subs[x]) = ShownOf(added, chosen, subs[x])
    BY DEF ShownOf
  <2>5. subs[x] \in SUBSET Kinds
    BY DEF Types, WalletTypes
  <2>6. ShownOf(added, chosen, subs[x]) \in Views /\ FitsFor(ShownOf(added, chosen, subs[x]), added, chosen, subs[x])
    BY <2>1, <2>5, ShownFits
  <2> QED BY <1>1, <1>2, <2>3, <2>4, <2>6 DEF Fits
<1>6. ASSUME NEW x \in Sessions, Fresh(x)' PROVE Fresh(x) /\ NewsSame("net", toAepp[x], toAepp'[x]) /\ node' = node
  <2>1. NewsSame("net", toAepp[x], toAepp'[x]) /\ (Greeted(toAepp'[x]) => Greeted(toAepp[x]))
    BY <1>1, <1>2, PushNews
  <2>2. accepted' = accepted
    BY <1>1 DEF aepp
  <2> QED BY <1>1, <1>4, <1>6, <2>1, <2>2 DEF Fresh, Informed
<1> HIDE DEF all
<1> QED BY <1>1, <1>3, <1>4, <1>5, <1>6, NewsWallet

\* An account that is removed, of which nobody is told.
LEMMA NewsRemoved ==
    ASSUME Types, NewsInv, NEW a \in Accounts, removeAccount(a)
    PROVE  NewsInv'
<1>1. /\ accounts' = accounts \ {a} /\ selected' = IF selected = a THEN None ELSE selected
      /\ UNCHANGED <<setup, wallet, node, tasks, fetching, aepp, calls, lastId, raced, toWallet, toAepp>>
  BY DEF removeAccount
<1>2. Calm'
  BY <1>1 DEF Calm, NewsInv
<1>3. ASSUME NEW x \in Sessions
      PROVE  /\ Follows(x)'
             /\ Alone(x)' = Alone(x) /\ _isRpcClientConnected(x)' = _isRpcClientConnected(x)
  BY <1>1, FollowsSame
<1>4. subs' = subs /\ accepted' = accepted
  BY <1>1 DEF wallet, aepp
<1>5. \A x \in Sessions : \A what : NewsSame(what, toAepp[x], toAepp'[x])
  BY <1>1 DEF NewsSame
<1>6. ASSUME NEW x \in Sessions, Watches(x)', NEW v \in Views, Fits(v, x) PROVE Fits(v, x)'
  <2>1. subs[x] # {} /\ subs[x] \in SUBSET Kinds /\ accounts \in SUBSET Accounts /\ selected \in Accounts \cup {None}
    BY <1>4, <1>6 DEF Watches, Types, WalletTypes
  <2>2. FitsFor(v, accounts, selected, subs[x])
    BY <1>6 DEF Fits
  <2>3. FitsFor(v, accounts \ {a}, IF selected = a THEN None ELSE selected, subs[x])
    BY <2>1, <2>2, ShownFits
  <2> QED BY <1>1, <1>4, <2>3 DEF Fits
<1>7. \A x \in Sessions : Watches(x)' => Watches(x)
  BY <1>3, <1>4 DEF Watches
<1>8. \A x \in Sessions : Fresh(x)' => Fresh(x)
  BY <1>1, <1>3, <1>4 DEF Fresh, Informed
<1> QED BY <1>1, <1>2, <1>3, <1>5, <1>6, <1>7, <1>8, NewsWallet

\* A node that is selected: what the aepps have is fresh once its id is known.
LEMMA NewsSelects ==
    ASSUME Types, NewsInv, NEW n, NEW t, Selects(n, t), tasks' \subseteq tasks,
           UNCHANGED <<setup, wallet, purse, aepp, calls, lastId, toAepp>>
    PROVE  NewsInv'
<1>1. /\ node' = n /\ fetching' = fetching \cup {[node |-> n, for |-> t]}
      /\ raced' = (raced \/ fetching # {} \/ \E u \in tasks : u.stage = "info")
  BY DEF Selects
<1>2. Calm'
  <2> SUFFICES ASSUME ~raced' PROVE /\ \A f, g \in fetching' : f = g /\ f.node = node'
                                    /\ \A u \in tasks' : u.stage # "info"
    BY DEF Calm
  <2>1. fetching = {} /\ ~\E u \in tasks : u.stage = "info"
    BY <1>1
  <2> QED BY <1>1, <2>1
<1>3. ASSUME NEW x \in Sessions
      PROVE  /\ Follows(x)'
             /\ Alone(x)' = Alone(x) /\ _isRpcClientConnected(x)' = _isRpcClientConnected(x)
  BY FollowsSame
<1>4. UNCHANGED <<accounts, selected, subs>>
  BY DEF purse, wallet
<1>5. ASSUME NEW x \in Sessions, Watches(x)'
      PROVE  /\ Watches(x) /\ NewsSame("view", toAepp[x], toAepp'[x])
             /\ \A v \in Views : Fits(v, x) => Fits(v, x)'
  BY <1>3, <1>4, <1>5 DEF Watches, Fits, NewsSame
<1>6. \A x \in Sessions : ~Fresh(x)'
  BY <1>1 DEF Fresh
<1> QED BY <1>2, <1>3, <1>5, <1>6, NewsWallet

\* Letting a client go tells the others nothing.
LEMMA LetGoOthers ==
    ASSUME Types, NEW s \in Sessions,
           toAepp' = Closed(toAepp, s) \/ toAepp' = Closed(Sent(toAepp, s, Goodbye), s)
    PROVE  \A x \in Sessions \ {s} : toAepp'[x] = toAepp[x]
<1> DEFINE sent == Sent(toAepp, s, Goodbye)
<1>1. Goodbye \in AeppMessages /\ PortClosed \in AeppMessages /\ toAepp \in [Sessions -> Seq(AeppMessages)]
  BY DEF AeppMessages, Pushes, Types, QueueTypes
<1>2. sent \in [Sessions -> Seq(AeppMessages)] /\ \A x \in Sessions \ {s} : sent[x] = toAepp[x]
  BY <1>1, SentFacts
<1>3. toAepp' = Closed(toAepp, s) \/ toAepp' = Closed(sent, s)
  OBVIOUS
<1> HIDE DEF sent
<1>4. ASSUME NEW q \in [Sessions -> Seq(AeppMessages)] PROVE \A x \in Sessions \ {s} : Closed(q, s)[x] = q[x]
  BY <1>4 DEF Closed
<1> QED BY <1>1, <1>2, <1>3, <1>4

\* The goodbye of the wallet, and the end of a port.
LEMMA NewsLetGo ==
    ASSUME Types, NewsInv, NEW s \in Sessions, tasks' = tasks,
           heard' = heard \ {s}, status' = [status EXCEPT ![s] = "disconnected"], subs' = [subs EXCEPT ![s] = {}],
           known' \subseteq known,
           UNCHANGED <<setup, aepp, calls, lastId, purse, node, fetching, raced>>,
           \A x \in Sessions \ {s} : toAepp'[x] = toAepp[x]
    PROVE  NewsInv'
<1>1. ASSUME NEW x \in Sessions
      PROVE  /\ subs'[x] = subs[x] \/ (subs'[x] = {} /\ x \notin heard')
             /\ status'[x] = "disconnected" => x \notin heard'
             /\ status'[x] \in {"new", "waiting"} => status[x] \in {"new", "waiting"}
             /\ status'[x] = "connected" => status[x] = "connected"
             /\ _isRpcClientConnected(x)' => _isRpcClientConnected(x) /\ NoNews(toAepp[x], toAepp'[x])
  <2>1. status \in [Sessions -> {"new", "waiting", "connected", "disconnected"}] /\ subs \in [Sessions -> SUBSET Kinds]
    BY DEF Types, WalletTypes
  <2>2. Follows(x)
    BY DEF NewsInv
  <2>3. CASE x = s
    BY <2>1, <2>3 DEF _isRpcClientConnected
  <2>4. CASE x # s
    <3>1. status'[x] = status[x] /\ subs'[x] = subs[x] /\ toAepp'[x] = toAepp[x] /\ heard' \subseteq heard
      BY <2>1, <2>4
    <3> QED BY <2>2, <3>1 DEF Follows, _isRpcClientConnected, NoNews, NewsSame
  <2> QED BY <2>3, <2>4
<1> QED BY <1>1, NewsStill

\* What the wallet's user does.
LEMMA NewsWalletUser ==
    ASSUME Types, NewsInv, WalletUser
    PROVE  NewsInv'
<1>1. ASSUME NEW s \in Sessions, AddRpcClient(s) PROVE NewsInv'
  <2>1. /\ status[s] = "new" /\ heard' = heard \cup {s} /\ known' = known \cup {s}
        /\ status' = [status EXCEPT ![s] = "waiting"] /\ subs' = subs /\ tasks' = tasks /\ toAepp' = toAepp
        /\ UNCHANGED <<setup, aepp, calls, lastId, purse, node, fetching, raced>>
    BY <1>1 DEF AddRpcClient
  <2>2. status \in [Sessions -> {"new", "waiting", "connected", "disconnected"}]
    BY DEF Types, WalletTypes
  <2>3. ASSUME NEW x \in Sessions
        PROVE  /\ status'[x] = "disconnected" => x \notin heard'
               /\ status'[x] \in {"new", "waiting"} => status[x] \in {"new", "waiting"}
               /\ status'[x] = "connected" => status[x] = "connected"
               /\ _isRpcClientConnected(x)' => _isRpcClientConnected(x) /\ NoNews(toAepp[x], toAepp'[x])
    <3>1. Follows(x)
      BY DEF NewsInv
    <3>2. CASE x = s
      BY <2>1, <2>2, <3>2 DEF _isRpcClientConnected
    <3>3. CASE x # s
      BY <2>1, <2>2, <3>1, <3>3 DEF Follows, _isRpcClientConnected, NoNews, NewsSame
    <3> QED BY <3>2, <3>3
  <2> QED BY <2>1, <2>3, NewsStill
<1>2. ASSUME NEW s \in Sessions, NEW bye \in BOOLEAN, RemoveRpcClient(s, bye) PROVE NewsInv'
  <2>1. /\ heard' = heard \ {s} /\ status' = [status EXCEPT ![s] = "disconnected"] /\ subs' = [subs EXCEPT ![s] = {}]
        /\ known' \subseteq known /\ tasks' = tasks
        /\ UNCHANGED <<setup, aepp, calls, lastId, purse, node, fetching, raced>>
    BY <1>2 DEF RemoveRpcClient, Dropped
  <2>2. \A x \in Sessions \ {s} : toAepp'[x] = toAepp[x]
    <3>1. toAepp' = Closed(toAepp, s) \/ toAepp' = Closed(Sent(toAepp, s, Goodbye), s)
      BY <1>2 DEF RemoveRpcClient, Dropped, Goodbye
    <3> QED BY <3>1, LetGoOthers
  <2> QED BY <2>1, <2>2, NewsLetGo
<1>3. ASSUME NEW a \in Accounts, selectAccount(a) PROVE NewsInv'
  <2>1. accounts \in SUBSET Accounts /\ PurseChange(accounts, a, 1)
    BY <1>3 DEF selectAccount, Types, WalletTypes
  <2> QED BY <2>1, NewsPurse
<1>4. ASSUME NEW a \in Accounts, NEW select \in BOOLEAN, addAccount(a, select) PROVE NewsInv'
  <2>1. PurseChange(accounts \cup {a}, IF select THEN a ELSE selected, IF select THEN 2 ELSE 1)
    BY <1>4 DEF addAccount
  <2>2. accounts \cup {a} \in SUBSET Accounts /\ (IF select THEN a ELSE selected) \in Accounts \cup {None}
    BY DEF Types, WalletTypes
  <2>3. (IF select THEN 2 ELSE 1) \in {1, 2}
    OBVIOUS
  <2> QED BY <2>1, <2>2, <2>3, NewsPurse
<1>5. ASSUME NEW n \in Nodes, selectNode(n) PROVE NewsInv'
  <2>1. /\ Selects(n, [s |-> None, id |-> ops]) /\ tasks' = tasks
        /\ UNCHANGED <<setup, wallet, purse, aepp, calls, lastId, toAepp>>
    BY <1>5 DEF selectNode
  <2> QED BY <2>1, NewsSelects
<1> QED BY <1>1, <1>2, <1>3, <1>4, <1>5, NewsRemoved DEF WalletUser

\* The network that is told to the connected clients.
LEMMA NetworkNews ==
    ASSUME Types, NEW f \in fetching, NetworkSelected(f), NEW x \in Sessions
    PROVE  /\ NewsSame("view", toAepp[x], toAepp'[x])
           /\ Flows(x) /\ _isRpcClientConnected(x) => Ended("net", toAepp'[x], [networkId |-> f.node, node |-> node])
<1> DEFINE v == [networkId |-> f.node, node |-> node]
           m == Notification("updateNetwork", v)
           told == {y \in Sessions : _isRpcClientConnected(y)}
           pushed == SentAll(toAepp, [y \in told |-> m])
<1>1. f \in FetchSet /\ v \in Nets /\ toAepp \in [Sessions -> Seq(AeppMessages)]
  BY DEF Types, WalletTypes, QueueTypes, FetchSet, Nets
<1>2. m \in Pushes /\ m \in AeppMessages /\ m.value = v
  BY <1>1 DEF Notification, Pushes, AeppMessages
<1>3. Tells("net", m) /\ ~Tells("view", m)
  BY TellsFacts DEF Tells
<1>4. toAepp' = IF f.for.s = None THEN pushed ELSE Sent(pushed, f.for.s, Result(f.for, "null"))
  BY DEF NetworkSelected
<1>5. pushed \in [Sessions -> Seq(AeppMessages)]
  BY <1>1, NetworkPushed
<1> HIDE DEF m, told
<1>6. pushed[x] = IF x \in told /\ Flows(x) THEN Append(toAepp[x], m) ELSE toAepp[x]
  BY DEF SentAll
<1>7. /\ NewsSame("view", toAepp[x], Append(toAepp[x], m)) /\ NewsSame("view", toAepp[x], toAepp[x])
      /\ Ended("net", Append(toAepp[x], m), v)
  <2>1. toAepp[x] \in Seq(AeppMessages)
    BY <1>1
  <2> QED BY <1>2, <1>3, <2>1, NewsAppend DEF NewsSame
<1> HIDE DEF pushed
<1>8. /\ NewsSame("view", toAepp[x], pushed[x])
      /\ x \in told /\ Flows(x) => Ended("net", pushed[x], v)
  BY <1>6, <1>7
<1>9. NoNews(pushed[x], toAepp'[x])
  <2>1. CASE f.for.s = None
    BY <1>4, <2>1 DEF NoNews, NewsSame
  <2>2. CASE f.for.s # None
    <3> DEFINE r == Result(f.for, "null")
    <3>1. r \in Results /\ f.for.method = "updateNetwork" /\ f.for.s \in Sessions
      BY <1>1, <2>2, FetchFacts DEF TaskSet
    <3>2. r \in AeppMessages /\ ~TellsView(r) /\ ~TellsNet(r)
      BY <3>1, TellsFacts DEF AeppMessages
    <3>3. toAepp' = Sent(pushed, f.for.s, r)
      BY <1>4, <2>2
    <3> HIDE DEF r
    <3> QED BY <1>5, <3>1, <3>2, <3>3, NoNewsFacts
  <2> QED BY <2>1, <2>2
<1>10. NewsSame("view", toAepp[x], toAepp'[x]) /\ (x \in told /\ Flows(x) => Ended("net", toAepp'[x], v))
  BY <1>8, <1>9, NewsTwice DEF NoNews
<1> QED BY <1>10 DEF told

\* What the node answers, or does not.
LEMMA NewsWalletNode ==
    ASSUME Types, NewsInv, WalletNode
    PROVE  NewsInv'
<1>1. ASSUME NEW f \in fetching, NetworkSelected(f) PROVE NewsInv'
  <2>1. /\ fetching' = fetching \ {f}
        /\ UNCHANGED <<setup, wallet, purse, node, tasks, ops, aepp, calls, lastId, raced, toWallet>>
    BY <1>1 DEF NetworkSelected
  <2>2. Calm'
    BY <2>1 DEF Calm, NewsInv
  <2>3. ASSUME NEW x \in Sessions
        PROVE  /\ Follows(x)'
               /\ Alone(x)' = Alone(x) /\ _isRpcClientConnected(x)' = _isRpcClientConnected(x)
    BY <2>1, FollowsSame
  <2>4. ASSUME NEW x \in Sessions, Watches(x)'
        PROVE  /\ Watches(x) /\ NewsSame("view", toAepp[x], toAepp'[x])
               /\ \A v \in Views : Fits(v, x) => Fits(v, x)'
    BY <1>1, <2>1, <2>3, <2>4, NetworkNews DEF Watches, Fits, wallet, purse
  <2>5. ASSUME NEW x \in Sessions, Fresh(x)' PROVE Ended("net", toAepp'[x], Here')
    <3>1. Alone(x) /\ _isRpcClientConnected(x) /\ ~raced
      BY <2>1, <2>3, <2>5 DEF Fresh
    <3>2. Flows(x) /\ f.node = node
      BY <3>1, AloneFlows DEF Calm, NewsInv
    <3>3. Ended("net", toAepp'[x], [networkId |-> f.node, node |-> node])
      BY <1>1, <3>1, <3>2, NetworkNews
    <3> QED BY <2>1, <3>2, <3>3 DEF Here
  <2> QED BY <2>1, <2>2, <2>3, <2>4, <2>5, NewsWallet
<1>2. ASSUME NEW f \in fetching, NetworkUnknown(f) PROVE NewsInv'
  <2>1. /\ raced' = TRUE /\ UNCHANGED <<setup, wallet, purse, node, tasks, aepp, calls, lastId, toWallet>>
        /\ toAepp' = IF f.for.s = None THEN toAepp ELSE Sent(toAepp, f.for.s, Failure(f.for, "internal"))
    BY <1>2 DEF NetworkUnknown
  <2>2. Calm' /\ \A x \in Sessions : ~Fresh(x)'
    BY <2>1 DEF Calm, Fresh
  <2>3. ASSUME NEW x \in Sessions
        PROVE  /\ Follows(x)'
               /\ Alone(x)' = Alone(x) /\ _isRpcClientConnected(x)' = _isRpcClientConnected(x)
    BY <2>1, FollowsSame
  <2>4. ASSUME NEW x \in Sessions PROVE NoNews(toAepp[x], toAepp'[x])
    <3>1. f \in FetchSet /\ toAepp \in [Sessions -> Seq(AeppMessages)]
      BY DEF Types, WalletTypes, QueueTypes
    <3>2. CASE f.for.s = None
      BY <2>1, <3>2 DEF NoNews, NewsSame
    <3>3. CASE f.for.s # None
      <4> DEFINE r == Failure(f.for, "internal")
      <4>1. r \in Failures /\ f.for.s \in Sessions
        BY <3>1, <3>3, FetchFacts DEF TaskSet
      <4>2. r \in AeppMessages /\ ~TellsView(r) /\ ~TellsNet(r) /\ toAepp' = Sent(toAepp, f.for.s, r)
        BY <2>1, <3>3, <4>1, TellsFacts DEF AeppMessages
      <4> HIDE DEF r
      <4> QED BY <3>1, <4>1, <4>2, NoNewsFacts
    <3> QED BY <3>2, <3>3
  <2>5. ASSUME NEW x \in Sessions, Watches(x)'
        PROVE  /\ Watches(x) /\ NewsSame("view", toAepp[x], toAepp'[x])
               /\ \A v \in Views : Fits(v, x) => Fits(v, x)'
    BY <2>1, <2>3, <2>4, <2>5 DEF Watches, Fits, wallet, purse, NoNews
  <2> QED BY <2>1, <2>2, <2>3, <2>5, NewsWallet
<1>3. ASSUME NEW t \in tasks, NodeFails(t) PROVE NewsInv'
  <2> DEFINE r == Failure(t, "internal")
  <2>1. t \in TaskSet /\ t.s \in Sessions /\ r \in Failures /\ toAepp \in [Sessions -> Seq(AeppMessages)]
    BY AnswerOf DEF Types, WalletTypes, QueueTypes, TaskSet
  <2>2. /\ toAepp' = Sent(toAepp, t.s, r) /\ tasks' \subseteq tasks
        /\ UNCHANGED <<setup, aepp, calls, lastId, purse, node, fetching, raced, wallet>>
    BY <1>3 DEF NodeFails, WalletInfoFails, Answers
  <2>3. r \in AeppMessages /\ ~TellsView(r) /\ ~TellsNet(r)
    BY <2>1, TellsFacts DEF AeppMessages
  <2> HIDE DEF r
  <2>4. \A x \in Sessions : NoNews(toAepp[x], toAepp'[x])
    BY <2>1, <2>2, <2>3, NoNewsFacts
  <2>5. \A x \in Sessions : Follows(x)
    BY DEF NewsInv
  <2> QED BY <2>2, <2>4, <2>5, NewsStill DEF wallet, Follows, _isRpcClientConnected
<1> QED BY <1>1, <1>2, <1>3 DEF WalletNode

\* A greeting on its way answers a connect.
LEMMA GreetedAnswers ==
    ASSUME NEW s \in Sessions, Greeted(toAepp[s])
    PROVE  \E c \in Answered(s) : c.method = "connect"
<1>1. PICK i \in 1..Len(toAepp[s]) : toAepp[s][i].type = "result" /\ toAepp[s][i].method = "connect"
  BY DEF Greeted, Greeting
<1>2. Entry(toAepp[s][i]) \in Answered(s)
  BY <1>1 DEF Answered, Entries, Responses
<1> QED BY <1>1, <1>2 DEF Entry

\* A client whose connect is with the wallet's user was not answered.
LEMMA Uninformed ==
    ASSUME PlacesInv, NewsInv, NEW t \in tasks, t.s \in Sessions, t.s \in attached, t.method = "connect"
    PROVE  ~Informed(t.s)
<1> DEFINE s == t.s  d == Entry(t)
<1>1. PlacesOK(s) /\ Follows(s)
  BY DEF PlacesInv, NewsInv
<1>2. d \in Tended(s) /\ d.method = "connect"
  BY DEF Tended, Entry
<1> HIDE DEF d
<1>3. \A c \in Tended(s) \cup Answered(s) : c \in calls[s]
  BY <1>1 DEF PlacesOK, Placed
<1>4. \A c \in Tended(s) \cup Answered(s) : c.method = "connect" => c.id = 1 /\ s \notin accepted
  BY <1>1, <1>3 DEF Follows
<1>5. \A c \in Answered(s) : c.id # d.id
  BY <1>1, <1>2 DEF PlacesOK, Placed, Disjoint
<1>6. ~Greeted(toAepp[s])
  BY <1>2, <1>4, <1>5, GreetedAnswers
<1> QED BY <1>2, <1>4, <1>6 DEF Informed

\* A client that is connected now.
LEMMA NewsAccepted ==
    ASSUME Types, PlacesInv, NewsInv, NEW t \in tasks, ConnectionAccepted(t),
           UNCHANGED <<setup, purse, aepp, calls, lastId>>
    PROVE  NewsInv'
<1> DEFINE s == t.s  next == [t EXCEPT !.stage = "info", !.node = node]
<1>1. /\ t.method = "connect" /\ status' = [status EXCEPT ![s] = "connected"]
      /\ tasks' = (tasks \ {t}) \cup {next} /\ raced' = (raced \/ fetching # {})
      /\ UNCHANGED <<known, subs, heard, fetching, node, toAepp>>
  BY DEF ConnectionAccepted
<1>2. /\ t \in TaskSet /\ s \in Sessions
      /\ status \in [Sessions -> {"new", "waiting", "connected", "disconnected"}]
  BY DEF Types, WalletTypes, TaskSet
<1>3. next.s = s /\ next.method = "connect" /\ next.node = node
  BY <1>1, <1>2 DEF TaskSet
<1> HIDE DEF next
<1>4. Calm'
  BY <1>1, <1>3 DEF Calm, NewsInv
<1>5. UNCHANGED <<attached, accepted, overlapped, accounts, selected>>
  BY DEF aepp, purse
<1>6. ASSUME NEW x \in Sessions PROVE Follows(x)'
  <2>1. Follows(x)
    BY DEF NewsInv
  <2>2. status'[x] \in {"new", "waiting"} => status'[x] = status[x]
    BY <1>1, <1>2
  <2>3. status'[x] = "disconnected" => status'[x] = status[x]
    BY <1>1, <1>2
  <2>4. status'[x] \in {"new", "waiting"} => subs'[x] = {} /\ \A u \in tasks' : u.s = x => u.method # "subscribe"
    BY <1>1, <1>3, <2>1, <2>2 DEF Follows
  <2> QED BY <1>1, <1>5, <2>1, <2>3, <2>4 DEF Follows
<1>7. ASSUME NEW x \in Sessions, _isRpcClientConnected(x)'
      PROVE  _isRpcClientConnected(x) \/ (x = s /\ subs[x] = {})
  <2>1. x \in known /\ x \in heard /\ (status[x] = "connected" \/ x = s)
    BY <1>1, <1>2, <1>7 DEF _isRpcClientConnected
  <2>2. status[x] \in {"new", "waiting", "connected", "disconnected"} /\ Follows(x)
    BY <1>2 DEF NewsInv
  <2> QED BY <2>1, <2>2 DEF _isRpcClientConnected, Follows
<1>8. ASSUME NEW x \in Sessions PROVE Alone(x)' = Alone(x)
  BY <1>5 DEF Alone, SessionsOf, Owner
<1>9. ASSUME NEW x \in Sessions, Watches(x)'
      PROVE  /\ Watches(x) /\ NewsSame("view", toAepp[x], toAepp'[x])
             /\ \A v \in Views : Fits(v, x) => Fits(v, x)'
  BY <1>1, <1>5, <1>7, <1>8, <1>9 DEF Watches, Fits, NewsSame
<1>10. ASSUME NEW x \in Sessions, Fresh(x)'
       PROVE  Fresh(x) /\ NewsSame("net", toAepp[x], toAepp'[x]) /\ node' = node
  <2>1. Alone(x) /\ _isRpcClientConnected(x)' /\ Informed(x) /\ fetching = {} /\ ~raced
    BY <1>1, <1>5, <1>8, <1>10 DEF Fresh, Informed
  <2>2. x \in attached
    BY <2>1 DEF Alone
  <2>3. x # s \/ _isRpcClientConnected(x)
    BY <1>1, <1>2, <2>1, <2>2, Uninformed
  <2>4. _isRpcClientConnected(x)
    BY <1>7, <2>1, <2>3
  <2> QED BY <1>1, <2>1, <2>4 DEF Fresh, NewsSame
<1> QED BY <1>4, <1>6, <1>9, <1>10, NewsWallet

\* A client that is told of the network it is connected to.
LEMMA NewsInfo ==
    ASSUME Types, NewsInv, NEW t \in tasks, WalletInfoSent(t),
           UNCHANGED <<setup, purse, aepp, calls, lastId>>
    PROVE  NewsInv'
<1> DEFINE s == t.s  v == [networkId |-> t.node, node |-> node]  r == Result(t, v)
<1>1. /\ t.stage = "info" /\ tasks' = tasks \ {t} /\ toAepp' = Sent(toAepp, s, r)
      /\ UNCHANGED <<wallet, fetching, raced, node>>
  BY DEF WalletInfoSent, Answers
<1>2. t \in TaskSet /\ s \in Sessions /\ t.method = "connect" /\ toAepp \in [Sessions -> Seq(AeppMessages)]
  BY <1>1 DEF Types, WalletTypes, QueueTypes, TaskSet
<1>3. r \in Results /\ r.value = v
  <2>1. v \in ValuesOf(t.method)
    BY <1>2 DEF ValuesOf, Nets, TaskSet, Types, WalletTypes
  <2>2. t.id \in Ids /\ t.method \in Methods
    BY <1>2 DEF TaskSet
  <2>3. r \in Results
    BY <2>1, <2>2, AnswerOf
  <2> QED BY <2>3 DEF Result
<1>4. r \in AeppMessages /\ Tells("net", r) /\ ~Tells("view", r)
  BY <1>2, <1>3, TellsFacts DEF AeppMessages, Tells
<1> HIDE DEF r
<1>5. Calm'
  BY <1>1 DEF Calm, NewsInv
<1>6. ASSUME NEW x \in Sessions
      PROVE  /\ Follows(x)'
             /\ Alone(x)' = Alone(x) /\ _isRpcClientConnected(x)' = _isRpcClientConnected(x)
  BY <1>1, FollowsSame
<1>7. UNCHANGED <<accounts, selected, subs, accepted>>
  BY <1>1 DEF purse, wallet, aepp
<1>8. \A x \in Sessions : toAepp'[x] = IF x = s /\ Flows(s) THEN Append(toAepp[x], r) ELSE toAepp[x]
  BY <1>1, <1>2, <1>4, SentFacts
<1>9. ASSUME NEW x \in Sessions PROVE NewsSame("view", toAepp[x], toAepp'[x])
  <2>1. NewsSame("view", toAepp[x], Append(toAepp[x], r)) /\ NewsSame("view", toAepp[x], toAepp[x])
    BY <1>2, <1>4, NewsAppend DEF NewsSame
  <2> QED BY <1>8, <2>1
<1>10. ASSUME NEW x \in Sessions, Watches(x)'
       PROVE  /\ Watches(x) /\ NewsSame("view", toAepp[x], toAepp'[x])
              /\ \A w \in Views : Fits(w, x) => Fits(w, x)'
  BY <1>6, <1>7, <1>9, <1>10 DEF Watches, Fits
<1>11. ASSUME NEW x \in Sessions, Fresh(x)'
       PROVE  \/ Fresh(x) /\ NewsSame("net", toAepp[x], toAepp'[x]) /\ node' = node
              \/ Ended("net", toAepp'[x], Here')
  <2>1. CASE x = s
    <3>1. Flows(x) /\ ~raced
      BY <1>1, <1>6, <1>11, AloneFlows DEF Fresh
    <3>2. Ended("net", Append(toAepp[x], r), v)
      BY <1>2, <1>3, <1>4, NewsAppend
    <3>3. t.node = node
      BY <1>1, <3>1 DEF Calm, NewsInv
    <3> QED BY <1>1, <1>8, <2>1, <3>1, <3>2, <3>3 DEF Here
  <2>2. CASE x # s
    <3>1. toAepp'[x] = toAepp[x]
      BY <1>8, <2>2
    <3> QED BY <1>1, <1>6, <1>7, <1>11, <3>1 DEF Fresh, Informed, NewsSame
  <2> QED BY <2>1, <2>2
<1> QED BY <1>1, <1>5, <1>6, <1>10, <1>11, NewsWallet

\* A client that is told of the accounts, as its subscription is now.
LEMMA NewsShown ==
    ASSUME Types, NewsInv, NEW s \in Sessions, NEW sub \in SUBSET Kinds, NEW m, m.id \in Ids,
           m.method \in {"subscribe", "unsubscribe"},
           subs' = [subs EXCEPT ![s] = sub],
           toAepp' = Sent(toAepp, s, Result(m, _getAccountsForClient(getAccounts, sub))),
           sub # {} => lastId[s] > 0 /\ status[s] \notin {"new", "waiting"},
           tasks' \subseteq tasks,
           UNCHANGED <<setup, purse, aepp, calls, lastId, node, fetching, raced, known, status, heard>>
    PROVE  NewsInv'
<1> DEFINE v == _getAccountsForClient(getAccounts, sub)  r == Result(m, v)
<1>1. toAepp \in [Sessions -> Seq(AeppMessages)] /\ subs \in [Sessions -> SUBSET Kinds]
  BY DEF Types, WalletTypes, QueueTypes
<1>2. r \in Results /\ r.value = v
  <2>1. v \in ValuesOf(m.method) /\ m.method \in Methods
    BY Shown DEF ValuesOf, Methods
  <2>2. r \in Results
    BY <2>1, AnswerOf
  <2> QED BY <2>2 DEF Result
<1>3. r \in AeppMessages /\ Tells("view", r) /\ ~Tells("net", r) /\ ~Greeting(r)
  <2>1. TellsView(r) /\ ~TellsNet(r)
    BY TellsFacts
  <2> QED BY <1>2, <2>1 DEF AeppMessages, Tells, TellsNet, Greeting
<1>4. toAepp' = Sent(toAepp, s, r) /\ v = ShownOf(accounts, selected, sub)
  BY DEF ShownOf, getAccounts
<1> HIDE DEF r, v
<1>5. \A x \in Sessions : toAepp'[x] = IF x = s /\ Flows(s) THEN Append(toAepp[x], r) ELSE toAepp[x]
  BY <1>1, <1>3, <1>4, SentFacts
<1>6. Calm'
  BY DEF Calm, NewsInv
<1>7. UNCHANGED <<attached, accepted, overlapped, accounts, selected>>
  BY DEF aepp, purse
<1>8. ASSUME NEW x \in Sessions
      PROVE  Follows(x)' /\ Alone(x)' = Alone(x) /\ _isRpcClientConnected(x)' = _isRpcClientConnected(x)
  <2>1. Follows(x)
    BY DEF NewsInv
  <2>2. subs'[x] # {} => lastId[x] > 0
    BY <1>1, <2>1 DEF Follows
  <2>3. status[x] \in {"new", "waiting"} => subs'[x] = {}
    BY <1>1, <2>1 DEF Follows
  <2>4. Follows(x)'
    BY <1>7, <2>1, <2>2, <2>3 DEF Follows
  <2> QED BY <1>7, <2>4 DEF Alone, SessionsOf, Owner, _isRpcClientConnected
<1>9. ASSUME NEW x \in Sessions
      PROVE  /\ NewsSame("net", toAepp[x], toAepp'[x]) /\ (Greeted(toAepp'[x]) => Greeted(toAepp[x]))
             /\ Flows(s) => Ended("view", toAepp'[s], v)
  <2>1. /\ NewsSame("net", toAepp[x], Append(toAepp[x], r)) /\ NewsSame("net", toAepp[x], toAepp[x])
        /\ Greeted(Append(toAepp[x], r)) => Greeted(toAepp[x])
    BY <1>1, <1>3, NewsAppend DEF NewsSame
  <2>2. Ended("view", Append(toAepp[s], r), v)
    BY <1>1, <1>2, <1>3, NewsAppend
  <2> QED BY <1>5, <2>1, <2>2
<1>10. ASSUME NEW x \in Sessions, Watches(x)'
       PROVE  \/ /\ Watches(x) /\ NewsSame("view", toAepp[x], toAepp'[x])
                 /\ \A w \in Views : Fits(w, x) => Fits(w, x)'
              \/ \E w \in Views : Ended("view", toAepp'[x], w) /\ Fits(w, x)'
  <2>1. Alone(x) /\ _isRpcClientConnected(x) /\ subs'[x] # {}
    BY <1>8, <1>10 DEF Watches
  <2>2. CASE x = s
    <3>1. sub # {} /\ subs'[x] = sub
      BY <1>1, <2>1, <2>2
    <3>2. accounts \in SUBSET Accounts /\ selected \in Accounts \cup {None}
      BY DEF Types, WalletTypes
    <3>3. v \in Views /\ FitsFor(v, accounts, selected, sub)
      BY <1>4, <3>1, <3>2, ShownFits
    <3>4. Ended("view", toAepp'[x], v)
      BY <1>9, <2>1, <2>2, AloneFlows
    <3> QED BY <1>7, <3>1, <3>3, <3>4 DEF Fits
  <2>3. CASE x # s
    <3>1. subs'[x] = subs[x] /\ toAepp'[x] = toAepp[x]
      BY <1>1, <1>5, <2>3
    <3> QED BY <1>7, <2>1, <3>1 DEF Watches, Fits, NewsSame
  <2> QED BY <2>2, <2>3
<1>11. ASSUME NEW x \in Sessions, Fresh(x)'
       PROVE  Fresh(x) /\ NewsSame("net", toAepp[x], toAepp'[x]) /\ node' = node
  BY <1>7, <1>8, <1>9, <1>11 DEF Fresh, Informed
<1> QED BY <1>6, <1>8, <1>10, <1>11, NewsWallet

\* A step of the wallet that answers no news, or waits for the user.
LEMMA NewsAnswered ==
    ASSUME Types, NewsInv, NEW s \in Sessions, NEW r \in AeppMessages, ~TellsView(r), ~TellsNet(r),
           toAepp' = toAepp \/ toAepp' = Sent(toAepp, s, r),
           \A t \in tasks' \ tasks : /\ t.stage # "info"
                                     /\ t.method = "subscribe" => status[t.s] = "connected",
           UNCHANGED <<setup, aepp, calls, lastId, purse, node, fetching, raced, wallet>>
    PROVE  NewsInv'
<1>1. toAepp \in [Sessions -> Seq(AeppMessages)]
  BY DEF Types, QueueTypes
<1>2. \A x \in Sessions : NoNews(toAepp[x], toAepp'[x])
  BY <1>1, NoNewsFacts
<1>3. \A x \in Sessions : Follows(x)
  BY DEF NewsInv
<1> QED BY <1>2, <1>3, NewsStill DEF wallet, Follows, _isRpcClientConnected

\* The wallet goes on after an await.
LEMMA NewsProceeds ==
    ASSUME Types, PlacesInv, NewsInv, NEW t \in tasks, Proceeds(t)
    PROVE  NewsInv'
<1>1. UNCHANGED <<setup, purse, ops, aepp, calls, lastId, toWallet>>
  BY DEF Proceeds
<1>2. /\ t \in TaskSet /\ t.s \in Sessions /\ t.id \in Ids /\ t.method \in Methods
      /\ t.arg \in ArgsOf(t.method) /\ t.node \in Nodes /\ node \in Nodes
  BY DEF TaskSet, Types, WalletTypes
<1>3. ASSUME NEW r \in Results \cup Failures, ~TellsView(r), ~TellsNet(r), Answers(t, r),
             UNCHANGED <<wallet, fetching, raced, node>>
      PROVE  NewsInv'
  <2>1. r \in AeppMessages /\ tasks' \subseteq tasks /\ toAepp' = Sent(toAepp, t.s, r)
    BY <1>3 DEF AeppMessages, Answers
  <2> QED BY <1>1, <1>2, <1>3, <2>1, NewsAnswered
<1>4. ASSUME NEW why \in {"rejected", "internal"}, Answers(t, Failure(t, why)), UNCHANGED <<wallet, fetching, raced, node>>
      PROVE  NewsInv'
  <2>1. Failure(t, why) \in Failures
    BY <1>2, AnswerOf
  <2> QED BY <1>3, <1>4, <2>1, TellsFacts
<1>5. ASSUME NEW v \in ValuesOf(t.method), t.method \in {"address", "sign"}, Answers(t, Result(t, v)),
             UNCHANGED <<wallet, fetching, raced, node>>
      PROVE  NewsInv'
  <2>1. Result(t, v) \in Results
    BY <1>2, AnswerOf
  <2> QED BY <1>3, <1>5, <2>1, TellsFacts
<1>6. CASE UserRejects(t)
  BY <1>4, <1>6 DEF UserRejects
<1>7. CASE AccountsShown(t)
  <2>1. accounts \in ValuesOf(t.method)
    BY <1>7 DEF AccountsShown, ValuesOf, Types, WalletTypes
  <2> QED BY <1>5, <1>7, <2>1 DEF AccountsShown
<1>8. CASE Signed(t)
  <2>1. <<t.arg, t.node>> \in ValuesOf(t.method)
    BY <1>2, <1>8 DEF Signed, ValuesOf, ArgsOf
  <2> QED BY <1>5, <1>8, <2>1 DEF Signed
<1>9. CASE AccountResolved(t)
  <2>1. CASE t.arg \in accounts
    <3> DEFINE next == [t EXCEPT !.stage = "user"]
    <3>1. tasks' = (tasks \ {t}) \cup {next} /\ toAepp' = toAepp /\ t.method = "sign"
          /\ UNCHANGED <<wallet, fetching, raced, node>>
      BY <1>9, <2>1 DEF AccountResolved
    <3>2. next.stage = "user" /\ next.method = "sign"
      BY <1>2, <3>1 DEF TaskSet
    <3> HIDE DEF next
    <3>3. Goodbye \in AeppMessages /\ ~TellsView(Goodbye) /\ ~TellsNet(Goodbye)
      BY TellsFacts DEF AeppMessages, Pushes
    <3> QED BY <1>1, <1>2, <3>1, <3>2, <3>3, NewsAnswered
  <2>2. CASE t.arg \notin accounts
    BY <1>4, <1>9, <2>2 DEF AccountResolved
  <2> QED BY <2>1, <2>2
<1>10. CASE NetworkAccepted(t)
  <2>1. Selects(t.arg, t) /\ tasks' \subseteq tasks /\ UNCHANGED <<wallet, toAepp>>
    BY <1>10 DEF NetworkAccepted
  <2> QED BY <1>1, <2>1, NewsSelects
<1>11. CASE SubscriptionAccepted(t)
  <2> DEFINE sub == subs[t.s] \cup {t.arg}
  <2>1. /\ t.method = "subscribe" /\ subs' = [subs EXCEPT ![t.s] = sub] /\ tasks' \subseteq tasks
        /\ UNCHANGED <<known, status, heard, fetching, raced, node>>
        /\ toAepp' = Sent(toAepp, t.s, Result(t, _getAccountsForClient(getAccounts, subs'[t.s])))
    BY <1>11 DEF SubscriptionAccepted, Answers
  <2>2. subs \in [Sessions -> SUBSET Kinds] /\ t.arg \in Kinds
    BY <1>2, <2>1 DEF ArgsOf, Types, WalletTypes
  <2>3. sub \in SUBSET Kinds /\ subs'[t.s] = sub
    BY <1>2, <2>1, <2>2
  <2> HIDE DEF sub
  <2>4. lastId[t.s] > 0
    <3>1. Entry(t) \in Tended(t.s) /\ Entry(t).id = t.id
      BY DEF Tended, Entry
    <3>2. t.id <= lastId[t.s]
      BY <1>2, <3>1 DEF PlacesInv, PlacesOK, Placed
    <3>3. t.id \in Nat /\ t.id >= 1 /\ lastId[t.s] \in Nat
      BY <1>2, EntryIds, BoundAssumption DEF Ids
    <3> QED BY <3>2, <3>3
  <2>5. status[t.s] \notin {"new", "waiting"}
    BY <1>2, <2>1 DEF NewsInv, Follows
  <2> QED BY <1>1, <1>2, <2>1, <2>3, <2>4, <2>5, NewsShown
<1> QED BY <1>1, <1>6, <1>7, <1>8, <1>9, <1>10, <1>11, NewsAccepted, NewsInfo DEF Proceeds

\* The wallet gets a message.
LEMMA NewsWalletHears ==
    ASSUME Types, NewsInv, NEW s \in Sessions, WalletHears(s)
    PROVE  NewsInv'
<1>1. UNCHANGED <<setup, purse, node, fetching, ops, aepp, calls, lastId, raced>>
  BY DEF WalletHears
<1>2. Goodbye \in AeppMessages /\ ~TellsView(Goodbye) /\ ~TellsNet(Goodbye)
  BY TellsFacts DEF AeppMessages, Pushes
<1>3. ASSUME NEW method \in Methods, Hears(s, method), NEW why \in {"notAuthorized", "permissionDeny"}, Refuses(s, why)
      PROVE  NewsInv'
  <2> DEFINE r == Failure(Head(toWallet[s]), why)
  <2>1. Head(toWallet[s]) \in Requests
    BY <1>3, HearsFacts
  <2>2. r \in Failures /\ toAepp' = Sent(toAepp, s, r) /\ tasks' = tasks /\ UNCHANGED wallet
    BY <1>3, <2>1, MessageTypes, AnswerOf DEF Refuses
  <2> HIDE DEF r
  <2>3. r \in AeppMessages /\ ~TellsView(r) /\ ~TellsNet(r)
    BY <2>2, TellsFacts DEF AeppMessages
  <2> QED BY <1>1, <2>2, <2>3, NewsAnswered
<1>4. ASSUME NEW method \in Methods, Hears(s, method), NEW stage \in {"user", "network"}, Awaits(s, stage),
             method = "subscribe" => status[s] = "connected"
      PROVE  NewsInv'
  <2> DEFINE t == Task(s, stage)
  <2>1. Head(toWallet[s]) \in Requests /\ Head(toWallet[s]).method = method
    BY <1>4, HearsFacts
  <2>2. t.s = s /\ t.stage = stage /\ t.method = method
    BY <2>1 DEF Task
  <2>3. tasks' = tasks \cup {t} /\ UNCHANGED <<wallet, toAepp>>
    BY <1>4 DEF Awaits
  <2> HIDE DEF t
  <2> QED BY <1>1, <1>2, <1>4, <2>2, <2>3, NewsAnswered
<1>5. CASE HearsConnect(s)
  BY <1>4, <1>5 DEF HearsConnect, Methods
<1>6. CASE HearsQuestion(s)
  <2>1. PICK method \in {"subscribe", "address", "updateNetwork"} :
          /\ Hears(s, method)
          /\ IF _isRpcClientConnected(s) THEN Awaits(s, "user") ELSE Refuses(s, "notAuthorized")
    BY <1>6 DEF HearsQuestion
  <2>2. method \in Methods
    BY DEF Methods
  <2>3. CASE _isRpcClientConnected(s)
    BY <1>4, <2>1, <2>2, <2>3 DEF _isRpcClientConnected
  <2>4. CASE ~_isRpcClientConnected(s)
    BY <1>3, <2>1, <2>2, <2>4
  <2> QED BY <2>3, <2>4
<1>7. CASE HearsSign(s)
  BY <1>3, <1>4, <1>7 DEF HearsSign, Methods
<1>8. CASE HearsUnsubscribe(s)
  <2>1. Hears(s, "unsubscribe") /\ "unsubscribe" \in Methods
    BY <1>8 DEF HearsUnsubscribe, Methods
  <2>2. CASE ~_isRpcClientConnected(s)
    BY <1>3, <1>8, <2>1, <2>2 DEF HearsUnsubscribe
  <2>3. CASE _isRpcClientConnected(s)
    <3> DEFINE m == Head(toWallet[s])  left == subs[s] \ {m.arg}
    <3>1. /\ subs' = [subs EXCEPT ![s] = left] /\ tasks' = tasks /\ UNCHANGED <<known, status, heard>>
          /\ toAepp' = Sent(toAepp, s, Result(m, _getAccountsForClient(getAccounts, left)))
      BY <1>8, <2>3 DEF HearsUnsubscribe
    <3>2. m.id \in Ids /\ m.method = "unsubscribe"
      BY <2>1, HearsFacts, MessageTypes
    <3>3. left \in SUBSET Kinds
      BY DEF Types, WalletTypes
    <3>4. left # {} => lastId[s] > 0 /\ status[s] \notin {"new", "waiting"}
      BY <2>3 DEF NewsInv, Follows, _isRpcClientConnected
    <3> HIDE DEF left, m
    <3> QED BY <1>1, <3>1, <3>2, <3>3, <3>4, NewsShown
  <2> QED BY <2>2, <2>3
<1>9. CASE HearsGoodbye(s)
  <2>1. /\ heard' = heard \ {s} /\ status' = [status EXCEPT ![s] = "disconnected"] /\ subs' = [subs EXCEPT ![s] = {}]
        /\ known' \subseteq known /\ tasks' = tasks /\ toAepp' = Closed(toAepp, s)
    BY <1>9 DEF HearsGoodbye, Dropped
  <2>2. \A x \in Sessions \ {s} : toAepp'[x] = toAepp[x]
    BY <2>1, LetGoOthers
  <2> QED BY <1>1, <2>1, <2>2, NewsLetGo
<1>10. CASE HearsPortClosed(s)
  <2>1. known' = known \ {s} /\ UNCHANGED <<status, subs, heard, tasks, toAepp>>
    BY <1>10 DEF HearsPortClosed
  <2>2. \A x \in Sessions : Follows(x) /\ NoNews(toAepp[x], toAepp'[x])
    BY <2>1 DEF NewsInv, NoNews, NewsSame
  <2> QED BY <1>1, <2>1, <2>2, NewsStill DEF Follows, _isRpcClientConnected
<1>11. CASE MissesAtWallet(s)
  <2>1. tasks' = tasks /\ toAepp' = toAepp /\ UNCHANGED wallet
    BY <1>11 DEF MissesAtWallet
  <2> QED BY <1>1, <1>2, <2>1, NewsAnswered
<1> QED BY <1>5, <1>6, <1>7, <1>8, <1>9, <1>10, <1>11 DEF WalletHears

-----------------------------------------------------------------------------
(* Steps of the aepps *)

\* A step of an aepp: what an aepp has alone comes from what it was told.
LEMMA NewsAepp ==
    ASSUME Types, PlacesInv, HeldInv, NewsInv, overlapped \subseteq overlapped',
           UNCHANGED <<setup, wallet, purse, node, tasks, fetching, raced>>,
           \A x \in Sessions :
             /\ lastId[x] > 0 => lastId'[x] > 0
             /\ \A c \in calls'[x] : c.method = "connect" => c.id = 1 /\ x \notin accepted'
             /\ x \in attached' => x \in attached \/ (lastId[x] = 0 /\ accepted' = accepted /\ toAepp' = toAepp)
             /\ x \in attached /\ Alone(x) /\ Alone(x)' /\ _isRpcClientConnected(x) =>
                  /\ \A v : Ends("view", toAepp[x], view[Owner(x)], v) => Ends("view", toAepp'[x], view'[Owner(x)], v)
                  /\ \A v : Ends("net", toAepp[x], net[Owner(x)], v) => Ends("net", toAepp'[x], net'[Owner(x)], v)
                  /\ x \in accepted' \/ Greeted(toAepp'[x]) => Informed(x)
    PROVE  NewsInv'
<1>1. Calm'
  BY DEF Calm, NewsInv
<1>2. UNCHANGED <<known, status, subs, heard, accounts, selected>>
  BY DEF wallet, purse
<1>3. ASSUME NEW x \in Sessions PROVE Follows(x)'
  BY <1>2 DEF Follows, NewsInv
<1>4. ASSUME NEW x \in Sessions, Alone(x)', _isRpcClientConnected(x)'
      PROVE  /\ _isRpcClientConnected(x)
             /\ \/ /\ Alone(x)
                   /\ \A v : Ends("view", toAepp[x], view[Owner(x)], v) => Ends("view", toAepp'[x], view'[Owner(x)], v)
                   /\ \A v : Ends("net", toAepp[x], net[Owner(x)], v) => Ends("net", toAepp'[x], net'[Owner(x)], v)
                   /\ Informed(x)' => Informed(x)
                \/ subs[x] = {} /\ ~Informed(x)'
  <2>1. _isRpcClientConnected(x)
    BY <1>2, <1>4 DEF _isRpcClientConnected
  <2>2. x \in attached'
    BY <1>4 DEF Alone
  <2>3. CASE x \in attached
    <3>1. Alone(x)
      BY <1>4, <2>3, AloneBefore
    <3> QED BY <1>4, <2>1, <2>3, <3>1 DEF Informed
  <2>4. CASE x \notin attached
    <3>1. lastId[x] = 0 /\ accepted' = accepted /\ toAepp' = toAepp
      BY <2>2, <2>4
    <3>2. subs[x] = {}
      BY <3>1 DEF NewsInv, Follows
    <3>3. x \notin accepted
      BY <3>1, HeldFacts
    <3>4. ~Greeted(toAepp[x])
      <4> SUFFICES ASSUME Greeted(toAepp[x]) PROVE FALSE
        OBVIOUS
      <4>1. PICK c \in Answered(x) : c.method = "connect"
        BY GreetedAnswers
      <4>2. c.id <= lastId[x]
        BY DEF PlacesInv, PlacesOK, Placed
      <4>3. c.id \in Nat /\ c.id >= 1
        BY EntryIds, BoundAssumption DEF Ids
      <4> QED BY <3>1, <4>2, <4>3
    <3> QED BY <2>1, <3>1, <3>2, <3>3, <3>4 DEF Informed
  <2> QED BY <2>3, <2>4
<1>5. ASSUME NEW x \in Sessions PROVE ViewToCome(x)'
  <2>1. Owner(x)' = Owner(x)
    BY DEF Owner
  <2> SUFFICES ASSUME Watches(x)' PROVE \E v \in Views : Ends("view", toAepp'[x], view'[Owner(x)], v) /\ Fits(v, x)'
    BY <2>1 DEF ViewToCome
  <2>2. Alone(x)' /\ _isRpcClientConnected(x)' /\ subs[x] # {}
    BY <1>2 DEF Watches
  <2>3. Watches(x) /\ \A v : Ends("view", toAepp[x], view[Owner(x)], v) => Ends("view", toAepp'[x], view'[Owner(x)], v)
    BY <1>4, <2>2 DEF Watches
  <2>4. PICK v \in Views : Ends("view", toAepp[x], view[Owner(x)], v) /\ Fits(v, x)
    BY <2>3 DEF NewsInv, ViewToCome
  <2> QED BY <1>2, <2>3, <2>4 DEF Fits
<1>6. ASSUME NEW x \in Sessions PROVE NetToCome(x)'
  <2>1. Owner(x)' = Owner(x) /\ Here' = Here
    BY DEF Owner, Here
  <2> SUFFICES ASSUME Fresh(x)' PROVE Ends("net", toAepp'[x], net'[Owner(x)], Here)
    BY <2>1 DEF NetToCome
  <2>2. Alone(x)' /\ _isRpcClientConnected(x)' /\ Informed(x)' /\ fetching = {} /\ ~raced
    BY DEF Fresh
  <2>3. Fresh(x) /\ \A v : Ends("net", toAepp[x], net[Owner(x)], v) => Ends("net", toAepp'[x], net'[Owner(x)], v)
    BY <1>4, <2>2 DEF Fresh
  <2> QED BY <2>3 DEF NewsInv, NetToCome
<1> QED BY <1>1, <1>3, <1>5, <1>6 DEF NewsInv

\* The sessions of other aepps, and the other sessions of one that has several,
\* see nothing of what a session does.
LEMMA OthersApart ==
    ASSUME Types, HeldInv, NEW s \in Sessions, s \in attached, UNCHANGED setup, overlapped \subseteq overlapped',
           NEW x \in Sessions, x \in attached, Alone(x)', x # s
    PROVE  Owner(x) # Owner(s)
BY AloneBefore, HeldFacts

\* An aepp that lets a session go.
LEMMA NewsLetsGo ==
    ASSUME Types, PlacesInv, HeldInv, NewsInv, NEW s \in Sessions, s \in attached, LetsGo(s),
           UNCHANGED <<setup, wallet, purse, node, tasks, fetching, raced, net, accepted, overlapped, lastId, calls>>,
           \A x \in Sessions \ {s} : toAepp'[x] = toAepp[x]
    PROVE  NewsInv'
<1>1. /\ attached' = attached \ {s}
      /\ view' = IF Window(s) THEN [view EXCEPT ![Owner(s)] = None] ELSE view
  BY DEF LetsGo, OnDisconnect
<1>2. view \in [Aepps -> Views \cup {None}] /\ \A x \in Sessions : Owner(x) \in Aepps
  BY SetupAssumption DEF Types, AeppTypes, SetupType, Owner
<1>3. ASSUME NEW x \in Sessions, x \in attached, Alone(x)'
      PROVE  x # s /\ view'[Owner(x)] = view[Owner(x)] /\ toAepp'[x] = toAepp[x]
  <2>1. x \in attached'
    BY <1>3 DEF Alone
  <2>2. x # s
    BY <1>1, <2>1
  <2>3. Owner(x) # Owner(s)
    BY <1>3, <2>2, OthersApart
  <2> QED BY <1>1, <1>2, <2>2, <2>3
<1>4. \A x \in Sessions : Follows(x)
  BY DEF NewsInv
<1> QED BY <1>1, <1>3, <1>4, NewsAepp DEF Follows, Informed

\* What the user of an aepp does.
LEMMA NewsAeppUser ==
    ASSUME Types, PlacesInv, HeldInv, NewsInv, AeppUser
    PROVE  NewsInv'
<1>1. \A x \in Sessions : Follows(x)
  BY DEF NewsInv
<1>2. lastId \in [Sessions -> 0..MaxRequests] /\ calls \in [Sessions -> SUBSET [id : Ids, method : Methods]]
  BY DEF Types, AeppTypes
<1>3. ASSUME NEW s \in Sessions, Connect(s) PROVE NewsInv'
  <2>1. /\ lastId[s] = 0 /\ attached' = attached \cup {s} /\ accepted' = accepted /\ overlapped \subseteq overlapped'
        /\ lastId' = [lastId EXCEPT ![s] = 1] /\ calls' = [calls EXCEPT ![s] = {[id |-> 1, method |-> "connect"]}]
        /\ UNCHANGED <<setup, wallet, purse, node, tasks, fetching, raced, view, net, toAepp>>
    BY <1>3 DEF Connect
  <2>2. s \notin accepted
    BY <2>1, HeldFacts
  <2>3. \A x \in Sessions : /\ lastId[x] > 0 => lastId'[x] > 0
                            /\ \A c \in calls'[x] : c.method = "connect" => c.id = 1 /\ x \notin accepted'
    BY <1>1, <1>2, <2>1, <2>2 DEF Follows
  <2> QED BY <2>1, <2>3, NewsAepp DEF Informed
<1>4. ASSUME NEW s \in Sessions, NEW method \in Methods, method # "connect", NEW arg \in ArgsOf(method),
             Calls(s, method, arg), UNCHANGED aepp
      PROVE  NewsInv'
  <2>1. /\ lastId[s] \in Nat /\ lastId' = [lastId EXCEPT ![s] = lastId[s] + 1]
        /\ calls' = IF Window(s) \/ s \in attached
                    THEN [calls EXCEPT ![s] = @ \cup {[id |-> lastId[s] + 1, method |-> method]}] ELSE calls
        /\ UNCHANGED <<setup, wallet, purse, node, tasks, fetching, raced, toAepp>>
    BY <1>4, CallsFacts
  <2>2. UNCHANGED <<view, net, attached, accepted, overlapped>>
    BY <1>4 DEF aepp
  <2>3. \A x \in Sessions : lastId[x] > 0 => lastId'[x] > 0
    BY <1>2, <2>1
  <2>4. \A x \in Sessions : \A c \in calls'[x] : c.method = "connect" => c.id = 1 /\ x \notin accepted'
    <3>1. \A x \in Sessions : \A c \in calls'[x] : c \in calls[x] \/ c.method = method
      BY <1>2, <2>1
    <3> QED BY <1>1, <1>4, <2>2, <3>1 DEF Follows
  <2> QED BY <2>1, <2>2, <2>3, <2>4, NewsAepp DEF Informed
<1>5. ASSUME NEW s \in Sessions, Asks(s) PROVE NewsInv'
  <2>1. CASE \E method \in {"subscribe", "unsubscribe"}, value \in {"current", "connected"} : Calls(s, method, value)
    BY <1>4, <1>5, <2>1 DEF Asks, Methods, ArgsOf, Kinds
  <2>2. CASE Calls(s, "address", None)
    BY <1>4, <1>5, <2>2 DEF Asks, Methods, ArgsOf
  <2>3. CASE \E n \in Nodes : Calls(s, "updateNetwork", n)
    BY <1>4, <1>5, <2>3 DEF Asks, Methods, ArgsOf
  <2> QED BY <1>5, <2>1, <2>2, <2>3 DEF Asks
<1>6. ASSUME NEW s \in Sessions, AsksToSign(s) PROVE NewsInv'
  BY <1>4, <1>6 DEF AsksToSign, Methods, ArgsOf
<1>7. ASSUME NEW s \in Sessions, Disconnect(s) PROVE NewsInv'
  <2>1. /\ s \in attached /\ LetsGo(s) /\ toAepp' = toAepp
        /\ UNCHANGED <<setup, wallet, purse, node, tasks, fetching, raced, net, accepted, overlapped, lastId, calls>>
    BY <1>7 DEF Disconnect
  <2> QED BY <2>1, NewsLetsGo
<1> QED BY <1>3, <1>5, <1>6, <1>7 DEF AeppUser

\* An aepp that keeps what a message tells.
LEMMA NewsRead ==
    ASSUME Types, PlacesInv, HeldInv, NewsInv, NEW s \in Sessions, s \in attached, toAepp[s] # <<>>,
           toAepp' = [toAepp EXCEPT ![s] = Tail(@)],
           view' = IF TellsView(Head(toAepp[s])) THEN [view EXCEPT ![Owner(s)] = Head(toAepp[s]).value] ELSE view,
           net' = IF TellsNet(Head(toAepp[s])) THEN [net EXCEPT ![Owner(s)] = Head(toAepp[s]).value] ELSE net,
           accepted' = accepted \/ (Greeting(Head(toAepp[s])) /\ accepted' = accepted \cup {s}),
           \A x \in Sessions : \A c \in calls'[x] : c.method = "connect" => c.id = 1 /\ x \notin accepted',
           UNCHANGED <<setup, wallet, purse, node, tasks, fetching, raced, attached, overlapped, lastId>>
    PROVE  NewsInv'
<1>1. /\ view \in [Aepps -> Views \cup {None}] /\ net \in [Aepps -> Nets \cup {None}]
      /\ \A x \in Sessions : Owner(x) \in Aepps
      /\ toAepp \in [Sessions -> Seq(AeppMessages)]
  BY SetupAssumption DEF Types, AeppTypes, QueueTypes, SetupType, Owner
<1>2. ASSUME NEW x \in Sessions, x \in attached, Alone(x)'
      PROVE  /\ \A v : Ends("view", toAepp[x], view[Owner(x)], v) => Ends("view", toAepp'[x], view'[Owner(x)], v)
             /\ \A v : Ends("net", toAepp[x], net[Owner(x)], v) => Ends("net", toAepp'[x], net'[Owner(x)], v)
             /\ x \in accepted' \/ Greeted(toAepp'[x]) => Informed(x)
  <2>1. CASE x = s
    <3> DEFINE q == toAepp[s]  m == Head(q)  a == Owner(s)
    <3>1. toAepp'[x] = Tail(q) /\ q \in Seq(AeppMessages) /\ a \in Aepps
      BY <1>1, <2>1
    <3>2. /\ view'[a] = IF Tells("view", m) THEN m.value ELSE view[a]
          /\ net'[a] = IF Tells("net", m) THEN m.value ELSE net[a]
      BY <1>1, <3>1 DEF Tells
    <3>3. ASSUME NEW v, Ends("view", q, view[a], v) PROVE Ends("view", Tail(q), view'[a], v)
      BY <3>1, <3>2, <3>3, NewsTail
    <3>4. ASSUME NEW v, Ends("net", q, net[a], v) PROVE Ends("net", Tail(q), net'[a], v)
      BY <3>1, <3>2, <3>4, NewsTail
    <3>5. (Greeted(Tail(q)) => Greeted(q)) /\ (Greeting(m) => Greeted(q))
      BY <3>1, GreetedTail
    <3> QED BY <2>1, <3>1, <3>3, <3>4, <3>5 DEF Informed
  <2>2. CASE x # s
    <3>1. Owner(x) # Owner(s)
      BY <1>2, <2>2, OthersApart
    <3>2. view'[Owner(x)] = view[Owner(x)] /\ net'[Owner(x)] = net[Owner(x)] /\ toAepp'[x] = toAepp[x]
      BY <1>1, <2>2, <3>1
    <3> QED BY <2>2, <3>2 DEF Informed
  <2> QED BY <2>1, <2>2
<1> QED BY <1>2, NewsAepp

\* An aepp gets a message.
LEMMA NewsAeppHears ==
    ASSUME Types, PlacesInv, HeldInv, NewsInv, NEW s \in Sessions, AeppHears(s)
    PROVE  NewsInv'
<1> DEFINE m == Head(toAepp[s])
<1>1. UNCHANGED <<setup, wallet, purse, node, tasks, fetching, ops, lastId, raced>>
  BY DEF AeppHears
<1>2. /\ calls \in [Sessions -> SUBSET [id : Ids, method : Methods]] /\ \A x \in Sessions : Follows(x)
      /\ view \in [Aepps -> Views \cup {None}] /\ \A x \in Sessions : Owner(x) \in Aepps
      /\ toAepp \in [Sessions -> Seq(AeppMessages)]
  BY SetupAssumption DEF Types, AeppTypes, QueueTypes, NewsInv, SetupType, Owner
<1>3. ASSUME NEW type, NEW method, Gets(s, type, method)
      PROVE  s \in attached /\ toAepp[s] # <<>> /\ toAepp' = [toAepp EXCEPT ![s] = Tail(@)] /\ m.type = type /\ m.method = method
  BY <1>3, GetsFacts
<1>4. ASSUME Settles(s) \/ calls' = calls PROVE \A x \in Sessions : calls'[x] \subseteq calls[x]
  BY <1>2, <1>4 DEF Settles
<1>5. ASSUME \A x \in Sessions : calls'[x] \subseteq calls[x], accepted' = accepted
      PROVE  \A x \in Sessions : \A c \in calls'[x] : c.method = "connect" => c.id = 1 /\ x \notin accepted'
  BY <1>2, <1>5 DEF Follows
<1> HIDE DEF m
<1>6. CASE GetsWalletInfo(s)
  <2>1. /\ Gets(s, "result", "connect") /\ Settles(s) /\ net' = [net EXCEPT ![Owner(s)] = m.value]
        /\ accepted' = accepted \cup {s} /\ UNCHANGED <<view, attached, overlapped>>
    BY <1>6 DEF GetsWalletInfo, m
  <2>2. s \in attached /\ toAepp[s] # <<>> /\ toAepp' = [toAepp EXCEPT ![s] = Tail(@)] /\ m.type = "result" /\ m.method = "connect"
    BY <1>3, <2>1
  <2>3. ~TellsView(m) /\ TellsNet(m) /\ Greeting(m)
    BY <2>2 DEF TellsView, TellsNet, Greeting
  <2>4. m.id = 1
    <3>1. m \in AeppMessages /\ PlacesOK(s)
      BY <1>2, <2>2, TailFacts DEF m, PlacesInv
    <3>2. Entry(m) \in Answered(s)
      <4>1. OnceIn(toAepp[s], Responses) /\ m.type \in Responses
        BY <2>2, <3>1 DEF PlacesOK, Responses
      <4> QED BY <1>2, <2>2, <4>1, TailEntries DEF m, Answered
    <3>3. Entry(m) \in calls[s]
      BY <2>2, <3>1, <3>2 DEF PlacesOK, Placed
    <3>4. Entry(m).method = "connect" /\ Entry(m).id = m.id
      BY <2>2 DEF Entry
    <3> QED BY <1>2, <3>3, <3>4 DEF Follows
  <2>5. ASSUME NEW x \in Sessions, NEW c \in calls'[x], c.method = "connect" PROVE c.id = 1 /\ x \notin accepted'
    <3>1. calls'[x] \subseteq calls[x]
      BY <1>4, <2>1
    <3>2. c.id = 1 /\ x \notin accepted
      BY <1>2, <2>5, <3>1 DEF Follows
    <3>3. x # s
      <4>1. \A d \in calls'[s] : d.id # m.id
        BY <1>2, <2>1 DEF Settles, m
      <4> QED BY <2>4, <2>5, <3>2, <4>1
    <3> QED BY <2>1, <3>2, <3>3
  <2> QED BY <1>1, <2>1, <2>2, <2>3, <2>5, NewsRead DEF m
<1>7. CASE GetsSubscription(s)
  <2>1. PICK method \in {"subscribe", "unsubscribe"} : Gets(s, "result", method)
    BY <1>7 DEF GetsSubscription
  <2>2. /\ Settles(s) /\ view' = [view EXCEPT ![Owner(s)] = m.value]
        /\ UNCHANGED <<rpc, net, attached, accepted, overlapped>>
    BY <1>7 DEF GetsSubscription, m
  <2>3. s \in attached /\ toAepp[s] # <<>> /\ toAepp' = [toAepp EXCEPT ![s] = Tail(@)] /\ m.type = "result" /\ m.method = method
    BY <1>3, <2>1
  <2>4. TellsView(m) /\ ~TellsNet(m)
    BY <2>1, <2>3 DEF TellsView, TellsNet
  <2>5. \A x \in Sessions : \A c \in calls'[x] : c.method = "connect" => c.id = 1 /\ x \notin accepted'
    BY <1>4, <1>5, <2>2
  <2> QED BY <1>1, <2>2, <2>3, <2>4, <2>5, NewsRead DEF m
<1>8. CASE GetsAnswer(s)
  <2>1. PICK type \in {"result", "error"}, method \in Methods :
          Gets(s, type, method) /\ (type = "result" => method \in {"address", "sign", "updateNetwork"})
    BY <1>8 DEF GetsAnswer, Methods
  <2>2. Settles(s) /\ UNCHANGED <<rpc, view, net, attached, accepted, overlapped>>
    BY <1>8 DEF GetsAnswer, aepp
  <2>3. s \in attached /\ toAepp[s] # <<>> /\ toAepp' = [toAepp EXCEPT ![s] = Tail(@)] /\ m.type = type /\ m.method = method
    BY <1>3, <2>1
  <2>4. ~TellsView(m) /\ ~TellsNet(m)
    BY <2>1, <2>3 DEF TellsView, TellsNet
  <2>5. \A x \in Sessions : \A c \in calls'[x] : c.method = "connect" => c.id = 1 /\ x \notin accepted'
    BY <1>4, <1>5, <2>2
  <2> QED BY <1>1, <2>2, <2>3, <2>4, <2>5, NewsRead DEF m
<1>9. CASE GetsAccounts(s)
  <2>1. /\ Gets(s, "notify", "updateAddress") /\ view' = [view EXCEPT ![Owner(s)] = m.value]
        /\ UNCHANGED <<rpc, net, attached, accepted, overlapped, calls>>
    BY <1>9 DEF GetsAccounts, m
  <2>2. s \in attached /\ toAepp[s] # <<>> /\ toAepp' = [toAepp EXCEPT ![s] = Tail(@)] /\ m.type = "notify" /\ m.method = "updateAddress"
    BY <1>3, <2>1
  <2>3. TellsView(m) /\ ~TellsNet(m)
    BY <2>2 DEF TellsView, TellsNet
  <2>4. \A x \in Sessions : \A c \in calls'[x] : c.method = "connect" => c.id = 1 /\ x \notin accepted'
    BY <1>4, <1>5, <2>1
  <2> QED BY <1>1, <2>1, <2>2, <2>3, <2>4, NewsRead DEF m
<1>10. CASE GetsNetwork(s)
  <2>1. /\ Gets(s, "notify", "updateNetwork") /\ net' = [net EXCEPT ![Owner(s)] = m.value]
        /\ UNCHANGED <<rpc, view, attached, accepted, overlapped, calls>>
    BY <1>10 DEF GetsNetwork, m
  <2>2. s \in attached /\ toAepp[s] # <<>> /\ toAepp' = [toAepp EXCEPT ![s] = Tail(@)] /\ m.type = "notify" /\ m.method = "updateNetwork"
    BY <1>3, <2>1
  <2>3. ~TellsView(m) /\ TellsNet(m)
    BY <2>2 DEF TellsView, TellsNet
  <2>4. \A x \in Sessions : \A c \in calls'[x] : c.method = "connect" => c.id = 1 /\ x \notin accepted'
    BY <1>4, <1>5, <2>1
  <2> QED BY <1>1, <2>1, <2>2, <2>3, <2>4, NewsRead DEF m
<1>11. CASE GetsGoodbye(s)
  <2>1. Gets(s, "notify", "closeConnection") /\ LetsGo(s) /\ UNCHANGED <<net, accepted, overlapped, calls>>
    BY <1>11 DEF GetsGoodbye
  <2>2. s \in attached /\ \A x \in Sessions \ {s} : toAepp'[x] = toAepp[x]
    BY <1>2, <1>3, <2>1
  <2> QED BY <1>1, <2>1, <2>2, NewsLetsGo
<1>12. CASE GetsPortClosed(s)
  <2>1. /\ Gets(s, "closed", "closed") /\ view' = [view EXCEPT ![Owner(s)] = None]
        /\ UNCHANGED <<net, attached, accepted, overlapped, calls>>
    BY <1>12 DEF GetsPortClosed, OnDisconnect
  <2>2. s \in attached /\ toAepp' = [toAepp EXCEPT ![s] = Tail(@)]
    BY <1>3, <2>1
  <2>3. s \notin heard
    <3>1. Has(toAepp[s], PortClosed)
      BY <2>1, GetsFacts
    <3> QED BY <3>1, HeldFacts DEF PortGone
  <2>4. ASSUME NEW x \in Sessions, x \in attached, Alone(x)', _isRpcClientConnected(x)
        PROVE  view'[Owner(x)] = view[Owner(x)] /\ toAepp'[x] = toAepp[x]
    <3>1. x # s
      BY <2>3, <2>4 DEF _isRpcClientConnected
    <3>2. Owner(x) # Owner(s)
      BY <1>1, <2>1, <2>2, <2>4, <3>1, OthersApart
    <3> QED BY <1>2, <2>1, <2>2, <3>1, <3>2
  <2>5. \A x \in Sessions : \A c \in calls'[x] : c.method = "connect" => c.id = 1 /\ x \notin accepted'
    BY <1>4, <1>5, <2>1
  <2> QED BY <1>1, <2>1, <2>4, <2>5, NewsAepp DEF Informed
<1>13. CASE MissesAtAepp(s)
  <2>1. s \notin attached /\ toAepp' = [toAepp EXCEPT ![s] = Tail(@)] /\ calls' = calls
        /\ UNCHANGED <<view, net, attached, accepted, overlapped>>
    BY <1>13 DEF MissesAtAepp, aepp
  <2>2. \A x \in attached : x \in Sessions => toAepp'[x] = toAepp[x]
    BY <1>2, <2>1
  <2>3. \A x \in Sessions : \A c \in calls'[x] : c.method = "connect" => c.id = 1 /\ x \notin accepted'
    BY <1>4, <1>5, <2>1
  <2> QED BY <1>1, <2>1, <2>2, <2>3, NewsAepp DEF Informed
<1> QED BY <1>6, <1>7, <1>8, <1>9, <1>10, <1>11, <1>12, <1>13 DEF AeppHears

\* Every step tells the aepps of what it changes.
LEMMA NewsStep == Types /\ PlacesInv /\ HeldInv /\ NewsInv /\ [Next]_vars => NewsInv'
<1> SUFFICES ASSUME Types, PlacesInv, HeldInv, NewsInv, [Next]_vars PROVE NewsInv'
  OBVIOUS
<1>1. CASE UNCHANGED vars
  <2>1. UNCHANGED <<setup, aepp, calls, lastId, purse, node, fetching, raced, wallet, tasks, toAepp>>
    BY <1>1 DEF vars, rest
  <2>2. \A x \in Sessions : Follows(x) /\ NoNews(toAepp[x], toAepp'[x])
    BY <2>1 DEF NewsInv, NoNews, NewsSame
  <2> QED BY <2>1, <2>2, NewsStill DEF wallet, Follows, _isRpcClientConnected
<1> QED BY <1>1, NewsWalletUser, NewsWalletNode, NewsAeppUser, NewsProceeds, NewsWalletHears, NewsAeppHears DEF Next

\* At the start nobody is told anything.
LEMMA NewsInit == Init => NewsInv
<1> SUFFICES ASSUME Init PROVE NewsInv
  OBVIOUS
<1>1. ASSUME NEW s \in Sessions PROVE Follows(s) /\ ~Watches(s) /\ ~Fresh(s)
  BY DEF Init, Follows, Watches, Fresh, _isRpcClientConnected
<1> QED BY <1>1 DEF Init, NewsInv, Calm, ViewToCome, NetToCome

\* What an aepp has when nothing is on its way is what it was told last.
LEMMA NewsGive == NewsInv => AeppsUpToDate
<1> SUFFICES ASSUME NewsInv PROVE AeppsUpToDate
  OBVIOUS
<1>1. ViewUpToDate
  <2> SUFFICES ASSUME NEW s \in Sessions, Quiet(s), Alone(s), _isRpcClientConnected(s), subs[s] # {}
               PROVE  LET has == view[Owner(s)]
                          shown == _getAccountsForClient(getAccounts, subs[s])
                      IN /\ has # None
                         /\ shown.connected \subseteq has.connected \cup has.current
                         /\ selected # None => shown.current = has.current
                         /\ ((has.current \cup has.connected) \cap accounts) \subseteq (shown.current \cup shown.connected)
    BY DEF ViewUpToDate
  <2>1. PICK v \in Views : Ends("view", toAepp[s], view[Owner(s)], v) /\ Fits(v, s)
    BY DEF NewsInv, ViewToCome, Watches
  <2>2. v = view[Owner(s)]
    BY <2>1, NewsEmpty DEF Quiet
  <2>3. v # None
    BY NoneAssumption DEF Views
  <2>4. FitsFor(v, accounts, selected, subs[s]) /\ ShownOf(accounts, selected, subs[s]) = _getAccountsForClient(getAccounts, subs[s])
    BY <2>1 DEF Fits, ShownOf, getAccounts
  <2> QED BY <2>2, <2>3, <2>4 DEF FitsFor
<1>2. NetworkFresh
  <2> SUFFICES ASSUME NEW s \in Sessions, Quiet(s), Alone(s), s \in accepted, _isRpcClientConnected(s), fetching = {}, ~raced
               PROVE  net[Owner(s)] = Here
    BY DEF NetworkFresh, Here
  <2>1. Ends("net", toAepp[s], net[Owner(s)], Here)
    BY DEF NewsInv, NetToCome, Fresh, Informed
  <2> QED BY <2>1, NewsEmpty DEF Quiet
<1> QED BY <1>1, <1>2 DEF AeppsUpToDate

\* An aepp that is alone and connected has, once it has read what is on its
\* way, the accounts that the wallet would show it and the network of the
\* selected node: every change is pushed after it is made (AeSdkWallet.ts:136-176),
\* and what a session began with is not older (:233-264).
THEOREM AeppsStayUpToDate == Spec => []AeppsUpToDate
<1> DEFINE Inv == Types /\ PlacesInv /\ HeldInv /\ NewsInv
<1>1. Init => Inv
  BY SessionsInit, NewsInit
<1>2. Inv /\ [Next]_vars => Inv'
  BY TypesStep, PlacesStep, HeldStep, NewsStep
<1>3. Inv => AeppsUpToDate
  BY NewsGive
<1> QED BY <1>1, <1>2, <1>3, PTL DEF Spec

-----------------------------------------------------------------------------
(* The errors of RpcErrors, between peers of any two versions *)

\* What was thrown is an error of the peer, one of the handler's own, or no error.
ThrownSet == ErrorsOf(PeerClasses) \cup [class : {"TypeError"}, data : {"private"}]
             \cup [class : {"result"}, data : {NoData}]
Settling(e) == IF e.class = "result" THEN NoData ELSE toJSON(Revealed(e))

\* An answer on its way is that to what was thrown, and a request is settled after it.
AnswersOK ==
    /\ thrown \in [RequestIds -> ThrownSet \cup {NoData}] /\ settled \in [RequestIds -> Errors \cup {NoData}]
    /\ callbacks \subseteq RequestIds
    /\ \A r \in responses :
         /\ r.id \in RequestIds /\ thrown[r.id] # NoData
         /\ r.error = Settling(thrown[r.id])
    /\ \A id \in RequestIds : settled[id] # NoData => thrown[id] # NoData

\* No two classes have a code in common.
LEMMA CodesAreApart ==
    ASSUME NEW c \in RpcErrorClasses, NEW d \in RpcErrorClasses, RpcErrorCodes[c] = RpcErrorCodes[d]
    PROVE  c = d
BY DEF RpcErrorClasses, RpcErrorCodes

\* An error of a class both sides have is read as it was written, one of a newer class not at all.
LEMMA ReadAsWritten ==
    ASSUME NEW e \in Errors
    PROVE  /\ e.class \in RpcErrorClasses =>
                deserialize(toJSON(e)) = [class |-> e.class, data |-> IF e.class \in WithData THEN e.data ELSE NoData]
           /\ e.class \notin RpcErrorClasses => deserialize(toJSON(e)) = NoData
<1> DEFINE json == toJSON(e)
           found == {c \in Registered : RpcErrorCodes[c] = json.code}
<1>1. json.data = e.data
  BY DEF toJSON
<1>2. CASE e.class \in RpcErrorClasses
  <2>1. json.code = RpcErrorCodes[e.class]
    BY <1>2 DEF toJSON
  <2>2. found = {e.class}
    BY <1>2, <2>1, CodesAreApart DEF Registered
  <2>3. (CHOOSE c \in found : TRUE) = e.class
    BY <2>2
  <2> QED BY <1>1, <1>2, <2>2, <2>3 DEF deserialize
<1>3. CASE e.class \notin RpcErrorClasses
  <2>1. json.code = NewerCode
    BY <1>3 DEF toJSON
  <2>2. found = {}
    BY <2>1, RpcErrorsAssumption DEF Registered
  <2> QED BY <1>3, <2>2 DEF deserialize
<1> QED BY <1>2, <1>3

\* What a request is settled with, if its answer can be read.
LEMMA SettledRightly ==
    ASSUME NEW e \in ThrownSet
    PROVE  /\ e \in Errors /\ e # NoData
           /\ e.class = "result" => Settling(e) = NoData
           /\ e.class # "result" => Settling(e) # NoData
           /\ e.class # "result" =>
                LET d == deserialize(Settling(e)) IN
                \/ d = NoData /\ e.class \in PeerClasses \ RpcErrorClasses
                \/ d \in Errors /\ d = e
                \/ d \in Errors /\ e.class \notin PeerClasses /\ d.class = "RpcInternalError" /\ d.data = NoData
<1>1. e \in Errors /\ e # NoData
  BY RpcErrorsAssumption DEF ThrownSet, ErrorsOf, Errors
<1>2. Revealed(e) \in Errors
  BY <1>1 DEF Revealed, Errors, RpcErrorClasses
<1>3. toJSON(Revealed(e)) \in JsonErrors
  BY <1>2 DEF toJSON, JsonErrors, Errors
<1>4. ASSUME e.class # "result", e.class \in PeerClasses
      PROVE  LET d == deserialize(Settling(e)) IN
             \/ d = NoData /\ e.class \in PeerClasses \ RpcErrorClasses
             \/ d \in Errors /\ d = e
  <2>1. Settling(e) = toJSON(e)
    BY <1>4 DEF Settling, Revealed
  <2>2. CASE e.class \in RpcErrorClasses
    <3>1. e = [class |-> e.class, data |-> e.data] /\ (e.class \notin WithData => e.data = NoData)
      BY <2>2 DEF ThrownSet, ErrorsOf, RpcErrorClasses
    <3> QED BY <1>1, <2>1, <2>2, <3>1, ReadAsWritten
  <2>3. CASE e.class \notin RpcErrorClasses
    BY <1>1, <1>4, <2>1, <2>3, ReadAsWritten
  <2> QED BY <2>2, <2>3
<1>5. ASSUME e.class # "result", e.class \notin PeerClasses
      PROVE  LET d == deserialize(Settling(e)) IN
             d \in Errors /\ d.class = "RpcInternalError" /\ d.data = NoData
  <2>1. Settling(e) = toJSON([class |-> "RpcInternalError", data |-> NoData])
    BY <1>5 DEF Settling, Revealed
  <2>2. [class |-> "RpcInternalError", data |-> NoData] \in Errors /\ "RpcInternalError" \in RpcErrorClasses
    BY DEF Errors, RpcErrorClasses
  <2>3. deserialize(Settling(e)) = [class |-> "RpcInternalError", data |-> NoData]
    BY <2>1, <2>2, ReadAsWritten DEF WithData
  <2> QED BY <2>2, <2>3
<1> QED BY <1>1, <1>3, <1>4, <1>5, RpcErrorsAssumption DEF Settling

\* Errors arrive (schema.ts, RpcClient.ts): a request is rejected with the error the handler
\* threw, or with an internal one if that was none of the protocol, and stays pending only
\* after an error of a class that this side does not have.
THEOREM ErrorsAlwaysArrive == RpcSpec => []ErrorsArrive
<1>1. RpcInit => AnswersOK /\ ErrorsArrive
  BY DEF RpcInit, AnswersOK, ErrorsArrive, ErrorArrivesAsThrown, AnsweredIsSettled
<1>2. ASSUME AnswersOK, ErrorsArrive, [RpcNext]_rpcvars PROVE AnswersOK' /\ ErrorsArrive'
  <2> USE <1>2 DEF AnswersOK, ErrorsArrive, ErrorArrivesAsThrown, AnsweredIsSettled
  <2>0. \A e \in ErrorsOf(PeerClasses) : e.class # "result"
    BY RpcErrorsAssumption DEF ErrorsOf
  <2>1. ASSUME NEW id \in RequestIds, RpcRequest(id) PROVE AnswersOK' /\ ErrorsArrive'
    BY <2>1 DEF RpcRequest
  <2>2. ASSUME NEW id \in RequestIds, NEW e \in ThrownSet, Unanswered(id),
               thrown' = [thrown EXCEPT ![id] = e],
               responses' = responses \cup {[id |-> id, error |-> Settling(e)]},
               UNCHANGED <<callbacks, settled>>
        PROVE  AnswersOK' /\ ErrorsArrive'
    <3>1. e # NoData /\ thrown[id] = NoData /\ settled[id] = NoData
      BY <2>2, SettledRightly DEF Unanswered
    <3>2. AnswersOK'
      BY <2>2, <3>1
    <3>3. ErrorArrivesAsThrown'
      BY <2>2, <3>1
    <3>4. AnsweredIsSettled'
      <4>1. [id |-> id, error |-> Settling(e)] \in responses' /\ responses \subseteq responses'
        BY <2>2
      <4>2. \E r \in responses' : r.id = id
        BY <4>1
      <4> QED BY <2>2, <4>1, <4>2
    <3> QED BY <3>2, <3>3, <3>4
  <2>3. ASSUME NEW id \in RequestIds, HandlerReturns(id) PROVE AnswersOK' /\ ErrorsArrive'
    <3>1. [class |-> "result", data |-> NoData] \in ThrownSet
      BY DEF ThrownSet
    <3> QED BY <2>2, <2>3, <3>1 DEF HandlerReturns, Settling
  <2>4. ASSUME NEW id \in RequestIds,
               NEW e \in ErrorsOf(PeerClasses) \cup {[class |-> "TypeError", data |-> "private"]},
               HandlerThrows(id, e)
        PROVE  AnswersOK' /\ ErrorsArrive'
    <3>1. e \in ThrownSet
      BY DEF ThrownSet
    <3>2. e.class # "result"
      BY <2>0
    <3> QED BY <2>2, <2>4, <3>1, <3>2 DEF HandlerThrows, Settling
  <2>5. ASSUME NEW r \in responses, processResponse(r) PROVE AnswersOK' /\ ErrorsArrive'
    <3> DEFINE e == IF r.error = NoData THEN [class |-> "result", data |-> NoData] ELSE deserialize(r.error)
               t == thrown[r.id]
    <3>1. r.id \in RequestIds /\ t \in ThrownSet /\ r.error = Settling(t) /\ r.id \in callbacks
      BY <2>5 DEF processResponse
    <3>2. \/ e = NoData /\ t.class \in PeerClasses \ RpcErrorClasses
          \/ e \in Errors \ {NoData} /\ e = t
          \/ e \in Errors \ {NoData} /\ t.class \notin PeerClasses /\ e.class = "RpcInternalError" /\ e.data = NoData
      <4>1. CASE t.class = "result"
        <5>1. t = [class |-> "result", data |-> NoData]
          BY <2>0, <3>1, <4>1 DEF ThrownSet
        <5>2. e = t /\ e # NoData
          BY <3>1, <4>1, <5>1, SettledRightly
        <5> QED BY <3>1, <5>2, SettledRightly
      <4>2. CASE t.class # "result"
        <5>1. e = deserialize(Settling(t))
          BY <3>1, <4>2, SettledRightly
        <5> HIDE DEF e, t
        <5> QED BY <3>1, <4>2, <5>1, SettledRightly, RpcErrorsAssumption
      <4> QED BY <4>1, <4>2
    <3>3. /\ responses' = responses \ {r} /\ thrown' = thrown
          /\ IF e = NoData THEN callbacks' = callbacks /\ settled' = settled
             ELSE callbacks' = callbacks \ {r.id} /\ settled' = [settled EXCEPT ![r.id] = e]
      BY <2>5 DEF processResponse
    <3> HIDE DEF e
    <3>4. AnswersOK'
      BY <3>1, <3>2, <3>3
    <3>5. ErrorArrivesAsThrown'
      BY <3>1, <3>2, <3>3
    <3>6. AnsweredIsSettled'
      BY <3>1, <3>2, <3>3
    <3> QED BY <3>4, <3>5, <3>6
  <2>6. CASE UNCHANGED rpcvars
    BY <2>6 DEF rpcvars
  <2> QED BY <2>1, <2>3, <2>4, <2>5, <2>6 DEF RpcNext
<1> QED BY <1>1, <1>2, PTL DEF RpcSpec
=============================================================================
