------------------------- MODULE MiddlewareSubscriber -------------------------
(***************************************************************************)
(* Subscriptions to the events of a middleware over one WebSocket,         *)
(* src/MiddlewareSubscriber.ts.                                            *)
(*                                                                         *)
(* subscribe opens a socket when there are no subscriptions yet, and       *)
(* unsubscribing closes it when none is left.  #disconnect detaches all    *)
(* the handlers of a socket but onclose, so a socket that was given up     *)
(* still reports that it closed.  The replies of the middleware carry no   *)
(* id: they are matched with the requests in #requestQueue by their order. *)
(***************************************************************************)
EXTENDS Naturals, Sequences, FiniteSets, SequencesExt

CONSTANTS
  Subs,         \* the calls of subscribe
  TargetOf,     \* what each of them subscribes to
  Invalid,      \* the targets the middleware refuses
  MaxSockets,   \* bound: WebSockets created
  MaxRequests,  \* bound: requests that wait in #requestQueue
  None          \* the value undefined of #webSocket

Targets == {TargetOf[x] : x \in Subs}

ASSUME SubscriberAssumption ==
  /\ DOMAIN TargetOf = Subs
  /\ Invalid \subseteq Targets
  /\ MaxSockets \in Nat \ {0}
  /\ MaxRequests \in Nat
  /\ None \notin Nat

Sockets == 1 .. MaxSockets

Requests == [sub : BOOLEAN, target : Targets]

\* A reply, the list of the subscribed targets or an error that names one, is the
\* set of targets that message.includes finds in it.
Replies == SUBSET Targets

VARIABLES
  subs,        \* #subscriptions: which calls are in it
  cur,         \* #webSocket
  rs,          \* readyState of each socket
  attached,    \* the sockets that have onopen, onerror and onmessage
  queue,       \* #requestQueue
  closeDue,    \* onclose is in its emit, its #disconnect(true) is to come
  fault,       \* the InternalError of the last reply that was not as expected
  told,        \* history: subscriptions told of a closed socket since the last
               \* one opened
  late,        \* history: those made when no socket was connecting or to stay
  up,          \* requests on their way to the middleware, for each socket
  down,        \* replies on their way back
  server       \* the targets the middleware has for each socket

vars == <<subs, cur, rs, attached, queue, closeDue, fault, told, late, up, down, server>>

Active == {x \in Subs : subs[x] = "active"}

\* #targets
Wanted == {TargetOf[x] : x \in Active}

Init ==
  /\ subs = [x \in Subs |-> "new"]
  /\ cur = None
  /\ rs = [s \in Sockets |-> "unused"]
  /\ attached = {}
  /\ queue = <<>>
  /\ closeDue = FALSE
  /\ fault = "none"
  /\ told = {} /\ late = {}
  /\ up = [s \in Sockets |-> <<>>]
  /\ down = [s \in Sockets |-> <<>>]
  /\ server = [s \in Sockets |-> {}]

-----------------------------------------------------------------------------
(* Parts of the operations *)

\* #sendSubscribe for each of the requests reqs, on socket s: what is sent on a
\* socket that is closing or closed is lost, and still expects a reply.
Send(s, reqs) ==
  /\ Len(queue \o reqs) <= MaxRequests
  /\ queue' = queue \o reqs
  /\ up' = IF rs[s] = "open" THEN [up EXCEPT ![s] = @ \o reqs] ELSE up

SendSubscribe(sub, target) ==
  IF cur = None
  THEN UNCHANGED <<queue, up>>
  ELSE Send(cur, <<[sub |-> sub, target |-> target]>>)

\* What #disconnect does to the current socket, but for the assignments.
CloseCurrent == [s \in Sockets |-> IF s = cur /\ rs[s] = "open" THEN "closing" ELSE rs[s]]

\* reconnect, up to its await.
Reconnect ==
  \E s \in Sockets :
    /\ rs[s] = "unused" /\ \A t \in 1 .. s - 1 : rs[t] # "unused"
    /\ rs' = [CloseCurrent EXCEPT ![s] = "connecting"]
    /\ attached' = (attached \ {cur}) \cup {s}
    /\ cur' = None

-----------------------------------------------------------------------------
(* Steps of the user, who may also act in the callbacks of an emit *)

SubscribeOnce(x) == \* mutant: only the subscription that connects is requested
  /\ subs[x] = "new"
  /\ subs' = [subs EXCEPT ![x] = "active"]
  /\ IF Wanted = {}
     THEN Reconnect /\ UNCHANGED <<queue, up, late>>
     ELSE UNCHANGED <<queue, up, late, cur, rs, attached>>
  /\ told' = told \ {x}
  /\ UNCHANGED <<closeDue, fault, down, server>>

Subscribe(x) ==
  /\ subs[x] = "new"
  /\ subs' = [subs EXCEPT ![x] = "active"]
  /\ IF Wanted = {}
     THEN Reconnect /\ UNCHANGED <<queue, up, late>>
     ELSE /\ IF TargetOf[x] \notin Wanted
             THEN SendSubscribe(TRUE, TargetOf[x]) ELSE UNCHANGED <<queue, up>>
          /\ late' = IF \/ \E s \in Sockets : rs[s] = "connecting"
                        \/ cur # None /\ ~closeDue
                     THEN late ELSE late \cup {x}
          /\ UNCHANGED <<cur, rs, attached>>
  /\ told' = told \ {x}
  /\ UNCHANGED <<closeDue, fault, down, server>>

\* The function that subscribe returned, which may be called more than once.
Unsubscribe(x) ==
  /\ subs[x] # "new"
  /\ subs' = [subs EXCEPT ![x] = "gone"]
  /\ LET wanted == {TargetOf[y] : y \in Active \ {x}}
     IN /\ IF TargetOf[x] \notin wanted
           THEN SendSubscribe(FALSE, TargetOf[x]) ELSE UNCHANGED <<queue, up>>
        /\ IF wanted = {}
           THEN rs' = CloseCurrent /\ attached' = attached \ {cur} /\ cur' = None
           ELSE UNCHANGED <<rs, attached, cur>>
  /\ UNCHANGED <<closeDue, fault, told, late, down, server>>

UserReconnects ==
  /\ Reconnect
  /\ UNCHANGED <<subs, queue, closeDue, fault, told, late, up, down, server>>

\* webSocket.close()
UserCloses ==
  /\ cur # None
  /\ rs[cur] = "open"
  /\ rs' = [rs EXCEPT ![cur] = "closing"]
  /\ UNCHANGED <<subs, cur, attached, queue, closeDue, fault, told, late, up, down, server>>

-----------------------------------------------------------------------------
(* Events of the sockets *)

OpenedUnasked(s) == \* mutant: the new socket is used, and nothing requested
  /\ ~closeDue
  /\ rs[s] = "connecting"
  /\ rs' = [rs EXCEPT ![s] = "open"]
  /\ cur' = s
  /\ told' = {} /\ late' = {}
  /\ UNCHANGED <<subs, attached, queue, closeDue, fault, up, down, server>>

\* onopen, and reconnect after its await: every target is requested.
Opened(s) ==
  /\ ~closeDue
  /\ rs[s] = "connecting"
  /\ rs' = [rs EXCEPT ![s] = "open"]
  /\ cur' = s
  /\ \E order \in SetToSeqs(Wanted) :
       LET reqs == [i \in DOMAIN order |-> [sub |-> TRUE, target |-> order[i]]]
       IN /\ Len(queue \o reqs) <= MaxRequests
          /\ queue' = queue \o reqs
          /\ up' = [up EXCEPT ![s] = reqs]
  /\ told' = {} /\ late' = {}
  /\ UNCHANGED <<subs, attached, closeDue, fault, down, server>>

ResetToNull == cur' = 0 /\ attached' = attached \ {cur} \* mutant: null is a socket

\* #disconnect(true): the current socket is given up, and not closed.
Reset == cur' = None /\ attached' = attached \ {cur}

ClosedQuietly(s) == \* mutant: nobody is told
  /\ ~closeDue
  /\ rs[s] \in {"connecting", "open", "closing"}
  /\ rs' = [rs EXCEPT ![s] = "closed"]
  /\ Reset
  /\ UNCHANGED <<subs, queue, closeDue, fault, told, late, up, down, server>>

\* onclose of any socket ever opened, after onerror when it could not connect.
\* Unless there is nobody to call back, user code runs before the #disconnect.
Closed(s) ==
  /\ ~closeDue
  /\ rs[s] \in {"connecting", "open", "closing"}
  /\ rs' = [rs EXCEPT ![s] = "closed"]
  /\ up' = [up EXCEPT ![s] = <<>>]
  /\ down' = [down EXCEPT ![s] = <<>>]
  /\ server' = [server EXCEPT ![s] = {}]
  /\ told' = told \cup Active
  /\ IF Active = {}
     THEN Reset /\ UNCHANGED closeDue
     ELSE closeDue' = TRUE /\ UNCHANGED <<cur, attached>>
  /\ UNCHANGED <<subs, queue, fault, late>>

CloseDone ==
  /\ closeDue
  /\ closeDue' = FALSE
  /\ Reset
  /\ UNCHANGED <<subs, rs, queue, fault, told, late, up, down, server>>

Youngest(q) == Last(q) \* mutant: pop instead of shift

\* The request a reply is taken for.
Expected(q) == Head(q)

\* onmessage with a reply
Reply(s) ==
  /\ ~closeDue
  /\ down[s] # <<>>
  /\ down' = [down EXCEPT ![s] = Tail(@)]
  /\ IF s \notin attached
     THEN UNCHANGED <<queue, fault>>
     ELSE IF queue = <<>>
     THEN fault' = "empty" /\ UNCHANGED queue
     ELSE /\ queue' = Tail(queue)
          /\ fault' = IF (Expected(queue).target \in Head(down[s])) = Expected(queue).sub
                      THEN fault ELSE "mismatch"
  /\ UNCHANGED <<subs, cur, rs, attached, closeDue, told, late, up, server>>

-----------------------------------------------------------------------------
(* The middleware *)

After(targets, r) ==
  IF r.sub THEN targets \cup ({r.target} \ Invalid) ELSE targets \ {r.target}

\* It takes the requests of a socket in order and answers each of them.
Serve(s) ==
  /\ up[s] # <<>>
  /\ LET r == Head(up[s])
         refused == r.sub /\ r.target \in Invalid
     IN /\ server' = [server EXCEPT ![s] = After(@, r)]
        /\ down' = [down EXCEPT ![s] =
             Append(@, IF refused THEN {r.target} ELSE After(server[s], r))]
  /\ up' = [up EXCEPT ![s] = Tail(@)]
  /\ UNCHANGED <<subs, cur, rs, attached, queue, closeDue, fault, told, late>>

-----------------------------------------------------------------------------

Next ==
  \/ \E x \in Subs : Subscribe(x) \/ Unsubscribe(x)
  \/ UserReconnects
  \/ UserCloses
  \/ CloseDone
  \/ \E s \in Sockets : Opened(s) \/ Closed(s) \/ Reply(s) \/ Serve(s)

Spec == Init /\ [][Next]_vars

\* Callbacks return; an attempt to connect ends, as does a closing handshake;
\* the middleware reads what it is sent.
Fairness ==
  /\ WF_vars(CloseDone)
  /\ \A s \in Sockets :
       /\ WF_vars(Opened(s) \/ (rs[s] \in {"connecting", "closing"} /\ Closed(s)))
       /\ WF_vars(Reply(s)) /\ WF_vars(Serve(s))

FairSpec == Spec /\ Fairness

-----------------------------------------------------------------------------
(* Properties *)

\* Every variable keeps its type.
TypeOK ==
  /\ subs \in [Subs -> {"new", "active", "gone"}]
  /\ cur \in Sockets \cup {None}
  /\ rs \in [Sockets -> {"unused", "connecting", "open", "closing", "closed"}]
  /\ attached \subseteq Sockets
  /\ queue \in Seq(Requests)
  /\ closeDue \in BOOLEAN
  /\ fault \in {"none", "mismatch", "empty"}
  /\ told \subseteq Subs
  /\ late \subseteq Subs
  /\ up \in [Sockets -> Seq(Requests)]
  /\ down \in [Sockets -> Seq(Replies)]
  /\ server \in [Sockets -> SUBSET Targets]

\* A middleware that serves the targets in served will serve t once it has read the
\* requests: the last of those about t decides.
WillServe(requests, served, t) ==
  LET about == {i \in DOMAIN requests : requests[i].target = t}
  IN \/ about = {} /\ t \in served
     \/ /\ t \notin Invalid
        /\ \E i \in about : requests[i].sub /\ \A j \in about : j <= i

\* On the current socket the middleware has been asked for exactly the targets
\* that have subscribers: once it has read all requests it serves those that are
\* valid, and no others.
AskedForWanted ==
  cur # None /\ rs[cur] = "open"
    => \A t \in Targets : WillServe(up[cur], server[cur], t) <=> t \in Wanted \ Invalid

\* A subscription that no socket serves, nor is about to, was told so, or it was
\* made when the others already had been told.
NobodyLeftBehind ==
  cur = None /\ ~closeDue /\ (\A s \in Sockets : rs[s] # "connecting")
    => Active \subseteq told \cup late

\* Until a second socket is opened, the requests that await a reply are those
\* whose reply is on its way, so each reply is taken for that of its request.
FirstSocketInOrder ==
  rs[1] = "open" /\ (\A s \in Sockets \ {1} : rs[s] = "unused")
    => /\ fault = "none"
       /\ Len(queue) = Len(down[1]) + Len(up[1])

\* What the subscriber keeps of the socket in use fits what was asked of the
\* middleware over it: the targets asked for, and the requests to be replied to.
SocketInStep == TypeOK /\ AskedForWanted /\ FirstSocketInOrder

\* A subscription is served by the middleware in the end, or its subscriber gets
\* an error, or no longer wants it (or it was made too late, see above).
ServedOrTold ==
  \A x \in Subs :
    subs[x] = "active" /\ TargetOf[x] \notin Invalid ~>
      \/ subs[x] = "gone" \/ x \in told \/ x \in late
      \/ cur # None /\ TargetOf[x] \in server[cur]
=============================================================================
