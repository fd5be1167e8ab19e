--------------------------- MODULE ChannelTransport ---------------------------
(***************************************************************************)
(* The connection of a state channel to its node, the lower half of        *)
(* src/channel/internal.ts: the WebSocket, the timer that pings the node   *)
(* and drops one that stays silent, and the requests that expect a reply.  *)
(*                                                                         *)
(* Both timeouts share _pingTimeoutId: each one that is set replaces the   *)
(* other.  Pongs and replies are handled as they arrive, past the queue of *)
(* messages that ChannelFsm models.  Time is discrete, and passes only     *)
(* when no timeout is due.                                                 *)
(***************************************************************************)
EXTENDS Naturals

CONSTANTS
  Calls,        \* the calls of `call'
  PingTimeout,  \* PING_TIMEOUT_MS
  PongTimeout,  \* PONG_TIMEOUT_MS
  SendThrows    \* whether send on a socket that is closing or closed throws

ASSUME TransportAssumption ==
  /\ PingTimeout \in Nat \ {0}
  /\ PongTimeout \in Nat \ {0}
  /\ SendThrows \in BOOLEAN

VARIABLES
  ws,         \* readyState of _websocket
  timer,      \* what _pingTimeoutId waits for, "ping" or "pong", and how long
  known,      \* whether _channelId is set
  callbacks,  \* the keys of _rpcCallbacks
  promise,    \* each call of `call' and the promise it returned
  silent,     \* history: how long the open socket has brought no valid pong,
              \* counted up to TooLong
  dropped,    \* history: whether the timer closed the socket
  answer      \* history: the first reply to each call

vars == <<ws, timer, known, callbacks, promise, silent, dropped, answer>>

TooLong == PingTimeout + PongTimeout + 1

NoTimer == [for |-> "none", left |-> 0]

\* mutant: the two timeouts swapped
PingSwapped == timer' = [for |-> "ping", left |-> PongTimeout]

\* ping
Ping == timer' = [for |-> "ping", left |-> PingTimeout]

\* initialize has created the socket.
Init ==
  /\ ws = "connecting"
  /\ timer = NoTimer
  /\ known = FALSE
  /\ callbacks = {}
  /\ promise = [c \in Calls |-> "none"]
  /\ silent = 0
  /\ dropped = FALSE
  /\ answer = [c \in Calls |-> "none"]

-----------------------------------------------------------------------------
(* The socket *)

\* onopen
Opened ==
  /\ ws = "connecting"
  /\ ws' = "open"
  /\ Ping
  /\ UNCHANGED <<known, callbacks, promise, silent, dropped, answer>>

ClosedOnly == \* mutant: the timeout outlives the socket
  /\ ws # "closed"
  /\ ws' = "closed"
  /\ UNCHANGED <<timer, known, callbacks, promise, silent, dropped, answer>>

\* onclose; after onerror when the socket could not connect
Closed ==
  /\ ws # "closed"
  /\ ws' = "closed"
  /\ timer' = NoTimer
  /\ UNCHANGED <<known, callbacks, promise, silent, dropped, answer>>

\* disconnect: who has a channel has a socket that was open.
Disconnect ==
  /\ ws \in {"open", "closing", "closed"}
  /\ ws' = IF ws = "open" THEN "closing" ELSE ws
  /\ timer' = NoTimer
  /\ UNCHANGED <<known, callbacks, promise, silent, dropped, answer>>

\* A handler of ChannelFsm learns the id of the channel.
Identified ==
  /\ ws \in {"open", "closing"}
  /\ ~known
  /\ known' = TRUE
  /\ UNCHANGED <<ws, timer, callbacks, promise, silent, dropped, answer>>

-----------------------------------------------------------------------------
(* The timeouts *)

Due == timer.for # "none" /\ timer.left = 0

\* Time passes, but for a timeout that is due.
Tick ==
  /\ ~Due
  /\ timer' = IF timer.for = "none" THEN timer ELSE [timer EXCEPT !.left = @ - 1]
  /\ silent' = IF ws = "open" /\ silent < TooLong THEN silent + 1 ELSE silent
  /\ ws # "closed"
  /\ UNCHANGED <<ws, known, callbacks, promise, dropped, answer>>

PingFiresOnce == \* mutant: nothing waits for the pong
  /\ Due /\ timer.for = "ping"
  /\ timer' = NoTimer
  /\ UNCHANGED <<ws, known, callbacks, promise, silent, dropped, answer>>

\* The node is pinged, and has PongTimeout to answer.  When notify throws, as
\* it may on a socket that is closing, no timeout is set.
PingFires ==
  /\ Due /\ timer.for = "ping"
  /\ timer' = IF ws # "open" /\ SendThrows THEN NoTimer
              ELSE [for |-> "pong", left |-> PongTimeout]
  /\ UNCHANGED <<ws, known, callbacks, promise, silent, dropped, answer>>

PongFiresOnlyReported == \* mutant: the error without the disconnect
  /\ Due /\ timer.for = "pong"
  /\ timer' = NoTimer
  /\ UNCHANGED <<ws, known, callbacks, promise, silent, dropped, answer>>

\* disconnect, and the error ChannelPingTimedOutError
PongFires ==
  /\ Due /\ timer.for = "pong"
  /\ timer' = NoTimer
  /\ ws' = IF ws = "open" THEN "closing" ELSE ws
  /\ dropped' = (dropped \/ ws = "open")
  /\ UNCHANGED <<known, callbacks, promise, silent, answer>>

-----------------------------------------------------------------------------
(* What arrives on the socket; a socket that is closing may still deliver *)

\* Only a pong that carries the id of the channel counts, any one while the
\* id is not known.
Accepted(matches) == matches \/ ~known

PongArrivesLate(matches) == \* mutant: the timeout that waits for it goes on
  /\ ws \in {"open", "closing"}
  /\ Accepted(matches)
  /\ IF timer.for = "pong" THEN UNCHANGED timer ELSE Ping
  /\ silent' = IF ws = "open" THEN 0 ELSE silent
  /\ UNCHANGED <<ws, known, callbacks, promise, dropped, answer>>

PongArrives(matches) ==
  /\ ws \in {"open", "closing"}
  /\ Accepted(matches)
  /\ Ping
  /\ silent' = IF ws = "open" THEN 0 ELSE silent
  /\ UNCHANGED <<ws, known, callbacks, promise, dropped, answer>>

\* call: when send throws the promise is rejected, and the callback stays.
Call(c) ==
  /\ promise[c] = "none"
  /\ ws # "connecting"
  /\ callbacks' = callbacks \cup {c}
  /\ promise' = [promise EXCEPT ![c] =
       CASE ws = "open" -> "pending"
         [] ws # "open" /\ SendThrows -> "unsent"
         [] OTHER -> "vain"]
  /\ UNCHANGED <<ws, timer, known, silent, dropped, answer>>

\* What the callback does; it throws when the error has no data.
Settled(reply) ==
  CASE reply = "result" -> "resolved"
    [] reply = "error" -> "rejected"
    [] OTHER -> "pending"

DeleteAll(c) == {} \* mutant: clear instead of delete

\* The callback is deleted also when it throws.
DeleteCallback(c) == callbacks \ {c}

\* A reply.  The node may repeat it: its callback is gone then, and the user
\* gets an error.
ReplyArrives(c, reply) ==
  /\ ws \in {"open", "closing"}
  /\ promise[c] \notin {"none", "unsent", "vain"}
  /\ IF c \in callbacks
     THEN /\ promise' = [promise EXCEPT ![c] = Settled(reply)]
          /\ callbacks' = DeleteCallback(c)
     ELSE UNCHANGED <<promise, callbacks>>
  /\ answer' = [answer EXCEPT ![c] = IF @ = "none" THEN reply ELSE @]
  /\ UNCHANGED <<ws, timer, known, silent, dropped>>

Replies == {"result", "error", "bare error"}

Next ==
  \/ Opened \/ Closed \/ Disconnect \/ Identified
  \/ Tick \/ PingFires \/ PongFires
  \/ \E matches \in BOOLEAN : PongArrives(matches)
  \/ \E c \in Calls : Call(c) \/ \E reply \in Replies : ReplyArrives(c, reply)

Spec == Init /\ [][Next]_vars

\* Time passes, and a timeout that is due fires.
Fairness == WF_vars(Tick) /\ WF_vars(PingFires) /\ WF_vars(PongFires)

FairSpec == Spec /\ Fairness

-----------------------------------------------------------------------------
(* Properties *)

\* Every variable keeps its type, and no timeout is longer than the code's.
TypeOK ==
  /\ ws \in {"connecting", "open", "closing", "closed"}
  /\ timer \in [for : {"none", "ping", "pong"}, left : Nat]
  /\ timer.for = "ping" => timer.left <= PingTimeout
  /\ timer.for = "pong" => timer.left <= PongTimeout
  /\ known \in BOOLEAN
  /\ callbacks \subseteq Calls
  /\ promise \in [Calls -> {"none", "pending", "resolved", "rejected", "unsent", "vain"}]
  /\ silent \in 0 .. TooLong
  /\ dropped \in BOOLEAN
  /\ answer \in [Calls -> Replies \cup {"none"}]

\* A socket is not kept open on a node that has been silent for longer than
\* both timeouts together, whatever else happens on the connection.
NoticedInTime == ws = "open" => silent <= PingTimeout + PongTimeout

\* The timer closes the socket only when no valid pong has come for as long as
\* both timeouts: a node that answers each ping in time is never dropped.
NeverDroppedEarly == dropped => silent >= PingTimeout + PongTimeout

\* Nothing is left waiting on a socket that closed: no ping is sent on it, and
\* no ChannelPingTimedOutError reported.
QuietAfterClose == ws = "closed" => timer.for = "none"

\* A call has the outcome of the first reply to it, whatever was asked and
\* answered in between; a repeated reply changes nothing.  A reply the callback
\* cannot read leaves it pending.
FirstAnswerCounts ==
  \A c \in Calls : answer[c] # "none" => promise[c] = Settled(answer[c])

\* An open socket hears from the node again, or is closed.
HeardOrDropped == ws = "open" /\ silent > 0 ~> ws # "open" \/ silent = 0
=============================================================================
