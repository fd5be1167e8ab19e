----------------------------- MODULE RequestQueue -----------------------------
(***************************************************************************)
(* What a channel's action queue promises to the callers of its            *)
(* operations: requests go to the node in the order of the calls, each at  *)
(* most once, and the promise of a requested operation is settled at most  *)
(* once.  A serial queue has one unsettled request at a time.              *)
(***************************************************************************)
EXTENDS Naturals, Sequences

CONSTANTS Ops,    \* the calls of user operations
          Serial  \* whether a request waits until the last one is settled

VARIABLES waiting,  \* called, and not yet requested, in the order of the calls
          out,      \* requested, and not settled
          done      \* settled, or never to be requested

vars == <<waiting, out, done>>

Init == waiting = <<>> /\ out = {} /\ done = {}

Fresh(o) ==
  o \notin out \cup done /\ \A i \in 1 .. Len(waiting) : waiting[i] # o

\* The head of the queue q is requested, or dropped if it cannot be sent.
Request(q) ==
  /\ q # <<>>
  /\ waiting' = Tail(q)
  /\ \/ /\ Serial => out = {}
        /\ out' = out \cup {Head(q)}
        /\ UNCHANGED done
     \/ /\ done' = done \cup {Head(q)}
        /\ UNCHANGED out

Submit(o) ==
  /\ Fresh(o)
  /\ \/ waiting' = Append(waiting, o) /\ UNCHANGED <<out, done>>
     \/ Request(Append(waiting, o))

Finish(o) ==
  /\ o \in out
  /\ out' = out \ {o}
  /\ done' = done \cup {o}
  /\ UNCHANGED waiting

Next ==
  \/ \E o \in Ops : Submit(o) \/ Finish(o)
  \/ Request(waiting)

Spec == Init /\ [][Next]_vars
=============================================================================
