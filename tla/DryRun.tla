-------------------------------- MODULE DryRun --------------------------------
(***************************************************************************)
(* txDryRun (src/src/chain.ts): calls that allow it are combined into one  *)
(* request to the node, when they are alike and made in the same turn.     *)
(***************************************************************************)
EXTENDS Naturals, Sequences, FiniteSets

CONSTANTS
    Calls, Unset,
    Nodes, Tops,    \* Tops: hashes and heights of blocks, each with or without txEvents
    Heights,        \* those of Tops that are heights
    Combines        \* the calls with the option combine
ASSUME DryRunAssumption ==
    /\ Heights \subseteq Tops /\ Combines \subseteq Calls
    /\ {"idle", "pending"} \cap Nodes = {}

VARIABLES
    onNode, top,    \* options of the call, chosen when it is made
    state,          \* of its promise: a result names the node it is of
    batches,        \* txDryRunRequests
    timers,         \* timeouts set: <<key, node>>
    handlers        \* of txDryRunHandler: the requests taken, the node, its stage

dvars == <<onNode, top, state, batches, timers, handlers>>

Handler(rs, n, tops) == [rs |-> rs, node |-> n, at |-> IF tops[rs[1]] \in Heights THEN "block" ELSE "run"]
Elements(rs) == {rs[i] : i \in DOMAIN rs}

\* mutant: any call joins any batch.
Key_Same(t) == CHOOSE k \in Tops : TRUE

\* The key: [top, txEvents].join()
Key(t) == t

Made(c) ==
    /\ state[c] = "idle"
    /\ state' = [state EXCEPT ![c] = "pending"]
    /\ \E n \in Nodes, t \in Tops : onNode' = [onNode EXCEPT ![c] = n] /\ top' = [top EXCEPT ![c] = t]

\* Calls that are not combined are handled in the turn they are made: their
\* key "immediate" is never left in the map.
Immediate(c) ==
    /\ c \notin Combines /\ Made(c)
    /\ handlers' = handlers \cup {Handler(<<c>>, onNode'[c], top')}
    /\ UNCHANGED <<batches, timers>>

\* mutant: a request that joins a batch sets a timeout too.
Combined_Timer(c) ==
    /\ c \in Combines /\ Made(c)
    /\ LET k == Key(top'[c]) IN
       /\ batches' = [batches EXCEPT ![k] = Append(@, c)]
       /\ timers' = timers \cup {<<k, onNode'[c]>>}
    /\ UNCHANGED handlers

\* The first of a batch sets the timeout, with its own node.
Combined(c) ==
    /\ c \in Combines /\ Made(c)
    /\ LET k == Key(top'[c]) IN
       /\ batches' = [batches EXCEPT ![k] = Append(@, c)]
       /\ timers' = IF batches[k] = <<>> THEN timers \cup {<<k, onNode'[c]>>} ELSE timers
    /\ UNCHANGED handlers

\* mutant: the batch stays in the map while the node is asked.
TimeOut_Keep(k, n) ==
    /\ <<k, n>> \in timers /\ timers' = timers \ {<<k, n>>}
    /\ batches[k] # <<>>
    /\ handlers' = handlers \cup {Handler(batches[k], n, top)}
    /\ UNCHANGED <<onNode, top, state, batches>>

\* The handler takes the batch out of the map; without one it would throw.
TimeOut(k, n) ==
    /\ <<k, n>> \in timers /\ timers' = timers \ {<<k, n>>}
    /\ batches[k] # <<>> /\ batches' = [batches EXCEPT ![k] = <<>>]
    /\ handlers' = handlers \cup {Handler(batches[k], n, top)}
    /\ UNCHANGED <<onNode, top, state>>

Settle(h, to) ==
    /\ state' = [c \in Calls |-> IF c \in Elements(h.rs) THEN to[c] ELSE state[c]]
    /\ handlers' = handlers \ {h}
    /\ UNCHANGED <<onNode, top, batches, timers>>

\* getKeyBlockByHeight
BlockRead(h) ==
    /\ h.at = "block"
    /\ handlers' = (handlers \ {h}) \cup {[h EXCEPT !.at = "run"]}
    /\ UNCHANGED <<onNode, top, state, batches, timers>>

RequestFails(h) == Settle(h, [c \in Calls |-> "failed"])

\* mutant: the first that fails fails those after it.
Ran_Abort(h) ==
    /\ h.at = "run"
    /\ \E bad \in 1..Len(h.rs) + 1 :
        /\ state' = [c \in Calls |-> IF \E i \in 1..bad - 1 : h.rs[i] = c THEN h.node ELSE state[c]]
        /\ handlers' = handlers \ {h}
    /\ UNCHANGED <<onNode, top, batches, timers>>

\* Each of the results goes to the call at its place.
Ran(h) == h.at = "run" /\ \E to \in [Elements(h.rs) -> {"failed", h.node}] : Settle(h, to)

-----------------------------------------------------------------------------
DInit ==
    /\ onNode = [c \in Calls |-> Unset] /\ top = onNode
    /\ state = [c \in Calls |-> "idle"]
    /\ batches = [k \in Tops |-> <<>>] /\ timers = {} /\ handlers = {}

Runs(h) == BlockRead(h) \/ RequestFails(h) \/ Ran(h)
DNext ==
    \/ \E c \in Calls : Immediate(c) \/ Combined(c)
    \/ \E k \in Tops, n \in Nodes : TimeOut(k, n)
    \/ \E h \in handlers : Runs(h)

DSpec == DInit /\ [][DNext]_dvars

\* Timeouts fire and requests end.
DFairness == /\ WF_dvars(\E h \in handlers : Runs(h))
            /\ \A k \in Tops, n \in Nodes : WF_dvars(TimeOut(k, n))
DFairSpec == DSpec /\ DFairness

-----------------------------------------------------------------------------
(* Properties *)

\* A timeout finds its batch, and no batch waits without one: the handler
\* never throws "Can't get dry-run request" (chain.ts:316), and no request is
\* left behind in the map.
TimersMatchBatches == \A k \in Tops :
    Cardinality({n \in Nodes : <<k, n>> \in timers}) = IF batches[k] = <<>> THEN 0 ELSE 1

\* Every call waits in one place, the map or one handler, until its promise
\* is settled, and in none after.
WaitsInOnePlace == \A c \in Calls :
    Cardinality({k \in Tops : c \in Elements(batches[k])} \cup {h \in handlers : c \in Elements(h.rs)})
        = IF state[c] = "pending" THEN 1 ELSE 0

\* Calls that share a request ask for the same block.
SameTop == \A h \in handlers : \A c, d \in Elements(h.rs) : top[c] = top[d]

\* However calls overlap, each is in one batch, of its own block, that will
\* be sent.
BatchesInOrder == TimersMatchBatches /\ WaitsInOnePlace /\ SameTop

\* Every call settles, whatever becomes of those it was combined with.
EveryDryRunSettles == <>[](\A c \in Calls : state[c] # "pending")
=============================================================================
